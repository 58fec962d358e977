--------------------------- MODULE SubmitPipeline ---------------------------
(***************************************************************************)
(* The life of a SUBMIT inside one connection (src/connection.rs), from    *)
(* the window permit to its terminal event, with the tasks that race for   *)
(* it: callers of submit(), the writer, the reader, the timeout scanner,   *)
(* the graceful close driver, the overload close task and the detached     *)
(* cleanup that finish() spawns.                                           *)
(*                                                                         *)
(* An entry of pending_submits is st[i] with its attempt number att[i].    *)
(* A sequence id has one life (module SequenceRegistry), so the            *)
(* submission_id that keys also carry is redundant and left out.  The      *)
(* spool behind emit_event is module EventDelivery: here it accepts, or    *)
(* overflows, at any moment.  Time is a choice: a timer may fire whenever  *)
(* the code arms it.                                                       *)
(***************************************************************************)
EXTENDS Integers, Sequences, FiniteSets

CONSTANTS Ids,         \* sequence ids callers submit
          Window,      \* window_size: permits of window_semaphore
          RetryCount,  \* retry_count: attempts, the first included
          QueueCap,    \* SEND_CHANNEL_CAPACITY
          BatchMax,    \* write_batch_max_frames
          RetryBatch,  \* submit_retry_batch_size
          DropBatch,   \* SUBMIT_DROPPED_BATCH_SIZE
          MaxResp      \* bound: SUBMIT_RESPs the peer sends for one id

ASSUME ConstantsAssumption ==
    /\ IsFiniteSet(Ids)
    /\ Window \in Nat \ {0} /\ RetryCount \in Nat \ {0}
    /\ QueueCap \in Nat \ {0} /\ BatchMax \in Nat \ {0}
    /\ RetryBatch \in Nat \ {0} /\ DropBatch \in Nat \ {0}
    /\ MaxResp \in Nat

VARIABLES
    phase, drain,      \* ConnectionPhase, drain_submits_on_close
    cleanup, dropList, \* progress of finish(); ids fail_all_pending still owes
    sub,               \* what the caller of id i holds
    st, att, permits,  \* pending_submits; available window permits
    queue,             \* submit_tx: attempt keys and the drain marker
    wpc, wbatch, wmark,\* writer: step, batch in hand, marker in hand
    rpc, rbuf, remit,  \* reader: step, decoded responses, matched responses
    tpc, tkeys,        \* timeout task: step, keys of its last scan
    adm, ovf, overload,\* event_admission, event_overflowed, overload close
    gpc, marker,       \* graceful close driver; how its marker was acked
    outcome, delivered, lost,  \* history: terminal events of id i
    claims, wrote, resps       \* history: writes started, completed; responses

conn    == <<phase, drain, cleanup, dropList>>
entries == <<st, att, permits>>
writer  == <<wpc, wbatch, wmark>>
reader  == <<rpc, rbuf, remit>>
timer   == <<tpc, tkeys>>
events  == <<adm, ovf, overload>>
closer  == <<gpc, marker>>
fates   == <<outcome, delivered, lost>>
wire    == <<claims, wrote, resps>>
vars    == <<conn, sub, entries, queue, writer, reader, timer, events, closer, fates, wire>>

Live     == {"Queued", "Writing", "Awaiting"}
Accepts  == {"Open", "Draining"}
Key      == [id : Ids, attempt : 1..RetryCount]
Marker   == [marker |-> TRUE]

TypeConn    == /\ phase \in {"Open", "Closing", "Closed"} /\ drain \in BOOLEAN
               /\ cleanup \in {"off", "clear", "fail", "send", "done"} /\ dropList \in SUBSET Ids
TypeSub     == sub \in [Ids -> {"new", "permit", "slot", "admitted", "refused"}]
TypeEntries == /\ st \in [Ids -> Live \cup {"Responded", "absent"}]
               /\ att \in [Ids -> 0..RetryCount] /\ permits \in Int
TypeQueue   == queue \in Seq(Key \cup {Marker})
TypeWriter  == wpc \in {"pick", "write", "done"} /\ wbatch \in SUBSET Key /\ wmark \in BOOLEAN
TypeReader  == rpc \in {"run", "term", "done"} /\ rbuf \in SUBSET Ids /\ remit \in SUBSET Ids
TypeTimer   == tpc \in {"wait", "scan", "work", "done"} /\ tkeys \in SUBSET Key
TypeEvents  == /\ adm \in Accepts \cup {"Overflowed", "Sealed", "Terminal"} /\ ovf \in BOOLEAN
               /\ overload \in {"idle", "flagged", "start", "drain", "finish", "done"}
TypeCloser  == /\ gpc \in {"idle", "marker", "ack", "handshake", "sealed", "reap", "done"}
               /\ marker \in {"none", "clean", "revoked"}
TypeFates   == /\ outcome \in [Ids -> {"none", "resp", "timeout", "dropped"}]
               /\ delivered \in [Ids -> Nat]
               /\ lost \in [Ids -> {"no", "overflow", "refused", "budget"}]
TypeWire    == claims \in [Ids -> Nat] /\ wrote \in [Ids -> Nat] /\ resps \in [Ids -> Nat]

TypeOK == /\ TypeConn /\ TypeSub /\ TypeEntries /\ TypeQueue /\ TypeWriter /\ TypeReader
          /\ TypeTimer /\ TypeEvents /\ TypeCloser /\ TypeFates /\ TypeWire

Init ==
    /\ phase = "Open" /\ drain = FALSE /\ cleanup = "off" /\ dropList = {}
    /\ sub = [i \in Ids |-> "new"]
    /\ st = [i \in Ids |-> "absent"] /\ att = [i \in Ids |-> 0] /\ permits = Window
    /\ queue = <<>>
    /\ wpc = "pick" /\ wbatch = {} /\ wmark = FALSE
    /\ rpc = "run" /\ rbuf = {} /\ remit = {}
    /\ tpc = "wait" /\ tkeys = {}
    /\ adm = "Open" /\ ovf = FALSE /\ overload = "idle"
    /\ gpc = "idle" /\ marker = "none"
    /\ outcome = [i \in Ids |-> "none"] /\ delivered = [i \in Ids |-> 0]
    /\ lost = [i \in Ids |-> "no"]
    /\ claims = [i \in Ids |-> 0] /\ wrote = [i \in Ids |-> 0] /\ resps = [i \in Ids |-> 0]

-----------------------------------------------------------------------------
\* Helpers shared by the handlers.

\* A permit of the submit channel is free: neither queued nor reserved.
SlotFree == Len(queue) + Cardinality({i \in Ids : sub[i] = "slot"}) < QueueCap

\* The writer may send SUBMITs: Open, or Closing while the drain is on.
CanSubmit == phase = "Open" \/ (phase = "Closing" /\ drain)

\* begin_closing(FALSE); it also revokes a drain that close() had started.
CloseWithoutDrain ==
    /\ phase' = IF phase = "Open" THEN "Closing" ELSE phase
    /\ drain' = (drain /\ phase = "Closed")
    /\ UNCHANGED <<cleanup, dropList>>

BeginEventDrain == adm' = IF adm = "Open" THEN "Draining" ELSE adm

\* End of drain_event_tickets: idle or out of time, admission is sealed.
Seal == adm' = IF adm = "Terminal" THEN adm ELSE "Sealed"

\* finish(): the first caller moves to Closed and spawns the cleanup task.
Finish ==
    IF phase = "Closed" THEN UNCHANGED conn
    ELSE /\ phase' = "Closed" /\ cleanup' = "clear"
         /\ UNCHANGED <<drain, dropList>>

\* emit_event: accepted, or overflow (the event still gets one try), or refused.
Emit(sent) ==
    \/ adm \in Accepts /\ sent /\ UNCHANGED events
    \/ adm \in Accepts /\ adm' = "Overflowed" /\ ovf' = TRUE /\ overload' = "start"
    \/ adm \notin Accepts /\ ~sent /\ UNCHANGED events

\* The ids of S get the terminal event of this kind.
Publish(S, kind) ==
    /\ outcome' = [i \in Ids |-> IF i \in S THEN kind ELSE outcome[i]]
    /\ delivered' = [i \in Ids |-> IF i \in S THEN delivered[i] + 1 ELSE delivered[i]]
    /\ UNCHANGED lost

\* Their terminal event is given up: events_dropped is incremented for them.
GiveUp(S, why) ==
    /\ lost' = [i \in Ids |-> IF i \in S THEN why ELSE lost[i]]
    /\ UNCHANGED <<outcome, delivered>>

-----------------------------------------------------------------------------
\* Callers of submit(): window permit, sequence id, queue slot, admission.

AcquirePermit(i) ==
    /\ sub[i] = "new" /\ permits > 0 /\ cleanup \in {"off", "clear"}
    /\ permits' = permits - 1 /\ sub' = [sub EXCEPT ![i] = "permit"]
    /\ UNCHANGED <<conn, st, att, queue, writer, reader, timer, events, closer, fates, wire>>

ReserveSlot(i) ==
    /\ sub[i] = "permit" /\ wpc # "done" /\ SlotFree
    /\ sub' = [sub EXCEPT ![i] = "slot"]
    /\ UNCHANGED <<conn, entries, queue, writer, reader, timer, events, closer, fates, wire>>

\* Err(Closed) at a select, or the caller drops the future while it waits.
Abandon(i) ==
    /\ sub[i] \in {"new", "permit"}
    /\ sub' = [sub EXCEPT ![i] = "refused"]
    /\ permits' = permits + (IF sub[i] = "permit" THEN 1 ELSE 0)
    /\ UNCHANGED <<conn, st, att, queue, writer, reader, timer, events, closer, fates, wire>>

\* Mutant of Admit: the phase is not looked at again under the locks.
AdmitUnchecked(i) ==
    /\ sub[i] = "slot"
    /\ sub' = [sub EXCEPT ![i] = "admitted"]
    /\ st' = [st EXCEPT ![i] = "Queued"] /\ att' = [att EXCEPT ![i] = 1]
    /\ queue' = Append(queue, [id |-> i, attempt |-> 1])
    /\ UNCHANGED <<conn, permits, writer, reader, timer, events, closer, fates, wire>>

\* Under the pending lock and the admission lock.
Admit(i) ==
    /\ sub[i] = "slot" /\ phase = "Open"
    /\ sub' = [sub EXCEPT ![i] = "admitted"]
    /\ st' = [st EXCEPT ![i] = "Queued"] /\ att' = [att EXCEPT ![i] = 1]
    /\ queue' = Append(queue, [id |-> i, attempt |-> 1])
    /\ UNCHANGED <<conn, permits, writer, reader, timer, events, closer, fates, wire>>

\* Not Open any more, or a manual id that retire() cannot record.
Refuse(i) ==
    /\ sub[i] = "slot"
    /\ \/ phase # "Open" /\ UNCHANGED conn
       \/ phase = "Open" /\ Finish
    /\ sub' = [sub EXCEPT ![i] = "refused"] /\ permits' = permits + 1
    /\ UNCHANGED <<st, att, queue, writer, reader, timer, events, closer, fates, wire>>

-----------------------------------------------------------------------------
\* The writer: pick frames, claim the batch, write it, complete it.

WriterPick ==
    /\ wpc = "pick" /\ CanSubmit /\ queue # <<>>
    /\ ~wmark /\ Cardinality(wbatch) < BatchMax
    /\ queue' = Tail(queue)
    /\ IF Head(queue) = Marker
       THEN wmark' = TRUE /\ UNCHANGED wbatch
       ELSE wbatch' = wbatch \cup {Head(queue)} /\ UNCHANGED wmark
    /\ UNCHANGED <<conn, sub, entries, wpc, reader, timer, events, closer, fates, wire>>

\* The marker in hand is acknowledged after the frames before it.
AckMarker ==
    /\ wmark' = FALSE
    /\ IF wmark
       THEN /\ marker' = IF drain /\ phase = "Closing" THEN "clean" ELSE "revoked"
            /\ drain' = FALSE
       ELSE UNCHANGED <<marker, drain>>
    /\ UNCHANGED <<phase, cleanup, dropList, gpc>>

Claimable(k) == CanSubmit /\ st[k.id] = "Queued" /\ att[k.id] = k.attempt

\* Mutant of WriterClaim: the marker is acknowledged before the frames that
\* were queued ahead of it are written.
ClaimAcksMarker ==
    LET claimed == {k \in wbatch : Claimable(k)}
        ids     == {k.id : k \in claimed}
    IN /\ wpc = "pick" /\ (wbatch # {} \/ wmark)
       /\ wbatch' = claimed
       /\ st' = [i \in Ids |-> IF i \in ids THEN "Writing" ELSE st[i]]
       /\ claims' = [i \in Ids |-> IF i \in ids THEN claims[i] + 1 ELSE claims[i]]
       /\ wpc' = (IF claimed = {} THEN "pick" ELSE "write") /\ AckMarker
       /\ UNCHANGED <<sub, att, permits, queue, reader, timer, events, fates, wrote, resps>>

\* claim_submit_attempts; an empty batch acknowledges the marker at once,
\* unless control frames travel in the same batch.
WriterClaim ==
    LET claimed == {k \in wbatch : Claimable(k)}
        ids     == {k.id : k \in claimed}
    IN /\ wpc = "pick" /\ (wbatch # {} \/ wmark)
       /\ wbatch' = claimed
       /\ st' = [i \in Ids |-> IF i \in ids THEN "Writing" ELSE st[i]]
       /\ claims' = [i \in Ids |-> IF i \in ids THEN claims[i] + 1 ELSE claims[i]]
       /\ \/ wpc' = "write" /\ UNCHANGED <<wmark, marker, drain, phase, cleanup, dropList, gpc>>
          \/ claimed = {} /\ AckMarker /\ UNCHANGED wpc
       /\ UNCHANGED <<sub, att, permits, queue, reader, timer, events, fates, wrote, resps>>

\* write_all succeeded: complete_submit_attempts, then the marker.
WriterComplete ==
    LET ids  == {k.id : k \in {b \in wbatch : att[b.id] = b.attempt}}
        gone == {i \in ids : st[i] = "Responded"}
    IN /\ wpc = "write"
       /\ st' = [i \in Ids |-> IF i \in gone THEN "absent"
                               ELSE IF i \in ids /\ st[i] = "Writing" THEN "Awaiting"
                               ELSE st[i]]
       /\ permits' = permits + Cardinality(gone)
       /\ wrote' = [i \in Ids |-> IF i \in {k.id : k \in wbatch} THEN wrote[i] + 1 ELSE wrote[i]]
       /\ wpc' = "pick" /\ wbatch' = {}
       /\ AckMarker
       /\ UNCHANGED <<sub, att, queue, reader, timer, events, fates, claims, resps>>

\* write error or timeout; or the connection closed under the writer.
WriterStop ==
    /\ wpc # "done"
    /\ \/ wpc = "write" /\ Finish
       \/ phase = "Closed" /\ UNCHANGED conn
    /\ wpc' = "done" /\ wbatch' = {} /\ wmark' = FALSE
    /\ UNCHANGED <<sub, entries, queue, reader, timer, events, closer, fates, wire>>

-----------------------------------------------------------------------------
\* The reader: decode responses, match them in one lock, emit their events.

\* The peer answers an attempt it has begun to receive, possibly again.
Decode(i) ==
    /\ rpc = "run" /\ phase # "Closed" /\ remit = {}
    /\ claims[i] > 0 /\ resps[i] < MaxResp
    /\ rbuf' = rbuf \cup {i} /\ resps' = [resps EXCEPT ![i] = @ + 1]
    /\ UNCHANGED <<conn, sub, entries, queue, writer, rpc, remit, timer, events, closer, fates, claims, wrote>>

\* Mutant of Match: a retransmission still queued survives the answer.
MatchKeepsQueued ==
    LET handled == {i \in rbuf : st[i] \in Live}
        gone    == {i \in handled : st[i] = "Awaiting"}
    IN /\ rpc = "run" /\ rbuf # {} /\ remit = {}
       /\ st' = [i \in Ids |-> IF i \in gone THEN "absent"
                               ELSE IF i \in handled /\ st[i] = "Writing" THEN "Responded" ELSE st[i]]
       /\ permits' = permits + Cardinality(gone)
       /\ rbuf' = {} /\ remit' = handled
       /\ UNCHANGED <<conn, sub, att, queue, writer, rpc, timer, events, closer, fates, wire>>

\* Mutant of Match: the permit of an entry whose write is under way returns
\* at once, and again when the writer completes.
MatchRefundsWriting ==
    LET handled == {i \in rbuf : st[i] \in Live}
        gone    == {i \in handled : st[i] # "Writing"}
    IN /\ rpc = "run" /\ rbuf # {} /\ remit = {}
       /\ st' = [i \in Ids |-> IF i \in gone THEN "absent"
                               ELSE IF i \in handled THEN "Responded" ELSE st[i]]
       /\ permits' = permits + Cardinality(handled)
       /\ rbuf' = {} /\ remit' = handled
       /\ UNCHANGED <<conn, sub, att, queue, writer, rpc, timer, events, closer, fates, wire>>

\* flush_submit_resps, under the pending lock.
Match ==
    LET handled == {i \in rbuf : st[i] \in Live}
        gone    == {i \in handled : st[i] # "Writing"}
    IN /\ rpc = "run" /\ rbuf # {} /\ remit = {}
       /\ st' = [i \in Ids |-> IF i \in gone THEN "absent"
                               ELSE IF i \in handled THEN "Responded" ELSE st[i]]
       /\ permits' = permits + Cardinality(gone)
       /\ rbuf' = {} /\ remit' = handled
       /\ UNCHANGED <<conn, sub, att, queue, writer, rpc, timer, events, closer, fates, wire>>

\* flush_submit_resps, after the lock: one event.
EmitResp(i) ==
    /\ i \in remit /\ remit' = remit \ {i}
    /\ \/ ovf /\ GiveUp({i}, "overflow") /\ UNCHANGED events
       \/ ~ovf /\ Emit(TRUE) /\ Publish({i}, "resp")
       \/ ~ovf /\ Emit(FALSE) /\ GiveUp({i}, IF ovf' THEN "overflow" ELSE "refused")
    /\ UNCHANGED <<conn, sub, entries, queue, writer, rpc, rbuf, timer, closer, wire>>

Flushed == rbuf = {} /\ remit = {}

PeerTerminate ==
    /\ rpc = "run" /\ phase # "Closed" /\ Flushed
    /\ rpc' = "term" /\ CloseWithoutDrain /\ BeginEventDrain
    /\ UNCHANGED <<sub, entries, queue, writer, rbuf, remit, timer, ovf, overload, closer, fates, wire>>

\* TERMINATE_RESP sent: finish, or read on when both sides wrote TERMINATE.
PeerTerminateAnswered ==
    /\ rpc = "term"
    /\ \/ rpc' = "done" /\ Finish
       \/ rpc' = "run" /\ gpc \in {"handshake", "sealed"} /\ UNCHANGED conn
    /\ UNCHANGED <<sub, entries, queue, writer, rbuf, remit, timer, events, closer, fates, wire>>

\* A DELIVER finds the spool full (reserve_deferred_event): it may still get
\* its ticket, or the reader returns.
DeliverOverflow ==
    /\ rpc = "run" /\ Flushed /\ adm \in Accepts
    /\ rpc' \in {"run", "done"} /\ Emit(FALSE)
    /\ UNCHANGED <<conn, sub, entries, queue, writer, rbuf, remit, timer, closer, fates, wire>>

\* EOF, read error, bad frame: finish.  Closed, an EOF after the peer acked
\* our TERMINATE, or a DELIVER the spool refuses: return without finish.
ReaderStop ==
    /\ rpc = "run" /\ Flushed /\ rpc' = "done"
    /\ \/ Finish
       \/ /\ phase = "Closed" \/ gpc \in {"handshake", "sealed"} \/ adm \notin Accepts
          /\ UNCHANGED conn
    /\ UNCHANGED <<sub, entries, queue, writer, rbuf, remit, timer, events, closer, fates, wire>>

-----------------------------------------------------------------------------
\* The timeout task: a tick, a snapshot of expired attempts, then one by one.

TimerTick ==
    /\ tpc = "wait" /\ tpc' = IF phase = "Open" THEN "scan" ELSE "done"
    /\ UNCHANGED <<conn, sub, entries, queue, writer, reader, tkeys, events, closer, fates, wire>>

AwaitingKeys == {[id |-> i, attempt |-> att[i]] : i \in {j \in Ids : st[j] = "Awaiting"}}

\* Any of the awaiting attempts may have expired.  A scan that finds none leads
\* back to the tick, so it is taken when nothing awaits.
TimerScan ==
    /\ tpc = "scan" /\ tpc' = "work"
    /\ \E K \in SUBSET AwaitingKeys :
          /\ Cardinality(K) <= RetryBatch /\ (K = {} => AwaitingKeys = {})
          /\ tkeys' = K
    /\ UNCHANGED <<conn, sub, entries, queue, writer, reader, events, closer, fates, wire>>

StillExpired(k) == st[k.id] = "Awaiting" /\ att[k.id] = k.attempt

Worked(k) == k \in tkeys /\ tkeys' = tkeys \ {k} /\ UNCHANGED tpc

\* The task returns and leaves the rest of its keys.
Stopped(k) == k \in tkeys /\ tkeys' = {} /\ tpc' = "done"

\* Mutant of TimeoutExhausted: the entry outlives its SubmitTimeout.
ExhaustedKeepsEntry(k) ==
    /\ Worked(k) /\ k.attempt >= RetryCount /\ StillExpired(k)
    /\ \/ Emit(TRUE) /\ Publish({k.id}, "timeout") /\ UNCHANGED <<conn, st, permits>>
       \/ Emit(FALSE) /\ UNCHANGED <<conn, st, permits, fates>>
    /\ UNCHANGED <<sub, att, queue, writer, reader, closer, wire>>

\* Attempts used up: emit and remove under the pending lock; a failed emit
\* keeps the entry.  When the table of retired ids is full, finish and return.
TimeoutExhausted(k) ==
    /\ k.attempt >= RetryCount /\ StillExpired(k)
    /\ \/ /\ Emit(TRUE) /\ Publish({k.id}, "timeout")
          /\ st' = [st EXCEPT ![k.id] = "absent"] /\ permits' = permits + 1
          /\ \/ Worked(k) /\ UNCHANGED conn
             \/ Stopped(k) /\ Finish
       \/ Worked(k) /\ Emit(FALSE) /\ UNCHANGED <<conn, st, permits, fates>>
    /\ UNCHANGED <<sub, att, queue, writer, reader, closer, wire>>

\* Mutant of TimeoutRetry: the new frame carries the old attempt number.
RetrySameAttempt(k) ==
    /\ Worked(k) /\ k.attempt < RetryCount /\ StillExpired(k) /\ phase = "Open" /\ SlotFree
    /\ st' = [st EXCEPT ![k.id] = "Queued"] /\ queue' = Append(queue, k)
    /\ UNCHANGED <<conn, sub, att, permits, writer, reader, events, closer, fates, wire>>

\* Back to the queue, unless it is full or the connection left Open.
TimeoutRetry(k) ==
    /\ Worked(k) /\ k.attempt < RetryCount /\ StillExpired(k) /\ phase = "Open" /\ SlotFree
    /\ st' = [st EXCEPT ![k.id] = "Queued"] /\ att' = [att EXCEPT ![k.id] = k.attempt + 1]
    /\ queue' = Append(queue, [id |-> k.id, attempt |-> k.attempt + 1])
    /\ UNCHANGED <<conn, sub, permits, writer, reader, events, closer, fates, wire>>

\* Answered or changed meanwhile; or no retry now: the next scan finds it again.
TimeoutSkip(k) ==
    /\ Worked(k)
    /\ \/ k.attempt >= RetryCount /\ ~StillExpired(k)
       \/ k.attempt < RetryCount /\ wpc # "done" /\ (~StillExpired(k) \/ phase # "Open" \/ ~SlotFree)
    /\ UNCHANGED <<conn, sub, entries, queue, writer, reader, events, closer, fates, wire>>

\* The submit channel is closed, the writer is gone.
TimeoutStop(k) ==
    /\ Stopped(k) /\ k.attempt < RetryCount /\ wpc = "done"
    /\ IF phase = "Open" THEN Finish ELSE UNCHANGED conn
    /\ UNCHANGED <<sub, entries, queue, writer, reader, events, closer, fates, wire>>

TimerRest ==
    /\ tpc = "work" /\ tkeys = {} /\ tpc' = "wait"
    /\ UNCHANGED <<conn, sub, entries, queue, writer, reader, tkeys, events, closer, fates, wire>>

-----------------------------------------------------------------------------
\* Overload: the spool overflowed, or the consumer stalled the dispatcher.
\* At most one of each starts the close, and the second finds it started.

Backpressure ==
    /\ ~ovf /\ ovf' = TRUE /\ overload' = "flagged"
    /\ UNCHANGED <<conn, sub, entries, queue, writer, reader, timer, adm, closer, fates, wire>>

BackpressureClose ==
    /\ overload = "flagged" /\ overload' = "start"
    /\ adm' = IF adm \in Accepts THEN "Overflowed" ELSE adm
    /\ UNCHANGED <<conn, sub, entries, queue, writer, reader, timer, ovf, closer, fates, wire>>

\* Mutant of OverloadStart: begins the close and leaves finish to nobody.
OverloadForgets ==
    /\ overload = "start" /\ CloseWithoutDrain /\ overload' = "done"
    /\ UNCHANGED <<sub, entries, queue, writer, reader, timer, adm, ovf, closer, fates, wire>>

OverloadStart ==
    /\ overload = "start" /\ CloseWithoutDrain
    /\ overload' = IF phase = "Open" THEN "drain" ELSE "done"
    /\ UNCHANGED <<sub, entries, queue, writer, reader, timer, adm, ovf, closer, fates, wire>>

OverloadSeal ==
    /\ overload = "drain" /\ Seal /\ overload' = "finish"
    /\ UNCHANGED <<conn, sub, entries, queue, writer, reader, timer, ovf, closer, fates, wire>>

OverloadFinish ==
    /\ overload = "finish" /\ Finish /\ overload' = "done"
    /\ UNCHANGED <<sub, entries, queue, writer, reader, timer, adm, ovf, closer, fates, wire>>

-----------------------------------------------------------------------------
\* close(): drain queued SUBMITs behind a marker, TERMINATE, seal, finish.

CloseCall ==
    /\ gpc = "idle"
    /\ IF phase = "Open"
       THEN phase' = "Closing" /\ drain' = TRUE /\ BeginEventDrain /\ gpc' = "marker"
       ELSE gpc' = "reap" /\ UNCHANGED <<phase, drain, adm>>
    /\ UNCHANGED <<cleanup, dropList, sub, entries, queue, writer, reader, timer, ovf, overload, marker, fates, wire>>

CloseSendMarker ==
    /\ gpc = "marker" /\ wpc # "done" /\ SlotFree
    /\ gpc' = "ack" /\ queue' = Append(queue, Marker)
    /\ UNCHANGED <<conn, sub, entries, writer, reader, timer, events, marker, fates, wire>>

\* The marker is acknowledged, or response_timeout or Closed ended the wait;
\* without a sequence id for TERMINATE the driver finishes at once.
CloseDrained ==
    /\ gpc \in {"marker", "ack"} /\ drain' = FALSE
    /\ \/ gpc' = "handshake" /\ UNCHANGED <<phase, cleanup>>
       \/ /\ gpc' = "done" /\ phase' = "Closed"
          /\ cleanup' = IF phase = "Closed" THEN cleanup ELSE "clear"
    /\ UNCHANGED <<dropList, sub, entries, queue, writer, reader, timer, events, marker, fates, wire>>

CloseSeal ==
    /\ gpc = "handshake" /\ gpc' = "sealed" /\ Seal
    /\ UNCHANGED <<conn, sub, entries, queue, writer, reader, timer, ovf, overload, marker, fates, wire>>

CloseFinish ==
    /\ gpc = "sealed" /\ gpc' = "done" /\ Finish
    /\ UNCHANGED <<sub, entries, queue, writer, reader, timer, events, marker, fates, wire>>

\* reap_background_tasks: another close is under way; finish if it lingers.
CloseReap ==
    /\ gpc = "reap" /\ gpc' = "done" /\ Finish
    /\ UNCHANGED <<sub, entries, queue, writer, reader, timer, events, marker, fates, wire>>

\* Heartbeats exhausted, last handle dropped, a worker gone.
OtherFinish ==
    /\ phase # "Closed" /\ Finish
    /\ UNCHANGED <<sub, entries, queue, writer, reader, timer, events, closer, fates, wire>>

-----------------------------------------------------------------------------
\* The cleanup task of finish().

CleanupClear ==
    /\ cleanup = "clear" /\ cleanup' = "fail" /\ drain' = FALSE
    /\ UNCHANGED <<phase, dropList, sub, entries, queue, writer, reader, timer, events, closer, fates, wire>>

\* Mutant of CleanupFail: also drops what the reader has taken over.
FailAnswered ==
    LET gone == {i \in Ids : st[i] # "absent"}
    IN /\ cleanup = "fail" /\ cleanup' = "send" /\ dropList' = gone
       /\ st' = [i \in Ids |-> "absent"]
       /\ permits' = permits + Cardinality(gone)
       /\ UNCHANGED <<phase, drain, sub, att, queue, writer, reader, timer, events, closer, fates, wire>>

\* fail_all_pending drains the map; the reader answers for responded entries.
CleanupFail ==
    LET gone == {i \in Ids : st[i] # "absent"}
    IN /\ cleanup = "fail" /\ cleanup' = "send"
       /\ dropList' = {i \in gone : st[i] # "Responded"}
       /\ st' = [i \in Ids |-> "absent"]
       /\ permits' = permits + Cardinality(gone)
       /\ UNCHANGED <<phase, drain, sub, att, queue, writer, reader, timer, events, closer, fates, wire>>

\* One batch enters the spool, or the retry budget runs out.
CleanupSend ==
    /\ cleanup = "send"
    /\ \E chunk \in SUBSET dropList :
          /\ chunk # {} /\ Cardinality(chunk) <= DropBatch
          /\ dropList' = dropList \ chunk
          /\ Publish(chunk, "dropped") \/ GiveUp(chunk, "budget")
    /\ UNCHANGED <<phase, drain, cleanup, sub, entries, queue, writer, reader, timer, events, closer, wire>>

CleanupClose ==
    /\ cleanup = "send" /\ dropList = {} /\ cleanup' = "done" /\ adm' = "Terminal"
    /\ UNCHANGED <<phase, drain, dropList, sub, entries, queue, writer, reader, timer, ovf, overload, closer, fates, wire>>

-----------------------------------------------------------------------------
Caller(i) == AcquirePermit(i) \/ ReserveSlot(i) \/ Abandon(i) \/ Admit(i) \/ Refuse(i)
Writer    == WriterPick \/ WriterClaim \/ WriterComplete \/ WriterStop
Reader    == Match \/ (\E i \in Ids : EmitResp(i)) \/ PeerTerminateAnswered
Peer      == (\E i \in Ids : Decode(i)) \/ PeerTerminate \/ DeliverOverflow \/ ReaderStop
Timeouts  == \/ TimerTick \/ TimerScan \/ TimerRest
             \/ \E k \in tkeys : \/ TimeoutExhausted(k) \/ TimeoutRetry(k)
                                \/ TimeoutSkip(k) \/ TimeoutStop(k)
Overload  == BackpressureClose \/ OverloadStart \/ OverloadSeal \/ OverloadFinish
Close     == CloseSendMarker \/ CloseDrained \/ CloseSeal \/ CloseFinish \/ CloseReap
Cleanup   == CleanupClear \/ CleanupFail \/ CleanupSend \/ CleanupClose

Next == \/ \E i \in Ids : Caller(i)
        \/ Writer \/ Reader \/ Peer \/ Timeouts
        \/ Backpressure \/ Overload \/ CloseCall \/ Close \/ OtherFinish \/ Cleanup

Safety == Init /\ [][Next]_vars

\* Tokio keeps polling a task that can go on, and every wait in these tasks
\* has a timer.  Callers, the peer, the consumer and close() owe nothing.
Fairness ==
    /\ WF_vars(WriterPick) /\ WF_vars(WriterClaim) /\ WF_vars(WriterComplete \/ WriterStop)
    /\ WF_vars(Reader) /\ WF_vars(Timeouts) /\ WF_vars(Overload) /\ WF_vars(Close)
    /\ WF_vars(Cleanup) /\ \A i \in Ids : WF_vars(Admit(i) \/ Refuse(i))

Spec == Safety /\ Fairness

-----------------------------------------------------------------------------
\* Properties.

Count(b) == IF b THEN 1 ELSE 0

\* Every admitted id is owed exactly one terminal: at any moment it is a live
\* entry, or in the hands of the reader or of the cleanup, or it got its one
\* terminal event, or events_dropped counted it; never two of these, never
\* none (Event::SubmitDropped, flush_submit_resps, fail_all_pending).
Accounted(i) ==
    Count(st[i] \in Live) + Count(i \in remit) + Count(i \in dropList)
        + delivered[i] + Count(lost[i] # "no") = Count(sub[i] = "admitted")
TerminalAccounted == \A i \in Ids : Accounted(i)

\* Every permit of the window is free, held by a caller between acquire_owned
\* and admission, or owned by one entry of pending_submits; it comes back once.
Holders == {i \in Ids : sub[i] \in {"permit", "slot"} \/ st[i] # "absent"}
WindowConserved == permits >= 0 /\ permits + Cardinality(Holders) = Window

\* SubmitTimeout reports attempts that were all completely written
\* (Event::SubmitTimeout::attempts), RetryCount of them.
TimeoutAfterAllWrites == \A i \in Ids : outcome[i] = "timeout" => wrote[i] = RetryCount

\* No attempt reaches the socket twice: as many writes started as there are
\* attempts that left the queue (claim_submit_attempts).
ClaimedOnce == \A i \in Ids : claims[i] <= att[i] /\ wrote[i] <= claims[i]

\* Attempts are what they are said to be: each is written once, and a timeout
\* is reported for the last one only.
AttemptsExact == TimeoutAfterAllWrites /\ ClaimedOnce

\* A response that was matched cancels the retransmission still queued: after
\* it the writer never starts that id again (test late_response_cancels...).
NoResendAfterAnswer ==
    [][\A i \in Ids : claims'[i] # claims[i] => i \notin remit /\ outcome[i] = "none" /\ lost[i] = "no"]_vars

\* The drain marker acknowledged while the drain is on means every SUBMIT
\* queued before it was written or answered (writer_task, pending_marker).
MarkerMeansWritten ==
    marker = "clean" => \A i \in Ids : st[i] \notin {"Queued", "Writing", "Responded"}

\* Once fail_all_pending drained the map nothing enters it again, whatever
\* caller, retry or writer was on its way (the phase checks under both locks).
DrainedForGood == cleanup \in {"send", "done"} => \A i \in Ids : st[i] = "absent"

\* A connection that left Open is cleaned up, whoever started the close.
CloseCompletes == phase # "Open" ~> cleanup = "done"

\* The documentation of Event::SubmitDropped allows a terminal to be lost for
\* backpressure and an exhausted teardown budget (or a dropped receiver) only.
LossOnlyAsDocumented == \A i \in Ids : lost[i] # "refused"

\* What the caller of submit() can observe is the abstract lifecycle.
fateOf == [i \in Ids |-> CASE sub[i] # "admitted" -> "none"
                          [] outcome[i] # "none" -> outcome[i]
                          [] lost[i] # "no"      -> "lost"
                          [] OTHER               -> "accepted"]
Outcome == INSTANCE SubmitOutcome WITH fate <- fateOf
ImplementsOutcome == Outcome!Spec
=============================================================================
