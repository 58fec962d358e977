-------------------------- MODULE WriterScheduling --------------------------
(***************************************************************************)
(* writer_task of one connection (src/connection.rs) as a scheduler: which *)
(* of its two queues it serves, how it puts a batch together, and the      *)
(* response budget of a DELIVER_RESP, which starts when the DELIVER was    *)
(* read and keeps running in the reader's hand, in the control queue and   *)
(* during the write.                                                       *)
(*                                                                         *)
(* A frame is its kind and the rest of its budget.  Time passes in ticks   *)
(* while the writer waits; putting a batch together takes none.  A timer   *)
(* that is due fires before the next tick.  Which SUBMITs of a batch are   *)
(* still wanted is decided in SubmitPipeline, here any may be left out.    *)
(***************************************************************************)
EXTENDS Integers, Sequences

CONSTANTS BurstLimit,  \* CONTROL_BURST_LIMIT
          MaxFrames,   \* write_batch_max_frames
          MaxBytes,    \* write_batch_max_bytes
          SubmitSize,  \* bytes of a SUBMIT; a control frame has one
          Budget,      \* response_timeout in ticks
          SubmitCap, ControlCap  \* capacities of the queues

ASSUME SchedulingAssumption ==
    /\ BurstLimit \in Nat \ {0} /\ MaxFrames \in Nat \ {0} /\ MaxBytes \in Nat \ {0}
    /\ SubmitSize \in Nat \ {0} /\ Budget \in Nat \ {0}
    /\ SubmitCap \in Nat \ {0} /\ ControlCap \in Nat \ {0}

Kinds == {"submit", "marker", "deliver", "plain", "openOnly", "void"}
Frame == [kind : Kinds, left : -1 .. Budget]
NoFrame == [kind |-> "none", left |-> 0]

VARIABLES
    phase, drain, reason,      \* ConnectionPhase, drain_submits_on_close, how it ended
    submitQ, controlQ,         \* the two queues
    held,                      \* the DELIVER_RESP the reader is about to queue
    burst,                     \* control_burst
    wpc, batch, bytes, minLeft, \* writer: step, batch, its bytes, batch_min_remaining
    marker,                    \* pending_marker
    wleft,                     \* what is left of the write's timeout
    last, passed, late         \* history: queue served last; control frames
                               \* taken while a SUBMIT could have been; some
                               \* DELIVER_RESP has run out of its budget

queues == <<submitQ, controlQ>>
ends   == <<phase, drain, reason>>
form   == <<batch, bytes, minLeft, marker>>
hist   == <<last, passed, late>>
vars   == <<ends, queues, held, burst, wpc, form, wleft, hist>>

TypeOK ==
    /\ phase \in {"Open", "Closing", "Closed"} /\ drain \in BOOLEAN
    /\ reason \in {"none", "Timeout", "Io"}
    /\ submitQ \in Seq(Frame) /\ Len(submitQ) <= SubmitCap
    /\ controlQ \in Seq(Frame) /\ Len(controlQ) <= ControlCap
    /\ held \in Frame \cup {NoFrame}
    /\ burst \in 0 .. BurstLimit /\ passed \in 0 .. BurstLimit + 1
    /\ wpc \in {"pick", "batch", "write", "done"}
    /\ batch \in Seq(Frame) /\ bytes \in Nat /\ minLeft \in 1 .. Budget /\ marker \in BOOLEAN
    /\ wleft \in 0 .. Budget /\ last \in {"none", "submit", "control"} /\ late \in BOOLEAN

Init ==
    /\ phase = "Open" /\ drain = FALSE /\ reason = "none"
    /\ submitQ = <<>> /\ controlQ = <<>> /\ held = NoFrame
    /\ burst = 0 /\ wpc = "pick" /\ batch = <<>> /\ bytes = 0 /\ minLeft = Budget
    /\ marker = FALSE /\ wleft = 0 /\ last = "none" /\ passed = 0 /\ late = FALSE

-----------------------------------------------------------------------------
\* The tasks that fill the queues.

New(k) == [kind |-> k, left |-> Budget]

\* A SUBMIT of submit() or of the timeout task, or the marker of close().
QueueSubmit(k) ==
    /\ phase # "Closed" /\ Len(submitQ) < SubmitCap
    /\ \/ k = "submit" /\ phase = "Open"
       \/ k = "marker" /\ phase = "Closing" /\ drain
    /\ submitQ' = Append(submitQ, New(k))
    /\ UNCHANGED <<ends, controlQ, held, burst, wpc, form, wleft, hist>>

\* A response without a budget, or a frame that is only sent while Open.
QueueControl(k) ==
    /\ phase # "Closed" /\ k \in {"plain", "openOnly"} /\ Len(controlQ) < ControlCap
    /\ controlQ' = Append(controlQ, New(k))
    /\ UNCHANGED <<ends, submitQ, held, burst, wpc, form, wleft, hist>>

\* The reader has read a DELIVER: the budget of its response starts.
DeliverRead ==
    /\ phase # "Closed" /\ held = NoFrame /\ held' = New("deliver")
    /\ UNCHANGED <<ends, queues, burst, wpc, form, wleft, hist>>

\* The response is queued with the rest of its budget.
DeliverQueue ==
    /\ phase # "Closed" /\ held # NoFrame /\ held.left > 0 /\ Len(controlQ) < ControlCap
    /\ controlQ' = Append(controlQ, held) /\ held' = NoFrame
    /\ UNCHANGED <<ends, submitQ, burst, wpc, form, wleft, hist>>

\* The queue had no room in time: the reader ends the connection.
DeliverTimeout ==
    /\ phase # "Closed" /\ held # NoFrame /\ held.left <= 0
    /\ phase' = "Closed" /\ drain' = FALSE /\ reason' = "Timeout"
    /\ UNCHANGED <<queues, held, burst, wpc, form, wleft, hist>>

-----------------------------------------------------------------------------
\* writer_task

CanSubmit == phase = "Open" \/ (phase = "Closing" /\ drain)

\* Mutant of ServeSubmit: control frames always go first.
ServeLeftover == CanSubmit /\ submitQ # <<>> /\ controlQ = <<>>

\* The SUBMIT queue is served when the burst is used up or nothing else waits.
ServeSubmit == CanSubmit /\ submitQ # <<>> /\ (burst >= BurstLimit \/ controlQ = <<>>)

ServeControl == controlQ # <<>> /\ ~ServeSubmit

\* finish(r), and the writer stops.
Fail(r) == phase' = "Closed" /\ drain' = FALSE /\ reason' = r /\ wpc' = "done"

Push(f) ==
    /\ batch' = Append(batch, f)
    /\ bytes' = bytes + (IF f.kind = "submit" THEN SubmitSize ELSE 1)

\* Mutant of TakeSubmit: the burst is not over.
TakeSubmitOnly ==
    /\ submitQ' = Tail(submitQ) /\ last' = "submit" /\ passed' = 0
    /\ IF Head(submitQ).kind = "marker"
       THEN marker' = TRUE /\ UNCHANGED <<batch, bytes>>
       ELSE Push(Head(submitQ)) /\ UNCHANGED marker
    /\ wpc' = "batch"
    /\ UNCHANGED <<ends, controlQ, burst, minLeft, late>>

\* A frame of the SUBMIT queue joins the batch; the marker ends the batch.
TakeSubmit ==
    /\ submitQ' = Tail(submitQ) /\ burst' = 0 /\ last' = "submit" /\ passed' = 0
    /\ IF Head(submitQ).kind = "marker"
       THEN marker' = TRUE /\ UNCHANGED <<batch, bytes>>
       ELSE Push(Head(submitQ)) /\ UNCHANGED marker
    /\ wpc' = "batch"
    /\ UNCHANGED <<ends, controlQ, minLeft, late>>

Least(m, n) == IF m < n THEN m ELSE n

\* Mutant of TakeControl: the rest of the last DELIVER_RESP bounds the write.
TakeControlLast ==
    LET f == Head(controlQ) IN
    /\ controlQ' = Tail(controlQ) /\ burst' = Least(burst + 1, BurstLimit) /\ last' = "control"
    /\ passed' = IF CanSubmit /\ submitQ # <<>> THEN Least(passed + 1, BurstLimit + 1) ELSE passed
    /\ \/ /\ f.kind = "openOnly" /\ phase # "Open"
          /\ wpc' = "batch" /\ UNCHANGED <<ends, batch, bytes, minLeft>>
       \/ /\ f.kind = "deliver" /\ f.left <= 0
          /\ Fail("Timeout") /\ UNCHANGED <<batch, bytes, minLeft>>
       \/ /\ ~(f.kind = "openOnly" /\ phase # "Open") /\ ~(f.kind = "deliver" /\ f.left <= 0)
          /\ Push(f) /\ wpc' = "batch"
          /\ minLeft' = IF f.kind = "deliver" THEN f.left ELSE minLeft
          /\ UNCHANGED ends
    /\ UNCHANGED <<submitQ, marker, late>>

\* A control frame joins the batch, is skipped (only sent while Open), or is
\* a DELIVER_RESP whose budget is used up, which ends the connection.
TakeControl ==
    LET f == Head(controlQ) IN
    /\ controlQ' = Tail(controlQ) /\ burst' = Least(burst + 1, BurstLimit) /\ last' = "control"
    /\ passed' = IF CanSubmit /\ submitQ # <<>> THEN Least(passed + 1, BurstLimit + 1) ELSE passed
    /\ \/ /\ f.kind = "openOnly" /\ phase # "Open"
          /\ wpc' = "batch" /\ UNCHANGED <<ends, batch, bytes, minLeft>>
       \/ /\ f.kind = "deliver" /\ f.left <= 0
          /\ Fail("Timeout") /\ UNCHANGED <<batch, bytes, minLeft>>
       \/ /\ ~(f.kind = "openOnly" /\ phase # "Open") /\ ~(f.kind = "deliver" /\ f.left <= 0)
          /\ Push(f) /\ wpc' = "batch"
          /\ minLeft' = IF f.kind = "deliver" THEN Least(minLeft, f.left) ELSE minLeft
          /\ UNCHANGED ends
    /\ UNCHANGED <<submitQ, marker, late>>

BatchFull == Len(batch) >= MaxFrames \/ bytes >= MaxBytes

\* The first frame of a batch is waited for, the others are there or not.
Harvesting == phase # "Closed" /\ (wpc = "pick" \/ (wpc = "batch" /\ ~BatchFull /\ ~marker))

WriterSubmit ==
    /\ Harvesting /\ ServeSubmit /\ TakeSubmit /\ UNCHANGED <<held, wleft>>
WriterControl ==
    /\ Harvesting /\ ServeControl /\ TakeControl /\ UNCHANGED <<held, wleft>>

\* The batch without the SUBMITs at S, which weigh nothing from now on.
Without(S) == [i \in DOMAIN batch |-> IF i \in S THEN New("void") ELSE batch[i]]

\* The batch is complete: claim_submit_attempts leaves out SUBMITs that are
\* not wanted any more.  Without a frame the marker alone is done.
WriterSend ==
    /\ wpc = "batch" /\ (BatchFull \/ marker \/ ~(ServeSubmit \/ ServeControl))
    /\ \E S \in SUBSET {i \in DOMAIN batch : batch[i].kind = "submit"} :
          IF S = DOMAIN batch
          THEN /\ wpc' = "pick" /\ batch' = <<>> /\ bytes' = 0 /\ minLeft' = Budget
               /\ marker' = FALSE /\ drain' = (drain /\ ~marker) /\ UNCHANGED wleft
          ELSE /\ wpc' = "write" /\ batch' = Without(S) /\ wleft' = minLeft
               /\ UNCHANGED <<bytes, minLeft, marker, drain>>
    /\ UNCHANGED <<phase, reason, queues, held, burst, hist>>

\* The batch was written; a marker behind it is done.
WriterDone ==
    /\ wpc = "write" /\ phase # "Closed"
    /\ wpc' = "pick" /\ batch' = <<>> /\ bytes' = 0 /\ minLeft' = Budget
    /\ marker' = FALSE /\ drain' = (drain /\ ~marker)
    /\ UNCHANGED <<phase, reason, queues, held, burst, wleft, hist>>

HasBudget == \E i \in DOMAIN batch : batch[i].kind = "deliver"

\* The write did not end in time.
WriterTimeout ==
    /\ wpc = "write" /\ phase # "Closed" /\ wleft = 0
    /\ Fail(IF HasBudget THEN "Timeout" ELSE "Io")
    /\ UNCHANGED <<queues, held, burst, form, wleft, hist>>

\* A socket error, or Closed is noticed.
WriterError ==
    /\ wpc = "write" /\ phase # "Closed" /\ Fail("Io")
    /\ UNCHANGED <<queues, held, burst, form, wleft, hist>>

WriterStop ==
    /\ wpc \in {"pick", "batch", "write"} /\ phase = "Closed" /\ wpc' = "done"
    /\ UNCHANGED <<ends, queues, held, burst, form, wleft, hist>>

-----------------------------------------------------------------------------
\* begin_closing, the end of the drain, and finish by another task.

PhaseChange ==
    /\ \/ phase = "Open" /\ phase' = "Closing" /\ drain' \in BOOLEAN
       \/ phase = "Closing" /\ drain /\ drain' = FALSE /\ UNCHANGED phase
       \/ phase # "Closed" /\ phase' = "Closed" /\ drain' = FALSE
    /\ UNCHANGED <<reason, queues, held, burst, wpc, form, wleft, hist>>

\* One tick: budgets run wherever the frame is, and so does the write's timer.
Aged(f) == IF f.kind = "deliver" /\ f.left >= 0 THEN [f EXCEPT !.left = @ - 1] ELSE f
Due(f) == f.kind = "deliver" /\ f.left <= 1
Tick ==
    /\ phase # "Closed" /\ wpc \in {"pick", "write"}
    /\ ~(wpc = "write" /\ wleft = 0) /\ ~(held # NoFrame /\ held.left = 0)
    /\ held' = Aged(held)
    /\ controlQ' = [i \in DOMAIN controlQ |-> Aged(controlQ[i])]
    /\ batch' = [i \in DOMAIN batch |-> Aged(batch[i])]
    /\ wleft' = IF wpc = "write" THEN wleft - 1 ELSE wleft
    /\ late' = (late \/ Due(held) \/ (\E i \in DOMAIN controlQ : Due(controlQ[i]))
                     \/ (\E i \in DOMAIN batch : Due(batch[i])))
    /\ UNCHANGED <<ends, submitQ, burst, wpc, bytes, minLeft, marker, last, passed>>

WriterStep ==
    \/ WriterSubmit \/ WriterControl \/ WriterSend \/ WriterDone
    \/ WriterTimeout \/ WriterError \/ WriterStop

Next ==
    \/ \E k \in {"submit", "marker"} : QueueSubmit(k)
    \/ \E k \in {"plain", "openOnly"} : QueueControl(k)
    \/ DeliverRead \/ DeliverQueue \/ DeliverTimeout
    \/ WriterStep \/ PhaseChange \/ Tick

Spec == Init /\ [][Next]_vars

\* The writer is polled, and the socket takes the bytes, fails, or the timer
\* ends the write.  Nothing is assumed of those who fill the queues.
FairSpec == Spec /\ WF_vars(WriterStep)

-----------------------------------------------------------------------------
\* However many control frames arrive, a SUBMIT that may be sent is passed by
\* at most CONTROL_BURST_LIMIT of them, across batches (connection.rs:2543,
\* 2606).
SubmitNotPassed == passed <= BurstLimit

\* A DELIVER_RESP is never on its way to the socket after its budget, however
\* long it waited and whatever shares its batch (connection.rs:2670-2685, 2709).
BudgetKept == wpc = "write" => \A i \in DOMAIN batch : batch[i].kind = "deliver" => batch[i].left >= 0

\* The writer, and the reader for a DELIVER_RESP it cannot queue, end the
\* connection with Timeout only if some DELIVER_RESP ran out of its budget; a
\* slow write of other frames is an I/O error (connection.rs:2723).  The end
\* with Timeout of an idle read (2985) is a PhaseChange here, which leaves this
\* reason alone; an exhausted heartbeat ends with Closed (3247).
TimeoutMeansLate == reason = "Timeout" => late

\* A batch has at most write_batch_max_frames frames, and only its last frame
\* may pass write_batch_max_bytes (connection.rs:2597).
BatchBounded == Len(batch) <= MaxFrames /\ bytes < MaxBytes + SubmitSize

\* What a batch may hold and whom it may pass, after any mix of frames.
BatchFair == TypeOK /\ SubmitNotPassed /\ BatchBounded

\* The budget of a DELIVER_RESP is kept, and blamed by reader and writer only
\* when it ran out.
BudgetHonest == BudgetKept /\ TimeoutMeansLate

\* SUBMITs are not starved by a never ending stream of control frames.
SubmitServed == submitQ # <<>> /\ CanSubmit ~> last = "submit" \/ ~CanSubmit

\* Control frames are not starved by a never ending stream of SUBMITs.
ControlServed == controlQ # <<>> ~> last = "control" \/ phase = "Closed"

\* Neither queue is starved by a never ending stream of frames in the other.
NoStarvation == SubmitServed /\ ControlServed
=============================================================================
