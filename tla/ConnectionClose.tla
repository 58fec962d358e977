-------------------------- MODULE ConnectionClose --------------------------
(***************************************************************************)
(* How one connection ends (src/connection.rs): close() and its driver,    *)
(* the TERMINATE handshake through writer and reader, which may cross one  *)
(* the peer began, finish() and its cleanup task, the reaping of the       *)
(* aborted, and the takeover by a caller whose driver does not report.     *)
(*                                                                         *)
(* A task lives on the runtime of whoever spawned it and is dropped, at an *)
(* await, with that runtime: close() is called from several runtimes and   *)
(* handles the loss of one.  Ids are the SUBMITs without an outcome when   *)
(* the connection ends; whether an event of theirs is accepted is the      *)
(* subject of EventDelivery, here an id is told once it was either         *)
(* accepted or counted.  Timers are choices.                               *)
(***************************************************************************)
EXTENDS Integers, FiniteSets, SequencesExt

CONSTANTS Callers,          \* calls of close()
          Runtimes, Main,   \* Main is the runtime connect() was called on
          HomeOf,           \* runtime of a caller
          Mortal,           \* runtimes that may be shut down
          Driver, Cleanup,  \* the tasks of the first close() and of finish()
          Ids,              \* SUBMITs pending when the connection ends
          MaxTerm,          \* bound: TERMINATEs of the peer
          Outside           \* bound: what else may happen in an instance

ASSUME CloseAssumption ==
    /\ IsFiniteSet(Callers) /\ Main \in Runtimes /\ HomeOf \in [Callers -> Runtimes]
    /\ Mortal \subseteq Runtimes /\ Driver # Cleanup /\ {Driver, Cleanup} \cap Callers = {}
    /\ IsFiniteSet(Ids) /\ MaxTerm \in Nat
    /\ Outside \subseteq {"answer", "io", "eof", "noseq", "overload", "drop"}

Tasks   == Callers \cup {Driver, Cleanup}  \* a caller names its takeover task
Frame   == {"TERM", "RESP"}                \* local TERMINATE, TERMINATE_RESP
Ended   == {"none", "done", "lost"}

VARIABLES
    phase, reason,          \* ConnectionPhase, terminal_reason
    alive,                  \* runtimes not shut down
    cpc,                    \* callers of close()
    started, takeover,      \* close_driver_started, takeover_started
    tpc, home,              \* tasks: step, runtime
    pending, hand, silent,  \* pending_submits; ids a task took; history: ids a
                            \* cancelled fallback had taken
    cleaned, complete,      \* cleanup_complete_tx, close_complete_tx
    term,                   \* pending_terminate: none, set, or set and written
    ctl, respSig, termSig,  \* control queue; the written_tx of either frame
    wpc, batch, respWritten, \* writer; peer_terminate_response_written
    rpc, seen, acked,       \* reader; peer_terminate_seen, local_terminate_acked
    aborted,                \* the workers' handles were aborted
    overload,               \* start_event_overload_close
    inbox, eof, terms, answered, \* peer: frames under way, end of stream
    wire,                   \* history: frames the writer wrote
    causes, gaveUp          \* history: faults and haste; a cancelled fallback

callers == <<cpc, started, takeover>>
steps   == <<tpc, home>>
ids     == <<pending, hand, silent>>
outcome == <<cleaned, complete, gaveUp>>
ends    == <<phase, reason>>
writer  == <<ctl, respSig, termSig, wpc, batch, respWritten, wire>>
reader  == <<rpc, seen, acked>>
peer    == <<inbox, eof, terms, answered>>
vars    == <<ends, alive, callers, steps, ids, outcome, term, writer, reader, aborted, overload, peer, causes>>

TaskSteps  == {"none", "drain", "send", "written", "answer", "finish", "unpend",
               "closed", "cleanup", "fail", "publish", "end", "done", "lost"}

TypeOK ==
    /\ phase \in {"Open", "Closing", "Closed"}
    /\ reason \in {"unset", "None", "Terminated", "ChannelClosed", "Error"}
    /\ alive \subseteq Runtimes
    /\ cpc \in [Callers -> {"idle", "wait", "take", "retry", "done", "gone"}]
    /\ started \in BOOLEAN /\ takeover \in BOOLEAN
    /\ tpc \in [Tasks -> TaskSteps] /\ home \in [Tasks -> Runtimes]
    /\ hand \in [Tasks -> SUBSET Ids] /\ pending \subseteq Ids /\ silent \subseteq Ids
    /\ cleaned \in BOOLEAN /\ complete \in BOOLEAN /\ gaveUp \in BOOLEAN
    /\ term \in {"none", "set", "written"}
    /\ ctl \in Seq(Frame) /\ Len(ctl) <= MaxTerm + 1 /\ batch \in Seq(Frame) /\ wire \in Seq(Frame)
    /\ respSig \in {"none", "sent", "dropped"} /\ termSig \in {"none", "sent", "dropped"}
    /\ wpc \in {"pick", "write", "complete", "done"} /\ respWritten \in BOOLEAN
    /\ rpc \in {"read", "queue", "answer", "done"} /\ seen \in BOOLEAN /\ acked \in BOOLEAN
    /\ aborted \in BOOLEAN /\ overload \in BOOLEAN
    /\ inbox \in Seq(Frame) /\ eof \in {"open", "clean", "cut"}
    /\ terms \in 0 .. MaxTerm /\ answered \in BOOLEAN /\ causes \subseteq {"fault", "overload", "haste", "drop"}

Init ==
    /\ phase = "Open" /\ reason = "unset" /\ alive = Runtimes
    /\ cpc = [c \in Callers |-> "idle"] /\ started = FALSE /\ takeover = FALSE
    /\ tpc = [t \in Tasks |-> "none"] /\ home = [t \in Tasks |-> Main]
    /\ hand = [t \in Tasks |-> {}] /\ pending = Ids /\ silent = {}
    /\ cleaned = FALSE /\ complete = FALSE /\ gaveUp = FALSE
    /\ term = "none" /\ ctl = <<>> /\ respSig = "none" /\ termSig = "none"
    /\ wpc = "pick" /\ batch = <<>> /\ respWritten = FALSE /\ wire = <<>>
    /\ rpc = "read" /\ seen = FALSE /\ acked = FALSE
    /\ aborted = FALSE /\ overload = FALSE
    /\ inbox = <<>> /\ eof = "open" /\ terms = 0 /\ answered = FALSE /\ causes = {}

-----------------------------------------------------------------------------
Blame(w) == causes' = causes \cup {w}
Go(t, step) == tpc' = [tpc EXCEPT ![t] = step]

\* The reason finish() settles on.
Reason(r) == IF seen THEN "Terminated" ELSE IF "overload" \in causes THEN "ChannelClosed" ELSE r

\* finish(r) called on runtime rt, which also moves task t to step (t may be
\* Cleanup, then nothing else moves).  Only the first call has an effect.
FinishAs(r, rt, t, step) ==
    IF phase = "Closed"
    THEN tpc' = [tpc EXCEPT ![t] = IF t = Cleanup THEN @ ELSE step] /\ UNCHANGED <<ends, home>>
    ELSE /\ phase' = "Closed" /\ reason' = Reason(r)
         /\ tpc' = [tpc EXCEPT ![t] = step, ![Cleanup] = IF rt \in alive THEN "fail" ELSE "lost"]
         /\ home' = [home EXCEPT ![Cleanup] = rt]

\* finish(r) called by a worker.
Finish(r) == FinishAs(r, Main, Cleanup, "none")

\* begin_closing
BeginClosing == phase' = IF phase = "Open" THEN "Closing" ELSE phase

-----------------------------------------------------------------------------
\* close(), the caller's side.

\* The first caller starts a driver on its runtime, or, when the connection
\* is closing already, a task that only reaps.
Close(c) ==
    /\ cpc[c] = "idle" /\ HomeOf[c] \in alive /\ "drop" \notin causes
    /\ cpc' = [cpc EXCEPT ![c] = "wait"]
    /\ IF started THEN UNCHANGED <<started, phase, tpc, home>>
       ELSE /\ started' = TRUE /\ BeginClosing
            /\ Go(Driver, IF phase = "Open" THEN "drain" ELSE "closed")
            /\ home' = [home EXCEPT ![Driver] = HomeOf[c]]
    /\ UNCHANGED <<reason, alive, takeover, ids, outcome, term,
                   writer, reader, aborted, overload, peer, causes>>

\* close_complete ends either wait; without it a timer does.
CallerWait(c) ==
    /\ cpc[c] \in {"wait", "retry"}
    /\ \/ complete /\ cpc' = [cpc EXCEPT ![c] = "done"] /\ UNCHANGED causes
       \/ ~complete /\ cpc' = [cpc EXCEPT ![c] = "take"] /\ Blame("haste")
    /\ UNCHANGED <<ends, alive, started, takeover, steps, ids, outcome, term, writer, reader, aborted,
                   overload, peer>>

\* Mutant of CallerTakeover: takeover_started is set without looking at it.
TakeoverUnchecked(c) ==
    /\ cpc[c] = "take"
    /\ IF complete THEN cpc' = [cpc EXCEPT ![c] = "done"] /\ UNCHANGED <<takeover, tpc, home>>
       ELSE /\ cpc' = [cpc EXCEPT ![c] = "retry"] /\ takeover' = TRUE
            /\ IF tpc[c] \in Ended
               THEN Go(c, "finish") /\ home' = [home EXCEPT ![c] = HomeOf[c]]
               ELSE UNCHANGED <<tpc, home>>
    /\ UNCHANGED <<ends, alive, started, ids, outcome, term, writer,
                   reader, aborted, overload, peer, causes>>

\* One turn of the takeover loop.
CallerTakeover(c) ==
    /\ cpc[c] = "take"
    /\ IF complete THEN cpc' = [cpc EXCEPT ![c] = "done"] /\ UNCHANGED <<takeover, tpc, home>>
       ELSE /\ cpc' = [cpc EXCEPT ![c] = "retry"] /\ takeover' = TRUE
            /\ IF ~takeover
               THEN Go(c, "finish") /\ home' = [home EXCEPT ![c] = HomeOf[c]]
               ELSE UNCHANGED <<tpc, home>>
    /\ UNCHANGED <<ends, alive, started, ids, outcome, term, writer,
                   reader, aborted, overload, peer, causes>>

\* The last handle is dropped, possibly outside any runtime.
DropLast ==
    /\ \A c \in Callers : cpc[c] \in {"idle", "done", "gone"}
    /\ "drop" \in Outside \ causes /\ Blame("drop")
    /\ \E rt \in alive \cup {Main} : FinishAs("None", rt, Cleanup, "none")
    /\ UNCHANGED <<alive, callers, ids, outcome, term, writer, reader,
                   aborted, overload, peer>>

-----------------------------------------------------------------------------
\* graceful_close_task

\* The drain marker was written, refused, or did not make it in time
\* (SubmitPipeline); then a sequence id for TERMINATE, or none is left.
DriverPend ==
    /\ tpc[Driver] = "drain"
    /\ \/ term' = "set" /\ Go(Driver, "send") /\ UNCHANGED <<ends, home, causes>>
       \/ "noseq" \in Outside /\ FinishAs("ChannelClosed", home[Driver], Driver, "closed")
          /\ Blame("fault") /\ UNCHANGED term
    /\ UNCHANGED <<alive, callers, ids, outcome, writer, reader,
                   aborted, overload, peer>>

DriverSend ==
    /\ tpc[Driver] = "send"
    /\ IF phase # "Closed" /\ wpc # "done"
       THEN ctl' = Append(ctl, "TERM") /\ termSig' = "none" /\ Go(Driver, "written")
       ELSE Go(Driver, "finish") /\ UNCHANGED <<ctl, termSig>>
    /\ UNCHANGED <<ends, alive, callers, home, ids, outcome, term,
                   respSig, wpc, batch, respWritten, wire, reader, aborted, overload, peer, causes>>

\* The write, then the response, Closed, or a frame that was dropped.
DriverAwait ==
    /\ \/ tpc[Driver] = "written" /\ termSig = "sent" /\ Go(Driver, "answer")
       \/ tpc[Driver] = "written" /\ termSig = "dropped" /\ Go(Driver, "finish")
       \/ tpc[Driver] = "answer" /\ (acked \/ phase = "Closed") /\ Go(Driver, "finish")
    /\ UNCHANGED <<ends, alive, callers, home, ids, outcome, term,
                   writer, reader, aborted, overload, peer, causes>>

DriverTimeout ==
    /\ tpc[Driver] \in {"send", "written", "answer"} /\ Go(Driver, "finish") /\ Blame("haste")
    /\ UNCHANGED <<ends, alive, callers, home, ids, outcome, term,
                   writer, reader, aborted, overload, peer>>

\* Event tickets have drained (EventDelivery), then finish: driver and takeover.
TaskFinish(t) ==
    /\ tpc[t] = "finish"
    /\ FinishAs("None", home[t], t, IF t = Driver THEN "unpend" ELSE "closed")
    /\ UNCHANGED <<alive, callers, ids, outcome, term, writer, reader,
                   aborted, overload, peer, causes>>

DriverUnpend ==
    /\ tpc[Driver] = "unpend" /\ term' = "none" /\ Go(Driver, "closed")
    /\ UNCHANGED <<ends, alive, callers, home, ids, outcome, writer,
                   reader, aborted, overload, peer, causes>>

-----------------------------------------------------------------------------
\* reap_background_tasks and the cleanup of finish(), which share their end.

\* Closed, or forced after a timeout; then the worker handles are aborted,
\* and their end awaited until a timer ends the wait: a delay without effect.
ReapClosed(t) ==
    /\ tpc[t] = "closed" /\ aborted' = TRUE
    /\ FinishAs("None", home[t], t, "cleanup")
    /\ IF phase = "Closed" THEN UNCHANGED causes ELSE Blame("haste")
    /\ UNCHANGED <<alive, callers, ids, outcome, term, writer, reader,
                   overload, peer>>

\* The cleanup of finish() is complete, or the fallback does it again: the
\* cleanup was lost or waits (a task ready to run starts before a timer ends).
ReapCleanup(t) ==
    /\ tpc[t] = "cleanup"
    /\ \/ cleaned /\ Go(t, "end")
       \/ ~cleaned /\ tpc[Cleanup] # "fail" /\ Go(t, "fail")
    /\ UNCHANGED <<ends, alive, callers, home, ids, outcome, term,
                   writer, reader, aborted, overload, peer, causes>>

\* fail_all_pending: the map is emptied at once, its ids are told in batches.
FailDrain(t) ==
    /\ tpc[t] = "fail" /\ Go(t, "publish")
    /\ hand' = [hand EXCEPT ![t] = pending] /\ pending' = {}
    /\ UNCHANGED <<ends, alive, callers, home, silent, outcome, term, writer, reader, aborted,
                   overload, peer, causes>>

FailPublish(t) ==
    /\ tpc[t] = "publish" /\ \E i \in hand[t] : hand' = [hand EXCEPT ![t] = @ \ {i}]
    /\ UNCHANGED <<ends, alive, callers, steps, pending, silent, outcome, term,
                   writer, reader, aborted, overload, peer, causes>>

\* The rest of the cleanup: pending_terminate is taken, Terminal is sent.
Cleaned(t) ==
    /\ tpc[t] = "publish" /\ hand[t] = {} /\ term' = "none" /\ cleaned' = TRUE
    /\ Go(t, IF t = Cleanup THEN "done" ELSE "end")
    /\ UNCHANGED <<ends, alive, callers, home, ids, complete, gaveUp, writer, reader,
                   aborted, overload, peer, causes>>

\* The fallback's timeout cancels it where it waits, for room in the spool.
FallbackTimeout(t) ==
    /\ t # Cleanup /\ tpc[t] = "publish" /\ hand[t] # {} /\ Go(t, "end")
    /\ hand' = [hand EXCEPT ![t] = {}] /\ silent' = silent \cup hand[t] /\ gaveUp' = TRUE
    /\ UNCHANGED <<ends, alive, callers, home, pending, cleaned, complete, term, writer, reader,
                   aborted, overload, peer, causes>>

\* close_complete; dropping its guard ends a takeover.
ReapEnd(t) ==
    /\ tpc[t] = "end" /\ Go(t, "done") /\ complete' = TRUE
    /\ takeover' = (takeover /\ t = Driver)
    /\ UNCHANGED <<ends, alive, cpc, started, home, ids, cleaned, gaveUp, term, writer,
                   reader, aborted, overload, peer, causes>>

-----------------------------------------------------------------------------
\* writer_task, the two frames of the handshake.

\* Mutant of Kept: the local TERMINATE is written all the same.
KeptAll(s) == s

\* The harvested frames that are written: a local TERMINATE is cancelled once
\* the response to the peer's was written, which leaves responses only.
Kept(s) == IF respWritten
           THEN [i \in 1 .. Cardinality({j \in DOMAIN s : s[j] = "RESP"}) |-> "RESP"]
           ELSE s
Dropped(f, q, sig) == IF f \in ToSet(q) THEN "dropped" ELSE sig

\* The writer is gone, and with it the written_tx of every frame it had.
WriterGone ==
    /\ wpc' = "done" /\ ctl' = <<>> /\ batch' = <<>>
    /\ respSig' = Dropped("RESP", ctl \o batch, respSig)
    /\ termSig' = Dropped("TERM", ctl \o batch, termSig)

\* A batch is what the queue held when it was harvested.
WriterPick ==
    /\ wpc = "pick" /\ phase # "Closed"
    /\ \E k \in 1 .. Len(ctl) :
          LET taken == SubSeq(ctl, 1, k)
              kept  == Kept(taken)
          IN  /\ ctl' = SubSeq(ctl, k + 1, Len(ctl)) /\ batch' = kept
              /\ wpc' = IF kept = <<>> THEN "pick" ELSE "write"
              /\ termSig' = IF kept # taken THEN "dropped" ELSE termSig
    /\ UNCHANGED <<ends, alive, callers, steps, ids, outcome, term, respSig, respWritten, wire,
                   reader, aborted, overload, peer, causes>>

WriterWrite ==
    /\ wpc = "write" /\ wpc' = "complete" /\ wire' = wire \o batch
    /\ UNCHANGED <<ends, alive, callers, steps, ids, outcome, term, ctl, respSig, termSig, batch,
                   respWritten, reader, aborted, overload, peer, causes>>

\* The frames of a written batch are completed one by one.
WriterComplete ==
    /\ wpc = "complete" /\ batch' = Tail(batch)
    /\ wpc' = IF Len(batch) = 1 THEN "pick" ELSE "complete"
    /\ IF Head(batch) = "RESP"
       THEN respWritten' = TRUE /\ respSig' = "sent" /\ UNCHANGED <<term, termSig>>
       ELSE termSig' = "sent" /\ term' = (IF term = "set" THEN "written" ELSE term)
            /\ UNCHANGED <<respWritten, respSig>>
    /\ UNCHANGED <<ends, alive, callers, steps, ids, outcome, ctl, wire, reader, aborted,
                   overload, peer, causes>>

\* A write fails or times out.
WriterFail ==
    /\ wpc = "write" /\ phase # "Closed" /\ "io" \in Outside /\ WriterGone /\ Finish("Error") /\ Blame("fault")
    /\ UNCHANGED <<alive, callers, ids, outcome, term, respWritten, wire, reader, aborted,
                   overload, peer>>

\* Closed is noticed between batches and during a write (an abort comes later).
WriterStop ==
    /\ wpc \in {"pick", "write"} /\ phase = "Closed"
    /\ WriterGone
    /\ UNCHANGED <<ends, alive, callers, steps, ids, outcome, term, respWritten, wire, reader,
                   aborted, overload, peer, causes>>

-----------------------------------------------------------------------------
\* reader_task, the frames of the handshake.

\* The peer's TERMINATE.
ReadTerminate ==
    /\ rpc = "read" /\ phase # "Closed" /\ inbox # <<>> /\ Head(inbox) = "TERM"
    /\ inbox' = Tail(inbox) /\ seen' = TRUE /\ BeginClosing /\ rpc' = "queue"
    /\ UNCHANGED <<reason, alive, callers, steps, ids, outcome, term, writer, acked, aborted,
                   overload, eof, terms, answered, causes>>

\* Mutant of ReaderQueue: the write of the response is not awaited.
QueueUnawaited ==
    /\ rpc = "queue" /\ phase # "Closed" /\ wpc # "done" /\ rpc' = "done"
    /\ ctl' = Append(ctl, "RESP") /\ respSig' = "none" /\ Finish("Terminated")
    /\ UNCHANGED <<alive, callers, ids, outcome, term, termSig, wpc, batch,
                   respWritten, wire, seen, acked, aborted, overload, peer, causes>>

ReaderQueue ==
    /\ rpc = "queue" /\ phase # "Closed" /\ wpc # "done" /\ rpc' = "answer"
    /\ ctl' = Append(ctl, "RESP") /\ respSig' = "none"
    /\ UNCHANGED <<ends, alive, callers, steps, ids, outcome, term, termSig, wpc, batch,
                   respWritten, wire, seen, acked, aborted, overload, peer, causes>>

\* Mutant of ReaderContinue: whether a local TERMINATE is out is not looked at.
ContinueAlways ==
    /\ rpc = "answer" /\ respSig = "sent" /\ rpc' = "read"
    /\ UNCHANGED <<ends, alive, callers, steps, ids, outcome, term, writer, seen, acked, aborted,
                   overload, peer, causes>>

\* The response is written and the local TERMINATE too: its answer is awaited.
ReaderContinue ==
    /\ rpc = "answer" /\ respSig = "sent" /\ term = "written" /\ rpc' = "read"
    /\ UNCHANGED <<ends, alive, callers, steps, ids, outcome, term, writer, seen, acked, aborted,
                   overload, peer, causes>>

\* Otherwise the reader ends the connection: no local TERMINATE on the wire,
\* no response written, or not in time.
ReaderTerminated ==
    /\ \/ rpc = "queue" /\ (phase = "Closed" \/ wpc = "done") /\ UNCHANGED causes
       \/ rpc = "answer" /\ respSig = "sent" /\ term # "written" /\ UNCHANGED causes
       \/ rpc = "answer" /\ respSig = "dropped" /\ UNCHANGED causes
       \/ rpc \in {"queue", "answer"} /\ Blame("haste")
    /\ rpc' = "done" /\ Finish("Terminated")
    /\ UNCHANGED <<alive, callers, ids, outcome, term, writer, seen, acked, aborted, overload,
                   peer>>

\* TERMINATE_RESP: pending_terminate is taken and the driver told.
ReadTerminateResp ==
    /\ rpc = "read" /\ phase # "Closed" /\ inbox # <<>> /\ Head(inbox) = "RESP"
    /\ inbox' = Tail(inbox) /\ acked' = (acked \/ term # "none") /\ term' = "none"
    /\ UNCHANGED <<ends, alive, callers, steps, ids, outcome, writer, rpc, seen, aborted,
                   overload, eof, terms, answered, causes>>

\* Mutant of ReadEof: every end of the stream is a disconnection.
EofDisconnects ==
    /\ rpc = "read" /\ phase # "Closed" /\ inbox = <<>> /\ eof # "open" /\ rpc' = "done"
    /\ Finish("Error")
    /\ UNCHANGED <<alive, callers, ids, outcome, term, writer, seen, acked, aborted, overload,
                   peer, causes>>

\* End of the stream: after the answer to TERMINATE the driver finishes; a
\* truncated frame or an early end is an error.
ReadEof ==
    /\ rpc = "read" /\ phase # "Closed" /\ inbox = <<>> /\ eof # "open" /\ rpc' = "done"
    /\ IF acked /\ eof = "clean" THEN UNCHANGED <<ends, steps>> ELSE Finish("Error")
    /\ UNCHANGED <<alive, callers, ids, outcome, term, writer, seen, acked, aborted, overload,
                   peer, causes>>

\* A read error, a frame that does not decode, or an idle timeout.
ReaderFail ==
    /\ rpc = "read" /\ phase # "Closed" /\ "io" \in Outside
    /\ rpc' = "done" /\ Finish("Error") /\ Blame("fault")
    /\ UNCHANGED <<alive, callers, ids, outcome, term, writer, seen, acked, aborted, overload,
                   peer>>

ReaderStop ==
    /\ \/ rpc = "read" /\ phase = "Closed"
       \/ rpc # "done" /\ aborted
    /\ rpc' = "done"
    /\ UNCHANGED <<ends, alive, callers, steps, ids, outcome, term, writer, seen, acked, aborted,
                   overload, peer, causes>>

-----------------------------------------------------------------------------
\* The event backlog overflows: a close without a handshake.

OverloadStart ==
    /\ "overload" \in Outside \ causes /\ phase # "Closed" /\ Main \in alive /\ Blame("overload")
    /\ BeginClosing /\ overload' = (phase = "Open")
    /\ UNCHANGED <<reason, alive, callers, steps, ids, outcome, term, writer, reader, aborted, peer>>

OverloadFinish ==
    /\ overload /\ overload' = FALSE /\ Finish("ChannelClosed")
    /\ UNCHANGED <<alive, callers, ids, outcome, term, writer, reader, aborted, peer, causes>>

-----------------------------------------------------------------------------
\* The peer: it may begin a TERMINATE of its own, and answers one, or not.

PeerTerminate ==
    /\ eof = "open" /\ ~answered /\ terms < MaxTerm /\ terms' = terms + 1
    /\ inbox' = Append(inbox, "TERM")
    /\ UNCHANGED <<ends, alive, callers, steps, ids, outcome, term, writer, reader, aborted,
                   overload, eof, answered, causes>>

PeerAnswer ==
    /\ eof = "open" /\ ~answered /\ "answer" \in Outside
    /\ "TERM" \in ToSet(wire) /\ answered' = TRUE
    /\ inbox' = Append(inbox, "RESP")
    /\ UNCHANGED <<ends, alive, callers, steps, ids, outcome, term, writer, reader, aborted,
                   overload, eof, terms, causes>>

PeerClose ==
    /\ eof = "open" /\ eof' \in {"clean", "cut"}
    /\ IF answered /\ eof' = "clean" THEN UNCHANGED causes
       ELSE "eof" \in Outside /\ Blame("fault")
    /\ UNCHANGED <<ends, alive, callers, steps, ids, outcome, term, writer, reader, aborted,
                   overload, inbox, terms, answered>>

\* Mutant of LoseRuntime: a takeover has no guard.
LoseUnguarded(rt) ==
    /\ rt \in alive \cap Mortal /\ alive' = alive \ {rt} /\ Blame("haste")
    /\ LET gone == {t \in Tasks : home[t] = rt /\ tpc[t] \notin Ended}
       IN  /\ tpc' = [t \in Tasks |-> IF t \in gone THEN "lost" ELSE tpc[t]]
           /\ hand' = [t \in Tasks |-> IF t \in gone THEN {} ELSE hand[t]]
    /\ cpc' = [c \in Callers |-> IF HomeOf[c] = rt /\ cpc[c] # "done" THEN "gone" ELSE cpc[c]]
    /\ IF rt = Main THEN WriterGone /\ rpc' = "done" /\ overload' = FALSE
       ELSE UNCHANGED <<wpc, ctl, batch, respSig, termSig, rpc, overload>>
    /\ UNCHANGED <<ends, started, takeover, home, pending, silent, outcome, term, respWritten, wire, seen, acked,
                   aborted, peer>>

\* A runtime is shut down: its tasks and callers are dropped where they wait,
\* a takeover with its guard.
LoseRuntime(rt) ==
    /\ rt \in alive \cap Mortal /\ alive' = alive \ {rt} /\ Blame("haste")
    /\ LET gone == {t \in Tasks : home[t] = rt /\ tpc[t] \notin Ended}
       IN  /\ tpc' = [t \in Tasks |-> IF t \in gone THEN "lost" ELSE tpc[t]]
           /\ hand' = [t \in Tasks |-> IF t \in gone THEN {} ELSE hand[t]]
           /\ takeover' = (takeover /\ gone \cap Callers = {})
    /\ cpc' = [c \in Callers |-> IF HomeOf[c] = rt /\ cpc[c] # "done" THEN "gone" ELSE cpc[c]]
    /\ IF rt = Main THEN WriterGone /\ rpc' = "done" /\ overload' = FALSE
       ELSE UNCHANGED <<wpc, ctl, batch, respSig, termSig, rpc, overload>>
    /\ UNCHANGED <<ends, started, home, pending, silent, outcome, term, respWritten, wire, seen, acked,
                   aborted, peer>>

-----------------------------------------------------------------------------
DriverStep == DriverPend \/ DriverSend \/ DriverAwait \/ DriverTimeout \/ DriverUnpend
TaskStep(t) ==
    \/ TaskFinish(t) \/ ReapClosed(t) \/ ReapCleanup(t)
    \/ FailDrain(t) \/ FailPublish(t) \/ Cleaned(t) \/ FallbackTimeout(t) \/ ReapEnd(t)
WriterStep == WriterPick \/ WriterWrite \/ WriterComplete \/ WriterFail \/ WriterStop
ReaderStep ==
    \/ ReadTerminate \/ ReaderQueue \/ ReaderContinue \/ ReaderTerminated
    \/ ReadTerminateResp \/ ReadEof \/ ReaderFail \/ ReaderStop

Next ==
    \/ \E c \in Callers : Close(c) \/ CallerWait(c) \/ CallerTakeover(c)
    \/ DropLast \/ DriverStep \/ (\E t \in Tasks : TaskStep(t))
    \/ WriterStep \/ ReaderStep \/ OverloadStart \/ OverloadFinish
    \/ PeerTerminate \/ PeerAnswer \/ PeerClose \/ (\E rt \in Runtimes : LoseRuntime(rt))

\* Tasks of a running runtime are polled and its timers fire; callers, the
\* peer and the loss of a runtime are not scheduled by anyone.
Fairness ==
    /\ \A c \in Callers : WF_vars(CallerWait(c)) /\ WF_vars(CallerTakeover(c))
    /\ WF_vars(DriverStep) /\ (\A t \in Tasks : WF_vars(TaskStep(t)))
    /\ WF_vars(WriterStep) /\ WF_vars(ReaderStep) /\ WF_vars(OverloadFinish)

Spec == Init /\ [][Next]_vars
FairSpec == Spec /\ Fairness

-----------------------------------------------------------------------------
\* close() (connection.rs:1992) reports completion only of a closed connection
\* whose cleanup was done, or tried until its timeout by the reaping task.
CompleteMeansCleaned == complete => phase = "Closed" /\ (cleaned \/ gaveUp)

\* A close() to which the peer answers, and nothing else happens, leaves no
\* reason for Event::Disconnected, even if the peer closes the stream before
\* the driver is done (connection.rs:2996).
NormalEnd == phase = "Closed" /\ terms = 0 /\ causes \subseteq {"haste", "drop"} => reason = "None"

\* A TERMINATE of the peer that was read is answered before the connection
\* closes, also when it crosses a local close() (connection.rs:2908-2938):
\* only failures, timeouts and dropping the last handle cut it short.
PeerAnswered ==
    phase = "Closed" /\ seen /\ causes = {} => "RESP" \in ToSet(wire)

\* The driver does not leave pending_terminate, and the sequence id it holds,
\* behind, even if the cleanup ran before it was set (connection.rs:2139).
TerminateReleased == tpc[Driver] \in {"closed", "cleanup", "end", "done"} => term = "none"

\* takeover_started is set exactly while one takeover task runs
\* (connection.rs:2024), whichever runtimes are lost meanwhile: two never run,
\* and a lost one does not keep the next caller from taking over.
TakeoverExact == Cardinality({c \in Callers : tpc[c] \notin Ended}) = IF takeover THEN 1 ELSE 0

\* A takeover does what it reports: alone, and a cleaned up connection.
TakeoverSound == CompleteMeansCleaned /\ TakeoverExact

\* A local TERMINATE is not written once the peer's has been answered in an
\* earlier batch (connection.rs:2662).
NoTerminateAfterAnswer == [][\A i \in Len(wire) + 1 .. Len(wire') :
                               wire'[i] = "TERM" => "RESP" \notin ToSet(wire)]_vars

\* close() returns wherever its own runtime keeps running, whether the driver,
\* the workers or the cleanup survive (connection.rs:2017-2060).
CloseReturns == \A c \in Callers : cpc[c] = "wait" ~> cpc[c] \in {"done", "gone"}

\* A TERMINATE of the peer always ends the connection (connection.rs:2908),
\* also when the reader leaves that to a driver whose TERMINATE is out.
TerminateEnds == seen ~> phase = "Closed"

\* After Closed reader and writer end: the writer drops the frames whose
\* completion the reader waits for (connection.rs:2536, 2918).
WorkersEnd == phase = "Closed" ~> rpc = "done" /\ wpc = "done"

\* The peer's TERMINATE is answered, the local one leaves no entry behind and is
\* not sent after that answer, crossing or not (connection.rs:2139, 2662, 2908).
HandshakeSafe == [](PeerAnswered /\ TerminateReleased) /\ NoTerminateAfterAnswer

\* Both are brought to an end (connection.rs:2536, 2908): the peer's ends the
\* connection, and nobody waits for a frame that was dropped.
HandshakeEnds == TerminateEnds /\ WorkersEnd

\* Neither is true of the code when a runtime is lost, see the README.
\* README.md:125 of the repository: after close() the event stream ends; it
\* ends when the cleanup has sent Terminal (connection.rs:2207).
StreamEnds == complete ~> cleaned

\* connection.rs:134: an id whose SubmitDropped does not reach the consumer is
\* counted in events_dropped.
NoSilentId == silent = {}
=============================================================================
