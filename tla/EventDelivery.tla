---------------------------- MODULE EventDelivery ----------------------------
(***************************************************************************)
(* How events of one connection reach the consumer (src/connection.rs):    *)
(* admission (emit_event, reserve_deferred_event), the bounded spool, the  *)
(* dispatcher task with its backpressure budget, and the teardown that     *)
(* seals admission, offers the SubmitDropped batches and closes the spool  *)
(* with a Terminal item.                                                   *)
(*                                                                         *)
(* Every event is one member of Directs (SubmitResp, SubmitTimeout),       *)
(* Delivers (published when its DELIVER_RESP is written) or Owed           *)
(* (SubmitDropped of fail_all_pending), emitted at most once.  Timers are  *)
(* choices: a budget may run out whenever the code measures it.            *)
(***************************************************************************)
EXTENDS Integers, SequencesExt

CONSTANTS Directs, Delivers, Owed,
          Cap,        \* event_spool_capacity (the channel has two slots more)
          PublicCap,  \* INCOMING_CHANNEL_CAPACITY
          DropBatch,  \* SUBMIT_DROPPED_BATCH_SIZE
          Bye         \* Event::Disconnected

ASSUME DeliveryAssumption ==
    /\ IsFiniteSet(Directs) /\ IsFiniteSet(Delivers) /\ IsFiniteSet(Owed)
    /\ Directs \cap Delivers = {} /\ Directs \cap Owed = {} /\ Delivers \cap Owed = {}
    /\ Cap \in Nat \ {0} /\ PublicCap \in Nat \ {0, 1} /\ DropBatch \in Nat \ {0}
    /\ Bye \notin Directs \cup Delivers \cup Owed

Events == Directs \cup Delivers \cup Owed

VARIABLES
    phase, adm, flagged, trigger, \* phase, event_admission, event_overflowed,
                                  \* a start_event_overload_close about to run
    drainer, idleSeal,            \* drain_event_tickets; sealed while idle
    spool, term,                  \* the spool; the Terminal item of the close
    todo, ticket, reading,        \* events not emitted yet; tickets; the reader
    cpc, owed, chunk,             \* fail_all_pending: step, ids, batch in hand
    dpc, hand, at, discard,       \* dispatcher: step, item in hand, next event
    public, open, seen,           \* public channel, receiver alive, consumed
    written,                      \* DELIVERs whose response was fully written
    announce,                     \* terminal_reason is Some
    accepted, lost, silent, dropped  \* history, and the events_dropped counter

gate   == <<phase, adm, flagged, trigger, drainer, idleSeal, announce>>
source == <<todo, ticket, reading, written>>
clean  == <<cpc, owed, chunk>>
disp   == <<dpc, hand, at, discard>>
outlet == <<public, open, seen>>
vars   == <<gate, source, clean, spool, term, disp, outlet, accepted, lost, silent, dropped>>

Kinds   == {"direct", "deferred", "batch", "terminal"}
Item    == [kind : Kinds, ids : Seq(Events)]
Accepts == {"Open", "Draining"}

TypeOK ==
    /\ phase \in {"Open", "Closing", "Closed"}
    /\ adm \in Accepts \cup {"Overflowed", "Sealed", "Terminal"}
    /\ flagged \in BOOLEAN /\ trigger \in BOOLEAN /\ idleSeal \in BOOLEAN /\ announce \in BOOLEAN
    /\ drainer \in {"idle", "wait", "finish", "done"}
    /\ spool \in Seq(Item) /\ Len(spool) <= Cap + 2
    /\ term \in {"none", "retry", "sent"} /\ todo \subseteq Directs \cup Delivers
    /\ ticket \in [Delivers -> {"none", "held", "sent", "void"}] /\ reading \in BOOLEAN
    /\ cpc \in {"off", "fail", "send", "done"} /\ owed \subseteq Owed /\ chunk \subseteq Owed
    /\ dpc \in {"recv", "await", "send", "exited"} /\ discard \in BOOLEAN
    /\ hand \in Seq(Events) /\ at \in Nat
    /\ public \in Seq(Events \cup {Bye}) /\ Len(public) <= PublicCap
    /\ open \in BOOLEAN /\ seen \in Seq(Events \cup {Bye})
    /\ written \subseteq Delivers /\ accepted \in Seq(Events)
    /\ lost \subseteq Events /\ silent \subseteq Events /\ dropped \in Nat

Init ==
    /\ phase = "Open" /\ adm = "Open" /\ flagged = FALSE /\ trigger = FALSE
    /\ drainer = "idle" /\ idleSeal = FALSE /\ announce = FALSE
    /\ spool = <<>> /\ term = "none"
    /\ todo = Directs \cup Delivers /\ ticket = [v \in Delivers |-> "none"] /\ reading = TRUE
    /\ cpc = "off" /\ owed = {} /\ chunk = {}
    /\ dpc = "recv" /\ hand = <<>> /\ at = 1 /\ discard = FALSE
    /\ public = <<>> /\ open = TRUE /\ seen = <<>>
    /\ written = {} /\ accepted = <<>> /\ lost = {} /\ silent = {} /\ dropped = 0

-----------------------------------------------------------------------------
\* EventDepthPermit: an event weighs one while it is in the spool, in the
\* dispatcher's hand or in a batch under retry; so does the Terminal item.

InSpool    == UNION {Range(spool[i].ids) : i \in DOMAIN spool}
TerminalIn == \E i \in DOMAIN spool : spool[i].kind = "terminal"
Depth == Cardinality(InSpool \cup Range(hand) \cup chunk)
         + (IF term = "retry" \/ TerminalIn THEN 1 ELSE 0)

Room == dpc # "exited" /\ Len(spool) < Cap + 2
Held == {v \in Delivers : ticket[v] = "held"}

Enter(item) ==
    /\ spool' = Append(spool, item) /\ accepted' = accepted \o item.ids

\* S was counted in events_dropped and nobody will see it.
Count(S) == lost' = lost \cup S /\ dropped' = dropped + Cardinality(S)

\* Mutant of Admit: the event that overflows leaves admission as it is.
AdmitStaysOpen(item, in) ==
    /\ adm \in Accepts /\ in = Room
    /\ IF Depth < Cap /\ Room
       THEN UNCHANGED <<flagged, trigger>>
       ELSE flagged' = TRUE /\ trigger' = TRUE
    /\ IF in THEN Enter(item) ELSE UNCHANGED <<spool, accepted>>
    /\ UNCHANGED <<phase, adm, drainer, idleSeal, announce>>

\* The admission decision under its lock: in takes the event into the spool.
\* Without ordinary capacity the event still gets one try.
Admit(item, in) ==
    /\ adm \in Accepts /\ in = Room
    /\ IF Depth < Cap /\ Room
       THEN UNCHANGED <<adm, flagged, trigger>>
       ELSE adm' = "Overflowed" /\ flagged' = TRUE /\ trigger' = TRUE
    /\ IF in THEN Enter(item) ELSE UNCHANGED <<spool, accepted>>
    /\ UNCHANGED <<phase, drainer, idleSeal, announce>>

\* emit_event
Emit(d) ==
    /\ d \in todo /\ todo' = todo \ {d}
    /\ \/ Admit([kind |-> "direct", ids |-> <<d>>], TRUE) /\ UNCHANGED <<lost, dropped>>
       \/ Admit([kind |-> "direct", ids |-> <<d>>], FALSE) /\ Count({d})
       \/ adm \notin Accepts /\ Count({d}) /\ UNCHANGED <<gate, spool, accepted>>
    /\ UNCHANGED <<ticket, reading, written, clean, term, disp, outlet, silent>>

\* Mutant of Reserve: the DELIVER is published when its response is queued.
ReservePublishes(v) ==
    /\ v \in todo /\ reading /\ todo' = todo \ {v}
    /\ Admit([kind |-> "deferred", ids |-> <<v>>], TRUE)
    /\ ticket' = [ticket EXCEPT ![v] = "sent"]
    /\ UNCHANGED <<reading, written, clean, term, disp, outlet, lost, silent, dropped>>

\* A DELIVER arrives: reserve_deferred_event; refused, the reader returns and
\* the peer gets no DELIVER_RESP.
Reserve(v) ==
    /\ v \in todo /\ reading /\ todo' = todo \ {v}
    /\ \/ /\ Admit([kind |-> "deferred", ids |-> <<v>>], TRUE)
          /\ ticket' = [ticket EXCEPT ![v] = "held"] /\ UNCHANGED reading
       \/ /\ Admit([kind |-> "deferred", ids |-> <<v>>], FALSE)
          /\ reading' = FALSE /\ UNCHANGED ticket
       \/ adm \notin Accepts /\ reading' = FALSE /\ UNCHANGED <<gate, spool, accepted, ticket>>
    /\ UNCHANGED <<written, clean, term, disp, outlet, lost, silent, dropped>>

\* The writer wrote the DELIVER_RESP completely, and publishes.
ResponseWritten(v) ==
    /\ ticket[v] = "held" /\ ticket' = [ticket EXCEPT ![v] = "sent"]
    /\ written' = written \cup {v}
    /\ UNCHANGED <<gate, todo, reading, clean, spool, term, disp, outlet, accepted, lost, silent, dropped>>

\* The response could not be queued or written: the ticket is dropped.
TicketDropped(v) ==
    /\ ticket[v] = "held" /\ ticket' = [ticket EXCEPT ![v] = "void"]
    /\ UNCHANGED <<gate, todo, reading, written, clean, spool, term, disp, outlet, accepted, lost, silent, dropped>>

-----------------------------------------------------------------------------
\* The dispatcher.

DispatchTerminal ==
    /\ dpc = "recv" /\ spool # <<>> /\ Head(spool).kind = "terminal"
    /\ dpc' = "exited" /\ spool' = <<>>
    /\ silent' = silent \cup UNION {Range(item.ids) : item \in Range(Tail(spool))}
    /\ public' = IF announce /\ open /\ Len(public) < PublicCap THEN Append(public, Bye) ELSE public
    /\ UNCHANGED <<gate, source, clean, term, hand, at, discard, open, seen, accepted, lost, dropped>>

Receive ==
    /\ dpc = "recv" /\ spool # <<>> /\ Head(spool).kind # "terminal"
    /\ spool' = Tail(spool)
    /\ IF Head(spool).kind = "deferred" /\ discard
       THEN Count(Range(Head(spool).ids)) /\ UNCHANGED <<dpc, hand, at>>
       ELSE /\ dpc' = (IF Head(spool).kind = "deferred" THEN "await" ELSE "send")
            /\ hand' = Head(spool).ids /\ at' = 1 /\ UNCHANGED <<lost, dropped>>
    /\ UNCHANGED <<gate, source, clean, term, discard, outlet, accepted, silent>>

\* Mutant of AwaitTicket: an event that is not ready goes to the end of the spool.
AwaitRequeues ==
    /\ dpc = "await"
    /\ \/ ticket[hand[1]] = "sent" /\ dpc' = "send" /\ UNCHANGED <<hand, spool, lost, dropped>>
       \/ /\ ticket[hand[1]] = "held" /\ Room /\ dpc' = "recv" /\ hand' = <<>>
          /\ spool' = Append(spool, [kind |-> "deferred", ids |-> hand]) /\ UNCHANGED <<lost, dropped>>
       \/ ticket[hand[1]] = "void" /\ dpc' = "recv" /\ hand' = <<>> /\ Count({hand[1]}) /\ UNCHANGED spool
    /\ UNCHANGED <<gate, source, clean, term, at, discard, outlet, accepted, silent>>

\* event_rx.await: published, or the ticket was dropped unpublished.
AwaitTicket ==
    /\ dpc = "await"
    /\ \/ ticket[hand[1]] = "sent" /\ dpc' = "send" /\ UNCHANGED <<hand, lost, dropped>>
       \/ ticket[hand[1]] = "void" /\ dpc' = "recv" /\ hand' = <<>> /\ Count({hand[1]})
    /\ UNCHANGED <<gate, source, clean, spool, term, at, discard, outlet, accepted, silent>>

Advance ==
    IF at < Len(hand) THEN at' = at + 1 /\ UNCHANGED <<dpc, hand>>
    ELSE dpc' = "recv" /\ hand' = <<>> /\ at' = 1

\* Mutant of Forward: one free slot is enough.
ForwardFills ==
    /\ dpc = "send" /\ ~discard /\ open /\ Len(public) < PublicCap
    /\ public' = Append(public, hand[at]) /\ Advance
    /\ UNCHANGED <<gate, source, clean, spool, term, discard, open, seen, accepted, lost, silent, dropped>>

\* dispatch_event_with_budget: two slots free, one of them is used.
Forward ==
    /\ dpc = "send" /\ ~discard /\ open /\ Len(public) + 2 <= PublicCap
    /\ public' = Append(public, hand[at]) /\ Advance
    /\ UNCHANGED <<gate, source, clean, spool, term, discard, open, seen, accepted, lost, silent, dropped>>

\* The receiver is gone, or did not make room within the backpressure budget;
\* from then on everything is discarded, and counted.
Discard ==
    /\ dpc = "send" /\ Advance /\ Count({hand[at]})
    /\ \/ (discard \/ ~open) /\ UNCHANGED gate
       \/ /\ ~discard /\ open /\ Len(public) + 2 > PublicCap
          /\ flagged' = TRUE /\ trigger' = TRUE
          /\ adm' = IF adm \in Accepts THEN "Overflowed" ELSE adm
          /\ UNCHANGED <<phase, drainer, idleSeal, announce>>
    /\ discard' = TRUE
    /\ UNCHANGED <<source, clean, spool, term, outlet, accepted, silent>>

Take ==
    /\ open /\ public # <<>> /\ public' = Tail(public) /\ seen' = Append(seen, Head(public))
    /\ UNCHANGED <<gate, source, clean, spool, term, disp, open, accepted, lost, silent, dropped>>

DropReceiver ==
    /\ open /\ open' = FALSE
    /\ UNCHANGED <<gate, source, clean, spool, term, disp, public, seen, accepted, lost, silent, dropped>>

-----------------------------------------------------------------------------
\* Closing: close() or an overload begins to drain, admission is sealed,
\* finish() follows; or some task finishes at once.

BeginEventDrain == adm' = IF adm = "Open" THEN "Draining" ELSE adm

\* close(), and the overload close; only the one that leaves Open drains.
BeginClose ==
    /\ IF trigger THEN trigger' = FALSE ELSE phase = "Open" /\ UNCHANGED trigger
    /\ IF phase = "Open" THEN phase' = "Closing" /\ drainer' = "wait" /\ BeginEventDrain
                         ELSE UNCHANGED <<phase, drainer, adm>>
    /\ UNCHANGED <<flagged, idleSeal, announce, source, clean, spool, term, disp, outlet, accepted, lost, silent, dropped>>

\* seal_event_admission_if_idle under the admission lock, or the timeout.
SealAdmission ==
    /\ drainer = "wait" /\ drainer' = "finish"
    /\ adm' = IF adm = "Terminal" THEN adm ELSE "Sealed"
    /\ idleSeal' = (Held = {})
    /\ UNCHANGED <<phase, flagged, trigger, announce, source, clean, spool, term, disp, outlet, accepted, lost, silent, dropped>>

\* finish(): by the drainer, or by any task at any time.  The reader and the
\* writer die with the connection, and with them the frames they hold.
Finish ==
    /\ drainer = "finish" \/ phase # "Closed"
    /\ drainer' = IF drainer = "finish" THEN "done" ELSE drainer
    /\ IF phase = "Closed" THEN UNCHANGED <<phase, announce, cpc>>
       ELSE /\ phase' = "Closed" /\ cpc' = "fail"
            /\ announce' \in IF flagged THEN {TRUE} ELSE BOOLEAN
    /\ UNCHANGED <<adm, flagged, trigger, idleSeal, source, owed, chunk, spool, term, disp, outlet, accepted, lost, silent, dropped>>

\* fail_all_pending: the map is drained, then offered batch by batch.
CleanupFail ==
    /\ cpc = "fail" /\ cpc' = "send" /\ owed' = Owed
    /\ UNCHANGED <<gate, source, chunk, spool, term, disp, outlet, accepted, lost, silent, dropped>>

CleanupTake ==
    /\ cpc = "send" /\ chunk = {} /\ owed # {}
    /\ \E S \in SUBSET owed : /\ Cardinality(S) = DropBatch \/ (S = owed /\ Cardinality(S) < DropBatch)
                              /\ chunk' = S /\ owed' = owed \ S
    /\ UNCHANGED <<gate, source, cpc, spool, term, disp, outlet, accepted, lost, silent, dropped>>

\* The batch enters the spool; or its budget is used up; or the dispatcher is
\* gone, which ends the loop.
CleanupSend ==
    /\ chunk # {} /\ chunk' = {}
    /\ \/ /\ Room /\ \E order \in SetToSeqs(chunk) : Enter([kind |-> "batch", ids |-> order])
          /\ UNCHANGED <<owed, lost, dropped>>
       \/ Count(chunk) /\ UNCHANGED <<owed, spool, accepted>>
       \/ dpc = "exited" /\ Count(chunk \cup owed) /\ owed' = {} /\ UNCHANGED <<spool, accepted>>
    /\ UNCHANGED <<gate, source, cpc, term, disp, outlet, silent>>

\* close_event_spool, once: the Terminal item is on its way.
CloseSpool ==
    /\ adm' = "Terminal" /\ term' = IF adm = "Terminal" THEN term ELSE "retry"
    /\ UNCHANGED <<phase, flagged, trigger, drainer, idleSeal, announce>>

CleanupClose ==
    /\ cpc = "send" /\ chunk = {} /\ owed = {} /\ cpc' = "done" /\ CloseSpool
    /\ UNCHANGED <<source, owed, chunk, spool, disp, outlet, accepted, lost, silent, dropped>>

\* reap_background_tasks: the cleanup takes longer than response_timeout, and
\* the fallback closes the spool while the first cleanup still retries.
ReapFallback ==
    /\ cpc = "send" /\ adm # "Terminal" /\ CloseSpool
    /\ UNCHANGED <<source, clean, spool, disp, outlet, accepted, lost, silent, dropped>>

\* Mutant of SendTerminal: tried once, a full spool swallows the Terminal item.
TerminalOnce ==
    /\ term = "retry" /\ term' = "sent"
    /\ spool' = IF Room THEN Append(spool, [kind |-> "terminal", ids |-> <<>>]) ELSE spool
    /\ UNCHANGED <<gate, source, clean, disp, outlet, accepted, lost, silent, dropped>>

SendTerminal ==
    /\ term = "retry" /\ Room /\ term' = "sent"
    /\ spool' = Append(spool, [kind |-> "terminal", ids |-> <<>>])
    /\ UNCHANGED <<gate, source, clean, disp, outlet, accepted, lost, silent, dropped>>

-----------------------------------------------------------------------------
Dispatcher == DispatchTerminal \/ Receive \/ AwaitTicket \/ Forward \/ Discard
Cleanup    == CleanupFail \/ CleanupTake \/ CleanupSend \/ CleanupClose

Next ==
    \/ \E d \in Directs : Emit(d)
    \/ \E v \in Delivers : Reserve(v) \/ ResponseWritten(v) \/ TicketDropped(v)
    \/ Dispatcher \/ Take \/ DropReceiver
    \/ BeginClose \/ SealAdmission \/ Finish
    \/ Cleanup \/ ReapFallback \/ SendTerminal

Safety == Init /\ [][Next]_vars

\* Tasks that can go on go on, every wait but the consumer's has a timer, and
\* the response of a DELIVER is written or dropped.
Fairness ==
    /\ WF_vars(Dispatcher) /\ WF_vars(trigger /\ BeginClose) /\ WF_vars(SealAdmission)
    /\ WF_vars(drainer = "finish" /\ Finish) /\ WF_vars(Cleanup) /\ WF_vars(SendTerminal)
    /\ \A v \in Delivers : WF_vars(ResponseWritten(v) \/ TicketDropped(v))

Spec == Safety /\ Fairness

-----------------------------------------------------------------------------
\* Properties.

\* What the consumer got or can take, and what the dispatcher still has to hand on.
Stream == seen \o public
InHand == {hand[k] : k \in at .. Len(hand)}

\* The spool accepted e before f.
Precedes(e, f) == \E j \in DOMAIN accepted : \E i \in 1 .. j - 1 : accepted[i] = e /\ accepted[j] = f
Ahead(S, T)    == \A e \in S \ {Bye}, f \in T \ {Bye} : Precedes(e, f)
Ascending(s)   == \A j \in DOMAIN s : \A i \in 1 .. j - 1 : Ahead({s[i]}, {s[j]})

\* Nothing overtakes: from the stream back over the dispatcher to the end of
\* the spool, events are in the order the spool accepted them.
NothingOvertakes ==
    /\ Ascending(Stream) /\ Ascending(hand) /\ Ahead(Range(Stream), InHand \cup InSpool)
    /\ Ahead(InHand, InSpool)
    /\ \A k \in DOMAIN spool :
        /\ Ascending(spool[k].ids)
        /\ \A i \in 1 .. k - 1 : Ahead(Range(spool[i].ids), Range(spool[k].ids))

\* Nothing is accepted twice, and only what was counted or silently lost
\* disappears.
NothingVanishes ==
    /\ \A i, j \in DOMAIN accepted : accepted[i] = accepted[j] => i = j
    /\ (Range(Stream) \ {Bye}) \cup InHand \cup InSpool = Range(accepted) \ (lost \cup silent)

\* The spool, the dispatcher and the public channel are one queue.
InOrder == NothingOvertakes /\ NothingVanishes

\* events_dropped counts every event it counts once (ConnectionMetrics).
DroppedOnce == dropped = Cardinality(lost)

\* Disconnected is the last event, and a consumer that kept its receiver gets
\* it whatever the backlog: ordinary events leave it a slot.
DisconnectedLast ==
    LET byes == {k \in DOMAIN Stream : Stream[k] = Bye}
    IN /\ byes \subseteq {Len(Stream)}
       /\ dpc = "exited" /\ announce /\ open => byes # {}

\* The consumer never sees a DELIVER the peer got no DELIVER_RESP for.
DeliverAcknowledged == Delivers \cap Range(Stream) \subseteq written

\* Admission sealed as idle has no ticket left, and no ticket appears later:
\* no DELIVER that was taken is behind the seal.
IdleSealHolds == idleSeal => Held = {}

\* Bounded backlog: ordinary events beyond the capacity are one at most.
Ordinary       == (Directs \cup Delivers) \cap (InSpool \cup Range(hand))
BacklogBounded == Cardinality(Ordinary) <= Cap + 1

\* An overload is bounded and told: the backlog exceeds its capacity by one
\* event at most, and each event given up is counted once (emit_event).
OverloadBounded == TypeOK /\ BacklogBounded /\ DroppedOnce

\* A DELIVER is shown only after its response was written, and none that was
\* taken is left behind the seal of a closing connection.
DeliverSafe == DeliverAcknowledged /\ IdleSealHolds

\* A connection that closes, or overflowed, ends with the dispatcher gone, even
\* when the consumer never reads.
DispatcherExits == (phase # "Open" \/ adm = "Overflowed") ~> dpc = "exited"

\* Not true of the code, see the README.
\* ConnectionMetrics::events_dropped is documented to count every event that was
\* dropped before it reached the consumer.
EveryLossCounted == silent = {}
=============================================================================
