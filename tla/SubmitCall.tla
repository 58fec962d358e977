----------------------------- MODULE SubmitCall -----------------------------
(***************************************************************************)
(* CmppConnection::submit and send_submit (src/connection.rs): one call    *)
(* collects, segment by segment, what a SUBMIT needs (a permit of the      *)
(* manual batches, a UDH reference, sequence ids, a window permit, a slot  *)
(* of the send queue) and gives back on every way out what it did not use: *)
(* all queued, a refusal, a failure half way, or the future dropped while  *)
(* it waits.                                                               *)
(*                                                                         *)
(* An id is the pair <<call, segment>>: which number it is, and when the   *)
(* registry has none left, is module SequenceRegistry; which reference a   *)
(* lease holds is UdhReferencePool; how an entry ends is SubmitPipeline.   *)
(* Here those three answer either way at any moment.                       *)
(***************************************************************************)
EXTENDS Integers, FiniteSets

CONSTANTS Calls,       \* calls of submit()
          Manual,      \* those that pass a base_sequence_id
          Segments,    \* [Calls -> segment_count of the call's content]
          Window,      \* window_size
          BatchLimit,  \* MAX_MANUAL_SEQUENCE_BATCHES
          QueueCap,    \* SEND_CHANNEL_CAPACITY
          References   \* references of the one reassembly domain

ASSUME CallAssumption ==
    /\ IsFiniteSet(Calls) /\ Manual \subseteq Calls /\ Segments \in [Calls -> Nat \ {0}]
    /\ Window \in Nat \ {0} /\ BatchLimit \in Nat \ {0}
    /\ QueueCap \in Nat \ {0} /\ References \in Nat

\* Semaphore::new(window_size.min(MAX_MANUAL_SEQUENCE_BATCHES))
Batches   == IF Window < BatchLimit THEN Window ELSE BatchLimit
Own(c)    == {<<c, k>> : k \in 1 .. Segments[c]}
Pairs     == UNION {Own(c) : c \in Calls}

VARIABLES
    phase,           \* ConnectionPhase
    pc, at, result,  \* per call: step, segment in work, what the caller got
    ids,             \* per call: seq_ids, as segment numbers
    batched, window, \* holders of a manual batch permit; free window permits
    reserved,        \* the registry's reserved ids
    queue, receiver, \* frames in the send queue; its receiver exists
    entry,           \* pending_submits
    ref, exposed,    \* per call: its UdhReferenceLease and the exposed flag
    queued, stuck    \* history: ids ever admitted; ids retire() refused

calls == <<pc, at, result, ids>>
vars  == <<phase, calls, batched, window, reserved, queue, receiver, entry, ref, exposed, queued, stuck>>

TypeOK ==
    /\ phase \in {"Open", "Closing", "Closed"}
    /\ pc \in [Calls -> {"start", "batch", "ref", "ids", "window", "lease", "slot", "admit",
                         "leases", "unref", "unbatch", "over"}]
    /\ at \in [Calls -> Nat] /\ \A c \in Calls : at[c] \in 1 .. Segments[c] + 1
    /\ result \in [Calls -> {"none", "ok", "partial", "refused", "cancelled"}]
    /\ ids \in [Calls -> SUBSET Nat]
    /\ batched \subseteq Manual /\ window \in Nat
    /\ reserved \subseteq Pairs /\ entry \subseteq Pairs /\ queue \subseteq Pairs
    /\ receiver \in BOOLEAN
    /\ ref \in [Calls -> {"none", "held", "cooling", "free"}] /\ exposed \in [Calls -> BOOLEAN]
    /\ queued \subseteq Pairs /\ stuck \subseteq Pairs

Init ==
    /\ phase = "Open" /\ pc = [c \in Calls |-> "start"] /\ at = [c \in Calls |-> 1]
    /\ result = [c \in Calls |-> "none"] /\ ids = [c \in Calls |-> {}]
    /\ batched = {} /\ window = Window /\ reserved = {} /\ queue = {} /\ receiver = TRUE /\ entry = {}
    /\ ref = [c \in Calls |-> "none"] /\ exposed = [c \in Calls |-> FALSE]
    /\ queued = {} /\ stuck = {}

-----------------------------------------------------------------------------
Here(c)       == <<c, at[c]>>
In(c, step)   == pc[c] = step
Goto(c, step) == pc' = [pc EXCEPT ![c] = step]

\* The call holds a slot of the queue between reserve_owned and send.
SlotFree == Cardinality(queue) + Cardinality({c \in Calls : In(c, "admit")}) < QueueCap

\* The call ends with this result; its locals are dropped next.
Leave(c, what) == /\ Goto(c, "leases") /\ result' = [result EXCEPT ![c] = what]
                  /\ UNCHANGED <<at, ids>>

\* An early return before the loop.
Refuse(c) == /\ Leave(c, "refused")
             /\ UNCHANGED <<batched, window, reserved, queue, receiver, entry, ref, exposed, queued, stuck>>

\* finish(): Closed for good.
Finish == phase' = "Closed"

-----------------------------------------------------------------------------
\* submit(), up to the loop.

\* is_closed, too many destinations, content that cannot be planned.
Start(c) ==
    /\ In(c, "start")
    /\ \/ Refuse(c) /\ UNCHANGED phase
       \/ /\ phase = "Open" /\ Goto(c, IF c \in Manual THEN "batch" ELSE "ref")
          /\ UNCHANGED <<phase, at, result, ids, batched, window, reserved, queue, receiver, entry, ref,
                         exposed, queued, stuck>>

\* manual_batch_semaphore; finish() closes it and the phase is watched.
AwaitBatch(c) ==
    /\ In(c, "batch")
    /\ \/ phase # "Open" /\ Refuse(c) /\ UNCHANGED phase
       \/ /\ phase = "Open" /\ Cardinality(batched) < Batches
          /\ batched' = batched \cup {c} /\ Goto(c, "ref")
          /\ UNCHANGED <<phase, at, result, ids, window, reserved, queue, receiver, entry, ref, exposed,
                         queued, stuck>>

\* try_acquire for a long message: ResourceExhausted without a free reference.
InUse == {c \in Calls : ref[c] \in {"held", "cooling"}}
AcquireReference(c) ==
    /\ In(c, "ref") /\ UNCHANGED phase
    /\ IF Segments[c] > 1 /\ Cardinality(InUse) >= References
       THEN Refuse(c)
       ELSE /\ Goto(c, "ids")
            /\ ref' = IF Segments[c] > 1 THEN [ref EXCEPT ![c] = "held"] ELSE ref
            /\ UNCHANGED <<at, result, ids, batched, window, reserved, queue, receiver, entry, exposed,
                           queued, stuck>>

\* reserve_batch: all ids of the message or a Config error.
ReserveIds(c) ==
    /\ In(c, "ids") /\ UNCHANGED phase
    /\ \/ c \in Manual /\ Refuse(c)
       \/ /\ Goto(c, "window")
          /\ reserved' = IF c \in Manual THEN reserved \cup Own(c) ELSE reserved
          /\ UNCHANGED <<at, result, ids, batched, window, queue, receiver, entry, ref, exposed, queued, stuck>>

-----------------------------------------------------------------------------
\* send_submit, one segment.

\* Mutant of Fail: the id is noted before the segment is queued.
FailCounted(c, permit) ==
    /\ Goto(c, "leases") /\ result' = [result EXCEPT ![c] = "partial"]
    /\ ids' = [ids EXCEPT ![c] = @ \cup {at[c]}]
    /\ window' = window + permit
    /\ UNCHANGED <<at, batched, queue, receiver, entry, ref, exposed, queued>>

\* partial_submit_error around whatever stopped this segment, which gives
\* back what it holds: a window permit once it has one.
Fail(c, permit) ==
    /\ Leave(c, "partial") /\ window' = window + permit
    /\ UNCHANGED <<batched, queue, receiver, entry, ref, exposed, queued>>

\* The window semaphore, unless the connection leaves Open first.
AwaitWindow(c) ==
    /\ In(c, "window")
    /\ \/ phase # "Open" /\ Fail(c, 0) /\ reserved' = reserved \ {Here(c)} /\ UNCHANGED <<phase, stuck>>
       \/ /\ phase = "Open" /\ window > 0 /\ window' = window - 1 /\ Goto(c, "lease")
          /\ UNCHANGED <<phase, at, result, ids, batched, reserved, queue, receiver, entry, ref, exposed,
                         queued, stuck>>

\* The manual lease in hand or reserve_next; None finishes the connection.
\* Encoding cannot fail: destinations and segment sizes were checked.
TakeId(c) ==
    /\ In(c, "lease")
    /\ \/ c \notin Manual /\ Fail(c, 1) /\ Finish /\ UNCHANGED <<reserved, stuck>>
       \/ /\ Goto(c, "slot") /\ reserved' = reserved \cup {Here(c)}
          /\ UNCHANGED <<phase, at, result, ids, batched, window, queue, receiver, entry, ref, exposed,
                         queued, stuck>>

\* A slot of the send queue, unless the connection leaves Open first or the
\* queue has no receiver any more, which ends this call and not the connection.
AwaitSlot(c) ==
    /\ In(c, "slot")
    /\ \/ /\ phase # "Open" \/ ~receiver
          /\ Fail(c, 1) /\ reserved' = reserved \ {Here(c)} /\ UNCHANGED <<phase, stuck>>
       \/ /\ phase = "Open" /\ receiver /\ SlotFree /\ Goto(c, "admit")
          /\ UNCHANGED <<phase, at, result, ids, batched, window, reserved, queue, receiver, entry, ref,
                         exposed, queued, stuck>>

\* What follows a queued segment: the next one, or Ok.
Pushed(c) ==
    /\ ids' = [ids EXCEPT ![c] = @ \cup {at[c]}] /\ at' = [at EXCEPT ![c] = @ + 1]
    /\ IF at[c] = Segments[c]
       THEN Goto(c, "leases") /\ result' = [result EXCEPT ![c] = "ok"]
       ELSE Goto(c, "window") /\ UNCHANGED result

\* retire(): a manual id leaves the reserved set before its frame is queued.
\* A slot taken before the receiver went accepts the frame all the same.
Insert(c) ==
    /\ phase = "Open" /\ Pushed(c)
    /\ reserved' = IF c \in Manual THEN reserved \ {Here(c)} ELSE reserved
    /\ entry' = entry \cup {Here(c)} /\ queue' = IF receiver THEN queue \cup {Here(c)} ELSE {}
    /\ queued' = queued \cup {Here(c)}
    /\ UNCHANGED <<phase, batched, window, receiver, ref, stuck>>

\* Under the locks of pending_submits and submit_admission.
\* Closed meanwhile; or the table of retired ids is full and the id stays reserved.
AdmitRefused(c) ==
    \/ phase # "Open" /\ Fail(c, 1) /\ reserved' = reserved \ {Here(c)} /\ UNCHANGED <<phase, stuck>>
    \/ /\ phase = "Open" /\ c \in Manual /\ Fail(c, 1) /\ Finish
       /\ stuck' = stuck \cup {Here(c)} /\ UNCHANGED reserved

\* Mutant of Admit: the last segment alone marks the reference.
AdmitMarksLast(c) ==
    /\ In(c, "admit")
    /\ \/ AdmitRefused(c)
       \/ Insert(c) /\ exposed' = [exposed EXCEPT ![c] = (ref[c] = "held" /\ at[c] = Segments[c])]

Admit(c) ==
    /\ In(c, "admit")
    /\ \/ AdmitRefused(c)
       \/ Insert(c) /\ exposed' = [exposed EXCEPT ![c] = (ref[c] = "held")]

\* The caller drops the future at one of its awaits.
Cancel(c) ==
    /\ pc[c] \in {"batch", "window", "slot"} /\ Leave(c, "cancelled")
    /\ window' = window + (IF In(c, "slot") THEN 1 ELSE 0)
    /\ reserved' = reserved \ (IF In(c, "batch") THEN {} ELSE {Here(c)})
    /\ UNCHANGED <<phase, batched, queue, receiver, entry, ref, exposed, queued, stuck>>

-----------------------------------------------------------------------------
\* The locals are dropped, the youngest first.

\* Mutant of DropLeases: one lease is left in the iterator.
DropFirst(c) ==
    /\ In(c, "leases") /\ Goto(c, "unref")
    /\ reserved' = reserved \ {Here(c)}
    /\ UNCHANGED <<phase, at, result, ids, batched, window, queue, receiver, entry, ref, exposed, queued, stuck>>

\* The leases of the segments never tried; those of entries are the entries'.
DropLeases(c) ==
    /\ In(c, "leases") /\ Goto(c, "unref")
    /\ reserved' = reserved \ (Own(c) \ (entry \cup stuck))
    /\ UNCHANGED <<phase, at, result, ids, batched, window, queue, receiver, entry, ref, exposed, queued, stuck>>

\* The lease behind the Arc is released with its last holder.
Released(c) == [ref EXCEPT ![c] = IF ref[c] # "held" THEN @
                                  ELSE IF exposed[c] THEN "cooling" ELSE "free"]

Unreference(c) ==
    /\ In(c, "unref") /\ Goto(c, "unbatch")
    /\ ref' = IF entry \cap Own(c) = {} THEN Released(c) ELSE ref
    /\ UNCHANGED <<phase, at, result, ids, batched, window, reserved, queue, receiver, entry, exposed,
                   queued, stuck>>

Unbatch(c) ==
    /\ In(c, "unbatch") /\ Goto(c, "over") /\ batched' = batched \ {c}
    /\ UNCHANGED <<phase, at, result, ids, window, reserved, queue, receiver, entry, ref, exposed, queued, stuck>>

-----------------------------------------------------------------------------
\* The rest of the connection.

\* The writer takes the frame.
Dequeue(p) ==
    /\ receiver /\ p \in queue /\ queue' = queue \ {p}
    /\ UNCHANGED <<phase, calls, batched, window, reserved, receiver, entry, ref, exposed, queued, stuck>>

\* Mutant of Conclude: the entry's window permit is forgotten.
ConcludeKeepsPermit(p) ==
    LET call == p[1]
    IN /\ p \in entry /\ entry' = entry \ {p} /\ reserved' = reserved \ {p}
       /\ ref' = IF pc[call] \in {"unbatch", "over"} /\ entry \cap Own(call) = {p} THEN Released(call) ELSE ref
       /\ UNCHANGED <<phase, calls, batched, window, queue, receiver, exposed, queued, stuck>>

\* The entry is dropped, after a response, a timeout or at teardown: its
\* permit, its id and its share of the reference go back.
Conclude(p) ==
    LET call == p[1]
    IN /\ p \in entry /\ entry' = entry \ {p} /\ window' = window + 1
       /\ reserved' = reserved \ {p}
       /\ ref' = IF pc[call] \in {"unbatch", "over"} /\ entry \cap Own(call) = {p} THEN Released(call) ELSE ref
       /\ UNCHANGED <<phase, calls, batched, queue, receiver, exposed, queued, stuck>>

\* The cooldown of the reference is over and a later try_acquire purges it.
CooldownEnds(c) ==
    /\ ref[c] = "cooling" /\ ref' = [ref EXCEPT ![c] = "free"]
    /\ UNCHANGED <<phase, calls, batched, window, reserved, queue, receiver, entry, exposed, queued, stuck>>

\* The writer's task is dropped with the runtime connect() was called on, and
\* the frames in its queue with it; the calls left are those of other runtimes.
\* Nobody is told.  Once the phase has changed no call looks at the queue.
WriterGone ==
    /\ phase = "Open" /\ receiver /\ receiver' = FALSE /\ queue' = {}
    /\ UNCHANGED <<phase, calls, batched, window, reserved, entry, ref, exposed, queued, stuck>>

\* close(), a failed worker, a peer that terminates.
PhaseChange ==
    /\ \/ phase = "Open" /\ phase' = "Closing"
       \/ phase # "Closed" /\ Finish
    /\ UNCHANGED <<calls, batched, window, reserved, queue, receiver, entry, ref, exposed, queued, stuck>>

CallStep(c) ==
    \/ Start(c) \/ AwaitBatch(c) \/ AcquireReference(c) \/ ReserveIds(c)
    \/ AwaitWindow(c) \/ TakeId(c) \/ AwaitSlot(c) \/ Admit(c)
    \/ DropLeases(c) \/ Unreference(c) \/ Unbatch(c)

Next ==
    \/ PhaseChange \/ WriterGone
    \/ \E c \in Calls : CallStep(c) \/ Cancel(c) \/ CooldownEnds(c)
    \/ \E p \in Pairs : Dequeue(p) \/ Conclude(p)

Spec == Init /\ [][Next]_vars

\* A call's task is polled; while the connection is open and its tasks run,
\* the writer empties the queue and every entry comes to an end
\* (SubmitPipeline: a response, or a timeout after the last attempt).  Nobody
\* has to cancel or close.
Ends(p) == phase = "Open" /\ receiver /\ Conclude(p)

FairSpec ==
    /\ Spec /\ \A c \in Calls : WF_vars(CallStep(c))
    /\ \A p \in Pairs : WF_vars(Dequeue(p)) /\ WF_vars(Ends(p))

-----------------------------------------------------------------------------
\* Properties.

Over(c) == In(c, "over")

\* What the caller is told is what happened (Error::PartialSubmit): Ok names
\* all segments, PartialSubmit exactly those that were queued, and any other
\* error means that none was.
ReportExact ==
    \A c \in Calls : Over(c) /\ result[c] # "cancelled" =>
        LET sent == {k \in 1 .. Segments[c] : <<c, k>> \in queued}
        IN /\ ids[c] = sent
           /\ result[c] = "ok" => sent = 1 .. Segments[c]
           /\ result[c] = "refused" => sent = {}

\* What error.rs:49 and :54 say of PartialSubmit: the connection was closed
\* during the call.  Not true of the code: a call that finds the queue without
\* a receiver (1950) returns it of a connection that is Open and stays so.
PartialMeansClosed == \A c \in Calls : result[c] = "partial" => phase # "Open"

\* The connection has left Open, or nobody writes what it queues.
Down == phase # "Open" \/ ~receiver

\* PartialSubmit is final: no segment after it can reach the peer.
PartialMeansDown == \A c \in Calls : result[c] = "partial" => Down

\* The caller can rely on what submit() returns (error.rs, PartialSubmit).
CallerTold == ReportExact /\ PartialMeansDown

\* Nothing is left behind, whichever way the call ended: the only ids of it
\* that are still reserved belong to entries or were refused by retire().
NothingLeaked == \A c \in Calls : Over(c) => reserved \cap Own(c) \subseteq entry \cup stuck

\* Every window permit is free, in the hands of a call, or in an entry.
WindowExact ==
    window + Cardinality({c \in Calls : pc[c] \in {"lease", "slot", "admit"}}) + Cardinality(entry)
        = Window

\* At most Batches calls hold manual ids that no frame carries, so a crowd of
\* waiting callers cannot fill the reserved set.
ManualBounded ==
    Cardinality({c \in Manual : (reserved \cap Own(c)) \ stuck # {}}) <= Batches

\* Permits and ids are in exactly one place, whichever way calls end: all
\* queued, refused, failed half way or dropped at an await.
ResourcesExact == TypeOK /\ NothingLeaked /\ WindowExact /\ ManualBounded

\* The reference of a long message stays taken while a segment of it is
\* pending, even after the call has returned (the Arc in PendingSubmit).
ReferenceKept ==
    \A c \in Calls : Segments[c] > 1 /\ entry \cap Own(c) # {} => ref[c] = "held"

\* A reference that was in a queued frame is never freed without a cooldown.
NoEarlyReuse == [][\A c \in Calls : ref[c] = "held" /\ ref'[c] = "free" => queued \cap Own(c) = {}]_vars

\* A reference in use on the wire is given to no other message: it is kept
\* while a segment is pending and cools down afterwards.
ReferenceGuarded == []ReferenceKept /\ NoEarlyReuse

\* Waits for a permit on a connection that is Open but has lost its tasks:
\* nobody concludes the entries that hold the permits until it is closed.
Stranded(c) ==
    /\ phase = "Open" /\ ~receiver
    /\ \/ In(c, "window") /\ window = 0
       \/ In(c, "batch") /\ Cardinality(batched) >= Batches

\* A call returns: no permit, slot or reference it waits for is withheld for
\* ever by the others, unless the connection's runtime was shut down.
CallsReturn == <>[](\A c \in Calls : pc[c] # "start" => Over(c) \/ Stranded(c))
=============================================================================
