------------------------------- MODULE WriterProofs -------------------------------
(***************************************************************************)
(* The safety properties of the two modules about writer_task:             *)
(* WriterScheduling, for every burst limit, batch limit, budget and        *)
(* capacity, and Heartbeat, for every    *)
(* retry count, queue capacity and number of heartbeats.                   *)
(***************************************************************************)
EXTENDS WriterScheduling, Heartbeat, FiniteSetTheorems, TLAPS

-----------------------------------------------------------------------------
\* The inductive invariant.

\* control_burst counts at least the control frames that passed a SUBMIT.
PassedInBurst == passed <= burst

\* A batch starts empty.
PickEmpty == wpc = "pick" => batch = <<>> /\ bytes = 0 /\ minLeft = Budget

\* The DELIVER_RESPs of the batch.
Delivers == {i \in DOMAIN batch : batch[i].kind = "deliver"}

\* rest is the least budget left in the batch.
LeastIs(rest) ==
    /\ \A i \in Delivers : batch[i].left >= rest
    /\ Delivers # {} => \E i \in Delivers : batch[i].left = rest

\* batch_min_remaining while the batch is put together, the write's timer then.
LeastInv ==
    /\ wpc = "batch" => LeastIs(minLeft)
    /\ wpc = "write" => LeastIs(wleft)

\* Without a DELIVER_RESP batch_min_remaining is the whole budget.
LeastEmpty == wpc = "batch" /\ Delivers = {} => minLeft = Budget

\* Responses go through the other queue.
SubmitQueueInv == \A i \in DOMAIN submitQ : submitQ[i].kind # "deliver"

\* A DELIVER_RESP without budget has been noted as late.
HeldInv == held # NoFrame => held.kind = "deliver" /\ (held.left <= 0 => late)
QueueInv == \A i \in DOMAIN controlQ :
                controlQ[i].kind = "deliver" /\ controlQ[i].left <= 0 => late
BatchLate == \A i \in Delivers : wpc \in {"batch", "write"} /\ batch[i].left <= 0 => late

LateInv == HeldInv /\ QueueInv /\ BatchLate /\ TimeoutMeansLate

WriterInv ==
    TypeOK /\ PassedInBurst /\ PickEmpty /\ BatchBounded /\ LeastInv /\ LeastEmpty
    /\ SubmitQueueInv /\ LateInv

-----------------------------------------------------------------------------
\* Sequences.

\* What is left of a sequence without its head.
LEMMA TailOf ==
    ASSUME NEW S, NEW s \in Seq(S), s # <<>>
    PROVE  /\ Head(s) = s[1] /\ 1 \in DOMAIN s /\ Head(s) \in S
           /\ Tail(s) \in Seq(S) /\ Len(Tail(s)) = Len(s) - 1
           /\ \A i \in DOMAIN Tail(s) : i + 1 \in DOMAIN s /\ Tail(s)[i] = s[i + 1]
  OBVIOUS

\* What a sequence becomes with another element at its end.
LEMMA AppendOf ==
    ASSUME NEW S, NEW s \in Seq(S), NEW e \in S
    PROVE  /\ Append(s, e) \in Seq(S) /\ Len(Append(s, e)) = Len(s) + 1
           /\ DOMAIN Append(s, e) = DOMAIN s \cup {Len(s) + 1}
           /\ Append(s, e)[Len(s) + 1] = e
           /\ \A i \in DOMAIN s : Append(s, e)[i] = s[i] /\ i # Len(s) + 1
  OBVIOUS

\* A function on the domain of a sequence is a sequence of the same length.
LEMMA SameDomain ==
    ASSUME NEW S, NEW s \in Seq(S), NEW t \in [DOMAIN s -> S]
    PROVE  t \in Seq(S) /\ Len(t) = Len(s) /\ DOMAIN t = DOMAIN s
  OBVIOUS

\* Frames age into frames.
LEMMA AgedFrame ==
    ASSUME NEW f \in Frame
    PROVE  /\ Aged(f) \in Frame /\ Aged(f).kind = f.kind
           /\ f.kind = "deliver" /\ f.left >= 0 => Aged(f).left = f.left - 1
           /\ f.kind = "deliver" /\ Aged(f).left <= 0 => f.left <= 0 \/ Due(f)
  BY SchedulingAssumption DEF Frame, Aged, Due

-----------------------------------------------------------------------------
\* The initial states.

\* The writer starts with empty queues and no batch.
LEMMA InitInv == Init => WriterInv
  <1> SUFFICES ASSUME Init PROVE WriterInv
    OBVIOUS
  <1>1. phase = "Open" /\ reason = "none" /\ submitQ = <<>> /\ controlQ = <<>> /\ held = NoFrame /\ burst = 0
        /\ wpc = "pick" /\ batch = <<>> /\ bytes = 0 /\ minLeft = Budget /\ wleft = 0 /\ last = "none" /\ passed = 0
    BY DEF Init
  <1>2. drain \in BOOLEAN /\ marker \in BOOLEAN /\ late \in BOOLEAN
    BY Zenon DEF Init
  <1>3. TypeOK
    BY <1>1, <1>2, SchedulingAssumption DEF TypeOK
  <1> QED
    BY <1>1, <1>3, SchedulingAssumption
       DEF WriterInv, PassedInBurst, PickEmpty, BatchBounded, LeastInv, LeastEmpty, LateInv, SubmitQueueInv,
           HeldInv, QueueInv, BatchLate, Delivers, TimeoutMeansLate

\* New frames are frames with their whole budget.
LEMMA NewFrame == ASSUME NEW k \in Kinds PROVE New(k) \in Frame /\ New(k).kind = k /\ New(k).left > 0
  BY SchedulingAssumption DEF New, Frame

-----------------------------------------------------------------------------
\* The tasks that fill the queues.

\* A SUBMIT or a drain marker joins the send queue.
LEMMA SubmitQueued ==
    ASSUME WriterInv, NEW k \in {"submit", "marker"}, QueueSubmit(k)
    PROVE  WriterInv'
  <1>0. New(k) \in Frame /\ New(k).kind # "deliver"  BY NewFrame DEF Kinds
  <1>1. submitQ' \in Seq(Frame) /\ Len(submitQ') <= SubmitCap
    BY <1>0, AppendOf, SchedulingAssumption DEF QueueSubmit, WriterInv, TypeOK
  <1>2. TypeOK'
    BY <1>1 DEF QueueSubmit, WriterInv, TypeOK, ends, form, hist
  <1>3. SubmitQueueInv'
    BY <1>0, AppendOf DEF QueueSubmit, WriterInv, TypeOK, SubmitQueueInv
  <1> QED
    BY <1>2, <1>3 DEF QueueSubmit, WriterInv, LeastEmpty, PassedInBurst, PickEmpty, BatchBounded, LeastInv, LeastIs,
            LateInv, HeldInv, QueueInv, BatchLate, Delivers, TimeoutMeansLate, ends, form, hist

\* A frame joins the control queue with budget left.
LEMMA ControlQueued ==
    ASSUME WriterInv, NEW f \in Frame, f.kind = "deliver" => f.left > 0,
           Len(controlQ) < ControlCap, controlQ' = Append(controlQ, f), late' = late
    PROVE  controlQ' \in Seq(Frame) /\ Len(controlQ') <= ControlCap /\ QueueInv'
  <1>1. controlQ \in Seq(Frame)  BY DEF WriterInv, TypeOK
  <1>2. controlQ' \in Seq(Frame) /\ Len(controlQ') <= ControlCap
    BY <1>1, AppendOf, SchedulingAssumption
  <1>3. SUFFICES ASSUME NEW i \in DOMAIN controlQ',
                        controlQ'[i].kind = "deliver" /\ controlQ'[i].left <= 0
                 PROVE  late
    BY <1>2 DEF QueueInv
  <1>4. f.left \in Int  BY SchedulingAssumption DEF Frame
  <1>5. i \in DOMAIN controlQ /\ controlQ'[i] = controlQ[i]
    BY <1>1, <1>3, <1>4, AppendOf
  <1> QED  BY <1>3, <1>5 DEF WriterInv, LateInv, QueueInv

\* A control frame that is no DELIVER_RESP is queued.
LEMMA OtherQueued ==
    ASSUME WriterInv, NEW k \in {"plain", "openOnly"}, QueueControl(k)
    PROVE  WriterInv'
  <1>1. New(k) \in Frame /\ New(k).kind = k  BY NewFrame DEF Kinds
  <1>2. controlQ' \in Seq(Frame) /\ Len(controlQ') <= ControlCap /\ QueueInv'
    BY <1>1, ControlQueued DEF QueueControl, hist
  <1>3. TypeOK'
    BY <1>2 DEF QueueControl, WriterInv, TypeOK, ends, form, hist
  <1> QED
    BY <1>2, <1>3 DEF QueueControl, WriterInv, SubmitQueueInv, LeastEmpty, PassedInBurst, PickEmpty, BatchBounded,
       LeastInv, LeastIs,
            LateInv, HeldInv, BatchLate, Delivers, TimeoutMeansLate, ends, form, hist

\* The reader takes a DELIVER and its budget starts.
LEMMA DeliverReadInv ==
    ASSUME WriterInv, DeliverRead
    PROVE  WriterInv'
  <1>1. New("deliver") \in Frame /\ New("deliver").kind = "deliver" /\ New("deliver").left > 0
    BY NewFrame DEF Kinds
  <1>2. New("deliver").left \in Int  BY SchedulingAssumption DEF New
  <1>3. TypeOK'
    BY <1>1 DEF DeliverRead, WriterInv, TypeOK, ends, form, hist, queues
  <1>4. HeldInv'
    BY <1>1, <1>2 DEF DeliverRead, HeldInv
  <1> QED
    BY <1>3, <1>4 DEF DeliverRead, WriterInv, SubmitQueueInv, LeastEmpty, PassedInBurst, PickEmpty, BatchBounded,
       LeastInv, LeastIs,
            LateInv, QueueInv, BatchLate, Delivers, TimeoutMeansLate, ends, form, hist, queues

\* Its DELIVER_RESP is queued with what is left of the budget.
LEMMA DeliverQueueInv ==
    ASSUME WriterInv, DeliverQueue
    PROVE  WriterInv'
  <1>1. held \in Frame /\ held.left > 0  BY DEF DeliverQueue, WriterInv, TypeOK
  <1>2. controlQ' \in Seq(Frame) /\ Len(controlQ') <= ControlCap /\ QueueInv'
    BY <1>1, ControlQueued DEF DeliverQueue, hist
  <1>3. TypeOK'
    BY <1>2 DEF DeliverQueue, WriterInv, TypeOK, ends, form, hist
  <1> QED
    BY <1>2, <1>3 DEF DeliverQueue, WriterInv, SubmitQueueInv, LeastEmpty, PassedInBurst, PickEmpty, BatchBounded,
       LeastInv, LeastIs,
            LateInv, HeldInv, BatchLate, Delivers, TimeoutMeansLate, ends, form, hist

\* The budget ends while the DELIVER_RESP waits for the queue.
LEMMA DeliverTimeoutInv ==
    ASSUME WriterInv, DeliverTimeout
    PROVE  WriterInv'
  <1>1. late  BY DEF DeliverTimeout, WriterInv, LateInv, HeldInv
  <1>2. TypeOK'
    BY DEF DeliverTimeout, WriterInv, TypeOK, form, hist, queues
  <1> QED
    BY <1>1, <1>2 DEF DeliverTimeout, WriterInv, SubmitQueueInv, LeastEmpty, PassedInBurst, PickEmpty,
       BatchBounded, LeastInv, LeastIs,
            LateInv, HeldInv, QueueInv, BatchLate, Delivers, TimeoutMeansLate, form, hist, queues

-----------------------------------------------------------------------------
\* The writer puts a batch together.

\* A frame joins the batch.
LEMMA PushInv ==
    ASSUME WriterInv, Harvesting, NEW f \in Frame, Push(f), f.kind = "deliver" => f.left > 0,
           wpc' = "batch", late' = late,
           minLeft' = IF f.kind = "deliver" THEN Least(minLeft, f.left) ELSE minLeft
    PROVE  /\ batch' \in Seq(Frame) /\ bytes' \in Nat /\ minLeft' \in 1 .. Budget
           /\ PickEmpty' /\ BatchBounded' /\ LeastInv' /\ LeastEmpty' /\ BatchLate'
  <1>1. batch \in Seq(Frame) /\ bytes \in Nat /\ minLeft \in 1 .. Budget
    BY DEF WriterInv, TypeOK
  <1>2. f.left \in Int /\ f.left <= Budget /\ Budget \in Nat
    BY SchedulingAssumption DEF Frame
  <1>3. Len(batch) < MaxFrames /\ bytes < MaxBytes
    <2>1. CASE wpc = "pick"
      <3>1. batch = <<>> /\ bytes = 0  BY <2>1 DEF WriterInv, PickEmpty
      <3> QED  BY <3>1, SchedulingAssumption
    <2>2. CASE wpc = "batch" /\ ~BatchFull
      BY <2>2, <1>1, SchedulingAssumption DEF BatchFull
    <2> QED  BY <2>1, <2>2 DEF Harvesting
  <1>4. batch' \in Seq(Frame) /\ Len(batch') = Len(batch) + 1
    BY <1>1, AppendOf DEF Push
  <1>5. bytes' \in Nat /\ bytes' < MaxBytes + SubmitSize
    BY <1>1, <1>3, SchedulingAssumption DEF Push
  <1>6. BatchBounded'
    BY <1>1, <1>3, <1>4, <1>5, SchedulingAssumption DEF BatchBounded
  <1>7. minLeft' \in 1 .. Budget /\ minLeft' <= minLeft
    BY <1>1, <1>2 DEF Least
  <1>8. LeastIs(minLeft)
    BY DEF Harvesting, WriterInv, PickEmpty, LeastInv, LeastIs, Delivers
  <1>9. /\ DOMAIN batch' = DOMAIN batch \cup {Len(batch) + 1} /\ batch'[Len(batch) + 1] = f
        /\ \A i \in DOMAIN batch : batch'[i] = batch[i] /\ i # Len(batch) + 1
    BY <1>1, AppendOf DEF Push
  <1>10. Delivers' = Delivers \cup (IF f.kind = "deliver" THEN {Len(batch) + 1} ELSE {})
    BY <1>9 DEF Delivers
  <1>11. \A i \in Delivers : i \in DOMAIN batch /\ batch[i].left \in Int /\ batch[i].left <= Budget
    <2> SUFFICES ASSUME NEW i \in Delivers
                 PROVE  i \in DOMAIN batch /\ batch[i].left \in Int /\ batch[i].left <= Budget
      OBVIOUS
    <2>1. i \in DOMAIN batch  BY DEF Delivers
    <2>2. batch[i] \in Frame  BY <2>1, <1>1
    <2> QED  BY <2>1, <2>2, SchedulingAssumption DEF Frame
  <1>12. \A i \in Delivers' : batch'[i].left >= minLeft'
    BY <1>1, <1>2, <1>7, <1>8, <1>9, <1>10, <1>11 DEF LeastIs, Least
  <1>13. Delivers' # {} => \E i \in Delivers' : batch'[i].left = minLeft'
    <2>1. CASE f.kind # "deliver"
      BY <2>1, <1>8, <1>9, <1>10, <1>11 DEF LeastIs
    <2>2. CASE f.kind = "deliver" /\ minLeft' = f.left
      BY <2>2, <1>9, <1>10
    <2>3. CASE f.kind = "deliver" /\ minLeft' # f.left
      <3>1. minLeft' = minLeft /\ minLeft < f.left
        BY <2>3, <1>1, <1>2 DEF Least
      <3>2. wpc = "batch"
        BY <3>1, <1>2, <1>1 DEF Harvesting, WriterInv, PickEmpty
      <3>3. Delivers # {}
        BY <3>1, <3>2, <1>2 DEF WriterInv, LeastEmpty
      <3> QED  BY <3>1, <3>3, <1>8, <1>9, <1>10, <1>11 DEF LeastIs
    <2> QED  BY <2>1, <2>2, <2>3
  <1>14. LeastInv'
    BY <1>12, <1>13 DEF LeastInv, LeastIs
  <1>15. BatchLate'
    BY <1>7, <1>12, <1>11, <1>2, <1>9, <1>10 DEF BatchLate
  <1>16. LeastEmpty'
    BY <1>1, <1>10, <1>2 DEF LeastEmpty, WriterInv, Harvesting, PickEmpty
  <1> QED  BY <1>4, <1>5, <1>6, <1>7, <1>14, <1>15, <1>16 DEF PickEmpty

\* A frame is taken that does not join the batch.
LEMMA SkipInv ==
    ASSUME WriterInv, Harvesting, batch' = batch, bytes' = bytes, minLeft' = minLeft, late' = late,
           wpc' = "batch"
    PROVE  PickEmpty' /\ BatchBounded' /\ LeastInv' /\ LeastEmpty' /\ BatchLate'
  <1>1. PickEmpty' /\ BatchBounded' /\ LeastEmpty'
    BY DEF WriterInv, PickEmpty, BatchBounded, LeastEmpty, Delivers, Harvesting
  <1>2. CASE wpc = "pick"
    <2>1. Delivers' = {}  BY <1>2 DEF WriterInv, PickEmpty, Delivers
    <2> QED  BY <1>1, <2>1 DEF LeastInv, LeastIs, BatchLate
  <1>3. CASE wpc = "batch"
    BY <1>1, <1>3 DEF WriterInv, LateInv, LeastInv, LeastIs, BatchLate, Delivers
  <1> QED  BY <1>2, <1>3 DEF Harvesting

\* The writer takes a SUBMIT into the batch and resets the burst.
LEMMA WriterSubmitInv ==
    ASSUME WriterInv, WriterSubmit
    PROVE  WriterInv'
  <1> DEFINE f == Head(submitQ)
  <1>1. submitQ \in Seq(Frame) /\ submitQ # <<>> /\ Len(submitQ) <= SubmitCap
    BY DEF WriterSubmit, ServeSubmit, WriterInv, TypeOK
  <1>2. f \in Frame /\ f.kind # "deliver"
    BY <1>1, TailOf DEF WriterInv, SubmitQueueInv
  <1>3. submitQ' \in Seq(Frame) /\ Len(submitQ') <= SubmitCap
    BY <1>1, TailOf, SchedulingAssumption DEF WriterSubmit, TakeSubmit
  <1>4. SubmitQueueInv'
    <2>1. submitQ' = Tail(submitQ)  BY DEF WriterSubmit, TakeSubmit
    <2> QED  BY <2>1, <1>1, TailOf DEF WriterInv, SubmitQueueInv
  <1>5. burst' = 0 /\ passed' = 0 /\ wpc' = "batch" /\ last' = "submit" /\ late' = late /\ minLeft' = minLeft
        /\ phase' = phase /\ reason' = reason /\ controlQ' = controlQ /\ held' = held /\ wleft' = wleft
    BY DEF WriterSubmit, TakeSubmit, ends
  <1>6. drain' \in BOOLEAN /\ marker' \in BOOLEAN
    BY DEF WriterSubmit, TakeSubmit, ends, WriterInv, TypeOK
  <1>7. /\ batch' \in Seq(Frame) /\ bytes' \in Nat
        /\ PickEmpty' /\ BatchBounded' /\ LeastInv' /\ LeastEmpty' /\ BatchLate'
    <2>1. CASE f.kind = "marker"
      <3>1. batch' = batch /\ bytes' = bytes  BY <2>1 DEF WriterSubmit, TakeSubmit
      <3> QED  BY <3>1, <1>5, SkipInv DEF WriterSubmit, WriterInv, TypeOK
    <2>2. CASE f.kind # "marker"
      <3>1. Push(f)  BY <2>2 DEF WriterSubmit, TakeSubmit
      <3>2. Harvesting  BY DEF WriterSubmit
      <3> HIDE DEF f
      <3> QED  BY <3>1, <3>2, <1>2, <1>5, PushInv
    <2> QED  BY <2>1, <2>2
  <1>8. TypeOK'
    BY <1>3, <1>5, <1>6, <1>7, SchedulingAssumption DEF WriterInv, TypeOK
  <1> QED
    BY <1>4, <1>5, <1>7, <1>8 DEF WriterInv, PassedInBurst, LateInv, HeldInv, QueueInv, TimeoutMeansLate

\* The writer takes a control frame into the batch, within the burst.
LEMMA WriterControlInv ==
    ASSUME WriterInv, WriterControl
    PROVE  WriterInv'
  <1> DEFINE f == Head(controlQ)
  <1>1. controlQ \in Seq(Frame) /\ controlQ # <<>> /\ Len(controlQ) <= ControlCap
    BY DEF WriterControl, ServeControl, WriterInv, TypeOK
  <1>2. f \in Frame /\ (f.kind = "deliver" /\ f.left <= 0 => late)
    BY <1>1, TailOf DEF WriterInv, LateInv, QueueInv
  <1>3. controlQ' = Tail(controlQ) /\ submitQ' = submitQ /\ late' = late /\ last' = "control"
        /\ held' = held /\ wleft' = wleft /\ marker' = marker
    BY DEF WriterControl, TakeControl
  <1>4. controlQ' \in Seq(Frame) /\ Len(controlQ') <= ControlCap
    BY <1>1, <1>3, TailOf, SchedulingAssumption
  <1>5. QueueInv'
    BY <1>1, <1>3, TailOf DEF WriterInv, LateInv, QueueInv
  <1>6. burst' \in 0 .. BurstLimit /\ passed' \in 0 .. BurstLimit + 1 /\ passed' <= burst'
    <2>1. burst \in 0 .. BurstLimit /\ passed \in 0 .. BurstLimit + 1 /\ passed <= burst
      BY DEF WriterInv, TypeOK, PassedInBurst
    <2>2. burst' = Least(burst + 1, BurstLimit)
      BY DEF WriterControl, TakeControl
    <2>3. CASE CanSubmit /\ submitQ # <<>>
      <3>1. burst < BurstLimit
        BY <2>1, <2>3, <1>1, SchedulingAssumption DEF WriterControl, ServeControl, ServeSubmit
      <3>2. passed' = Least(passed + 1, BurstLimit + 1)
        BY <2>3 DEF WriterControl, TakeControl
      <3> QED  BY <3>1, <3>2, <2>1, <2>2, SchedulingAssumption DEF Least
    <2>4. CASE ~(CanSubmit /\ submitQ # <<>>)
      <3>1. passed' = passed
        BY <2>4 DEF WriterControl, TakeControl
      <3> QED  BY <3>1, <2>1, <2>2, SchedulingAssumption DEF Least
    <2> QED  BY <2>3, <2>4
  <1>7. CASE f.kind = "deliver" /\ f.left <= 0 /\ Fail("Timeout") /\ UNCHANGED <<batch, bytes, minLeft>>
    <2>1. late  BY <1>2, <1>7
    <2>2. TypeOK'
      BY <1>3, <1>4, <1>6, <1>7 DEF Fail, WriterInv, TypeOK
    <2> QED
      BY <2>1, <2>2, <1>3, <1>5, <1>6, <1>7
         DEF Fail, WriterInv, PassedInBurst, PickEmpty, BatchBounded, LeastInv, LeastEmpty, SubmitQueueInv,
             LateInv, HeldInv, BatchLate, TimeoutMeansLate
  <1>8. CASE /\ f.kind = "openOnly" /\ phase # "Open"
             /\ wpc' = "batch" /\ UNCHANGED <<ends, batch, bytes, minLeft>>
    <2>1. PickEmpty' /\ BatchBounded' /\ LeastInv' /\ LeastEmpty' /\ BatchLate'
      BY <1>3, <1>8, SkipInv DEF WriterControl
    <2>2. TypeOK'
      BY <1>3, <1>4, <1>6, <1>8 DEF WriterInv, TypeOK, ends
    <2> QED
      BY <2>1, <2>2, <1>3, <1>5, <1>6, <1>8
         DEF WriterInv, PassedInBurst, SubmitQueueInv, LateInv, HeldInv, TimeoutMeansLate, ends
  <1>9. CASE /\ ~(f.kind = "deliver" /\ f.left <= 0)
             /\ Push(f) /\ wpc' = "batch"
             /\ minLeft' = IF f.kind = "deliver" THEN Least(minLeft, f.left) ELSE minLeft
             /\ UNCHANGED ends
    <2>0. f.left \in Int  BY <1>2, SchedulingAssumption DEF Frame
    <2>1. Harvesting  BY DEF WriterControl
    <2>2. /\ batch' \in Seq(Frame) /\ bytes' \in Nat /\ minLeft' \in 1 .. Budget
          /\ PickEmpty' /\ BatchBounded' /\ LeastInv' /\ LeastEmpty' /\ BatchLate'
      <3> HIDE DEF f
      <3> QED  BY <2>0, <2>1, <1>2, <1>3, <1>9, PushInv
    <2>3. TypeOK'
      BY <2>2, <1>3, <1>4, <1>6, <1>9 DEF WriterInv, TypeOK, ends
    <2> QED
      BY <2>2, <2>3, <1>3, <1>5, <1>6, <1>9
         DEF WriterInv, PassedInBurst, SubmitQueueInv, LateInv, HeldInv, TimeoutMeansLate, ends
  <1> QED  BY <1>7, <1>8, <1>9 DEF WriterControl, TakeControl

-----------------------------------------------------------------------------
\* The batch is written.

\* The batch is handed to the socket under its smallest rest.
LEMMA WriterSendInv ==
    ASSUME WriterInv, WriterSend
    PROVE  WriterInv'
  <1> PICK S \in SUBSET {i \in DOMAIN batch : batch[i].kind = "submit"} :
          IF S = DOMAIN batch
          THEN /\ wpc' = "pick" /\ batch' = <<>> /\ bytes' = 0 /\ minLeft' = Budget
               /\ marker' = FALSE /\ drain' = (drain /\ ~marker) /\ UNCHANGED wleft
          ELSE /\ wpc' = "write" /\ batch' = Without(S) /\ wleft' = minLeft
               /\ UNCHANGED <<bytes, minLeft, marker, drain>>
    BY DEF WriterSend
  <1>1. wpc = "batch" /\ phase' = phase /\ reason' = reason /\ submitQ' = submitQ /\ controlQ' = controlQ
        /\ held' = held /\ burst' = burst /\ last' = last /\ passed' = passed /\ late' = late
    BY DEF WriterSend, queues, hist
  <1>2. drain' \in BOOLEAN /\ marker' \in BOOLEAN
    BY DEF WriterInv, TypeOK
  <1>3. SubmitQueueInv' /\ HeldInv' /\ QueueInv' /\ TimeoutMeansLate' /\ PassedInBurst'
    BY <1>1 DEF WriterInv, LateInv, SubmitQueueInv, HeldInv, QueueInv, TimeoutMeansLate, PassedInBurst
  <1>4. CASE S = DOMAIN batch
    <2>1. TypeOK'
      BY <1>1, <1>2, <1>4, SchedulingAssumption DEF WriterInv, TypeOK
    <2>2. BatchBounded'
      BY <1>4, SchedulingAssumption DEF BatchBounded
    <2> QED
      BY <2>1, <2>2, <1>3, <1>4 DEF WriterInv, PickEmpty, LeastInv, LeastEmpty, LateInv, BatchLate
  <1>5. CASE S # DOMAIN batch
    <2>1. batch \in Seq(Frame)  BY DEF WriterInv, TypeOK
    <2>2. New("void") \in Frame /\ New("void").kind = "void"  BY NewFrame DEF Kinds
    <2>3. batch' \in [DOMAIN batch -> Frame]
      BY <2>1, <2>2, <1>5 DEF Without
    <2>4. batch' \in Seq(Frame) /\ Len(batch') = Len(batch) /\ DOMAIN batch' = DOMAIN batch
      BY <2>1, <2>3, SameDomain
    <2>5. Delivers' = Delivers /\ \A i \in Delivers : batch'[i] = batch[i]
      BY <2>2, <2>4, <1>5 DEF Delivers, Without
    <2>6. minLeft \in 1 .. Budget /\ wleft' = minLeft /\ wpc' = "write" /\ bytes' = bytes /\ minLeft' = minLeft
      BY <1>5 DEF WriterInv, TypeOK
    <2>7. TypeOK'
      BY <2>4, <2>6, <1>1, <1>2, SchedulingAssumption DEF WriterInv, TypeOK
    <2>8. LeastInv'
      BY <2>5, <2>6, <1>1 DEF WriterInv, LeastInv, LeastIs
    <2>9. BatchLate'
      BY <2>5, <2>6, <1>1 DEF WriterInv, LateInv, BatchLate
    <2> QED
      BY <2>4, <2>6, <2>7, <2>8, <2>9, <1>3 DEF WriterInv, PickEmpty, BatchBounded, LeastEmpty, LateInv
  <1> QED  BY <1>4, <1>5

\* The write is over and a new batch begins.
LEMMA WriterDoneInv ==
    ASSUME WriterInv, WriterDone
    PROVE  WriterInv'
  <1>1. drain' \in BOOLEAN /\ marker' \in BOOLEAN
    BY DEF WriterDone, WriterInv, TypeOK
  <1>2. TypeOK'
    BY <1>1, SchedulingAssumption DEF WriterDone, WriterInv, TypeOK, queues, hist
  <1>3. BatchBounded'
    BY SchedulingAssumption DEF WriterDone, BatchBounded
  <1> QED
    BY <1>2, <1>3 DEF WriterDone, WriterInv, PassedInBurst, PickEmpty, LeastInv, LeastEmpty, SubmitQueueInv,
            LateInv, HeldInv, QueueInv, BatchLate, TimeoutMeansLate, queues, hist

\* A write that ran into its timer with a DELIVER_RESP aboard was late.
LEMMA WriterTimeoutInv ==
    ASSUME WriterInv, WriterTimeout
    PROVE  WriterInv'
  <1>1. HasBudget => late
    <2> SUFFICES ASSUME HasBudget PROVE late
      OBVIOUS
    <2>1. Delivers # {}  BY DEF HasBudget, Delivers
    <2>2. wpc = "write" /\ wleft = 0  BY DEF WriterTimeout
    <2>3. PICK i \in Delivers : batch[i].left = wleft
      BY <2>1, <2>2 DEF WriterInv, LeastInv, LeastIs
    <2> QED  BY <2>2, <2>3 DEF WriterInv, LateInv, BatchLate
  <1>2. TypeOK'
    BY DEF WriterTimeout, Fail, WriterInv, TypeOK, queues, form, hist
  <1>3. TimeoutMeansLate'
    BY <1>1 DEF WriterTimeout, Fail, TimeoutMeansLate, hist
  <1> QED
    BY <1>2, <1>3 DEF WriterTimeout, Fail, WriterInv, PassedInBurst, PickEmpty, BatchBounded, LeastInv,
            LeastEmpty, SubmitQueueInv, LateInv, HeldInv, QueueInv, BatchLate, queues, form, hist

\* The writer gives up: what it reports is what happened.
LEMMA WriterEndsInv ==
    ASSUME WriterInv, WriterError \/ WriterStop
    PROVE  WriterInv'
  <1>1. TypeOK'
    BY DEF WriterError, WriterStop, Fail, WriterInv, TypeOK, ends, queues, form, hist
  <1> QED
    BY <1>1 DEF WriterError, WriterStop, Fail, WriterInv, PassedInBurst, PickEmpty, BatchBounded, LeastInv,
            LeastEmpty, SubmitQueueInv, LateInv, HeldInv, QueueInv, BatchLate, TimeoutMeansLate,
            ends, queues, form, hist

-----------------------------------------------------------------------------
\* The rest of the connection.

\* Another task ends the connection.
LEMMA PhaseChangeInv ==
    ASSUME WriterInv, PhaseChange
    PROVE  WriterInv'
  <1>1. TypeOK'
    BY DEF PhaseChange, WriterInv, TypeOK, queues, form, hist
  <1> QED
    BY <1>1 DEF PhaseChange, WriterInv, PassedInBurst, PickEmpty, BatchBounded, LeastInv, LeastIs, LeastEmpty,
            SubmitQueueInv, LateInv, HeldInv, QueueInv, BatchLate, Delivers, TimeoutMeansLate, queues, form, hist

\* Time passes for every budget at once.
LEMMA TickInv ==
    ASSUME WriterInv, Tick
    PROVE  WriterInv'
  <1>1. /\ wpc' = wpc /\ phase' = phase /\ drain' = drain /\ reason' = reason /\ submitQ' = submitQ
        /\ burst' = burst /\ bytes' = bytes /\ minLeft' = minLeft /\ marker' = marker /\ last' = last
        /\ passed' = passed /\ wpc \in {"pick", "write"}
    BY DEF Tick, ends
  <1>2. late \in BOOLEAN /\ late' \in BOOLEAN /\ (late => late') /\ (Due(held) => late')
        /\ ((\E i \in DOMAIN controlQ : Due(controlQ[i])) => late')
        /\ ((\E i \in DOMAIN batch : Due(batch[i])) => late')
    BY DEF Tick, WriterInv, TypeOK
  <1>3. held' \in Frame \cup {NoFrame} /\ HeldInv'
    <2>1. held' = Aged(held)  BY DEF Tick
    <2>2. CASE held = NoFrame
      BY <2>1, <2>2 DEF Aged, NoFrame, HeldInv
    <2>3. CASE held # NoFrame
      <3>1. held \in Frame /\ held.kind = "deliver" /\ (held.left <= 0 => late)
        BY <2>3 DEF WriterInv, TypeOK, LateInv, HeldInv
      <3>2. /\ Aged(held) \in Frame /\ Aged(held).kind = "deliver"
            /\ Aged(held).left <= 0 => held.left <= 0 \/ Due(held)
        BY <3>1, AgedFrame
      <3> QED  BY <2>1, <3>1, <3>2, <1>2 DEF HeldInv
    <2> QED  BY <2>2, <2>3
  <1>4. controlQ' \in Seq(Frame) /\ Len(controlQ') = Len(controlQ) /\ QueueInv'
    <2>1. controlQ \in Seq(Frame) /\ controlQ' = [i \in DOMAIN controlQ |-> Aged(controlQ[i])]
      BY DEF Tick, WriterInv, TypeOK
    <2>2. \A i \in DOMAIN controlQ : controlQ[i] \in Frame
      BY <2>1
    <2>3. controlQ' \in [DOMAIN controlQ -> Frame]
      BY <2>1, <2>2, AgedFrame
    <2>4. controlQ' \in Seq(Frame) /\ Len(controlQ') = Len(controlQ) /\ DOMAIN controlQ' = DOMAIN controlQ
      BY <2>1, <2>3, SameDomain
    <2>5. ASSUME NEW i \in DOMAIN controlQ', controlQ'[i].kind = "deliver" /\ controlQ'[i].left <= 0
          PROVE  late'
      <3>1. i \in DOMAIN controlQ /\ controlQ[i] \in Frame /\ controlQ'[i] = Aged(controlQ[i])
        BY <2>1, <2>2, <2>4, <2>5
      <3>2. controlQ[i].kind = "deliver" /\ (controlQ[i].left <= 0 \/ Due(controlQ[i]))
        BY <3>1, <2>5, AgedFrame
      <3> QED  BY <3>1, <3>2, <1>2 DEF WriterInv, LateInv, QueueInv
    <2> QED  BY <2>4, <2>5 DEF QueueInv
  <1>5. batch' \in Seq(Frame) /\ Len(batch') = Len(batch) /\ Delivers' = Delivers
        /\ \A i \in DOMAIN batch : batch[i] \in Frame /\ batch'[i] = Aged(batch[i])
    <2>1. batch \in Seq(Frame) /\ batch' = [i \in DOMAIN batch |-> Aged(batch[i])]
      BY DEF Tick, WriterInv, TypeOK
    <2>2. \A i \in DOMAIN batch : batch[i] \in Frame
      BY <2>1
    <2>3. batch' \in [DOMAIN batch -> Frame]
      BY <2>1, <2>2, AgedFrame
    <2>4. batch' \in Seq(Frame) /\ Len(batch') = Len(batch) /\ DOMAIN batch' = DOMAIN batch
      BY <2>1, <2>3, SameDomain
    <2>5. Delivers' = Delivers
      BY <2>1, <2>2, <2>4, AgedFrame DEF Delivers
    <2> QED  BY <2>1, <2>2, <2>4, <2>5
  <1>6. wleft' \in 0 .. Budget /\ (wpc = "write" => wleft' = wleft - 1 /\ wleft > 0)
    BY SchedulingAssumption DEF Tick, WriterInv, TypeOK
  <1>7. PickEmpty'
    <2> SUFFICES ASSUME wpc = "pick" PROVE batch' = <<>> /\ bytes' = 0 /\ minLeft' = Budget
      BY <1>1 DEF PickEmpty
    <2>1. batch = <<>> /\ bytes = 0 /\ minLeft = Budget  BY DEF WriterInv, PickEmpty
    <2>2. batch' \in Seq(Frame) /\ Len(batch') = 0  BY <2>1, <1>5
    <2> QED  BY <2>1, <2>2, <1>1
  <1>8. ASSUME wpc = "write", NEW i \in Delivers
        PROVE  /\ batch[i].left \in Int /\ batch[i].left >= wleft /\ batch'[i].left = batch[i].left - 1
               /\ batch'[i].left <= 0 => late'
    <2>1. i \in DOMAIN batch /\ batch[i] \in Frame /\ batch'[i] = Aged(batch[i]) /\ batch[i].kind = "deliver"
      BY <1>5 DEF Delivers
    <2>2. batch[i].left >= wleft  BY <1>8 DEF WriterInv, LeastInv, LeastIs
    <2>3. batch[i].left \in Int  BY <2>1, SchedulingAssumption DEF Frame
    <2>4. wleft \in 0 .. Budget  BY DEF WriterInv, TypeOK
    <2>5. batch'[i].left = batch[i].left - 1
      BY <2>1, <2>2, <2>3, <2>4, AgedFrame, SchedulingAssumption
    <2>6. batch'[i].left <= 0 => Due(batch[i])
      BY <2>1, <2>3, <2>5 DEF Due
    <2> QED  BY <2>1, <2>2, <2>3, <2>5, <2>6, <1>2
  <1>9. LeastInv'
    <2> SUFFICES ASSUME wpc = "write" PROVE LeastIs(wleft)'
      BY <1>1 DEF LeastInv
    <2>1. \A i \in Delivers : batch'[i].left >= wleft'
      BY <1>6, <1>8 DEF WriterInv, TypeOK
    <2>2. Delivers # {} => \E i \in Delivers : batch'[i].left = wleft'
      BY <1>6, <1>8 DEF WriterInv, LeastInv, LeastIs
    <2> QED  BY <2>1, <2>2, <1>5 DEF LeastIs
  <1>10. BatchLate'
    <2> SUFFICES ASSUME NEW i \in Delivers, wpc = "write", batch'[i].left <= 0
                 PROVE  late'
      BY <1>1, <1>5 DEF BatchLate
    <2> QED  BY <1>8
  <1>11. TypeOK'
    BY <1>1, <1>2, <1>3, <1>4, <1>5, <1>6 DEF WriterInv, TypeOK
  <1> QED
    BY <1>1, <1>2, <1>3, <1>4, <1>5, <1>7, <1>9, <1>10, <1>11
       DEF WriterInv, PassedInBurst, BatchBounded, LeastEmpty, SubmitQueueInv, LateInv, TimeoutMeansLate

-----------------------------------------------------------------------------
\* The theorems.

\* Every step keeps the invariant.
LEMMA StepInv == WriterInv /\ [Next]_vars => WriterInv'
  <1> SUFFICES ASSUME WriterInv, [Next]_vars PROVE WriterInv'
    OBVIOUS
  <1>1. CASE UNCHANGED vars
    BY <1>1 DEF vars, ends, queues, form, hist, WriterInv, TypeOK, PassedInBurst, PickEmpty, BatchBounded,
            LeastInv, LeastIs, LeastEmpty, SubmitQueueInv, LateInv, HeldInv, QueueInv, BatchLate, Delivers,
            TimeoutMeansLate
  <1>2. CASE \E k \in {"submit", "marker"} : QueueSubmit(k)
    BY <1>2, SubmitQueued
  <1>3. CASE \E k \in {"plain", "openOnly"} : QueueControl(k)
    BY <1>3, OtherQueued
  <1>4. CASE DeliverRead \/ DeliverQueue \/ DeliverTimeout
    BY <1>4, DeliverReadInv, DeliverQueueInv, DeliverTimeoutInv
  <1>5. CASE WriterStep
    BY <1>5, WriterSubmitInv, WriterControlInv, WriterSendInv, WriterDoneInv, WriterTimeoutInv, WriterEndsInv
       DEF WriterStep
  <1>6. CASE PhaseChange \/ Tick
    BY <1>6, PhaseChangeInv, TickInv
  <1> QED  BY <1>1, <1>2, <1>3, <1>4, <1>5, <1>6 DEF Next

\* The invariant holds throughout.
LEMMA InvHolds == Spec => []WriterInv
  BY InitInv, StepInv, PTL DEF Spec

\* writer_task serves a SUBMIT after at most CONTROL_BURST_LIMIT control frames
\* and keeps both limits of a batch, across batches and whatever is skipped.
THEOREM BatchesFair == Spec => []BatchFair
  <1>1. WriterInv => BatchFair
    <2> SUFFICES ASSUME WriterInv PROVE BatchFair
      OBVIOUS
    <2>1. TypeOK /\ BatchBounded  BY DEF WriterInv
    <2>2. passed <= BurstLimit
      BY SchedulingAssumption DEF WriterInv, TypeOK, PassedInBurst
    <2> QED  BY <2>1, <2>2 DEF BatchFair, SubmitNotPassed
  <1> QED  BY <1>1, InvHolds, PTL

\* No DELIVER_RESP is in a write after its budget, and the connection ends
\* with Timeout only if the budget of one ran out.
THEOREM BudgetsHonest == Spec => []BudgetHonest
  <1>1. WriterInv => BudgetHonest
    <2> SUFFICES ASSUME WriterInv PROVE BudgetHonest
      OBVIOUS
    <2>1. TimeoutMeansLate  BY DEF WriterInv, LateInv
    <2>2. ASSUME wpc = "write", NEW i \in DOMAIN batch, batch[i].kind = "deliver"
          PROVE  batch[i].left >= 0
      <3>1. i \in Delivers  BY <2>2 DEF Delivers
      <3>2. batch[i].left >= wleft  BY <3>1, <2>2 DEF WriterInv, LeastInv, LeastIs
      <3>3. wleft \in 0 .. Budget /\ batch[i] \in Frame  BY <2>2 DEF WriterInv, TypeOK
      <3> QED  BY <3>2, <3>3, SchedulingAssumption DEF Frame
    <2> QED  BY <2>1, <2>2 DEF BudgetHonest, BudgetKept
  <1> QED  BY <1>1, InvHolds, PTL

-----------------------------------------------------------------------------
\* Heartbeat: the inductive invariant.

\* Heartbeats that were not started yet have left no trace.
Fresh == \A b \in Beats : (b > lastBeat \/ (b = lastBeat /\ hpc = "slot")) =>
            pend[b] = "absent" /\ att[b] = 0 /\ claims[b] = 0 /\ wrote[b] = 0 /\ b \notin answered

\* Only the last heartbeat can be outstanding, and never once it was answered.
OnlyLast == \A b \in Beats : pend[b] # "absent" => b = lastBeat /\ b \notin answered

\* While the task waits for a slot with a new heartbeat, none is outstanding.
SlotEmpty == hpc = "slot" => lastBeat > 0 /\ \A b \in Beats : pend[b] = "absent"

\* The state of an entry tells how many attempts were claimed and written.
Ledger == \A b \in Beats :
    /\ claims[b] <= att[b] /\ wrote[b] <= claims[b]
    /\ pend[b] = "Queued" => att[b] > 0 /\ claims[b] = att[b] - 1 /\ wrote[b] = claims[b]
    /\ pend[b] = "Writing" => att[b] > 0 /\ claims[b] = att[b] /\ wrote[b] = att[b] - 1
    /\ pend[b] = "Awaiting" => att[b] > 0 /\ wrote[b] = att[b]

\* What the writer holds is the current attempt, claimed and not yet written.
HandInv == /\ \A k \in wbatch \cup claimed : k.attempt = att[k.beat] /\ wrote[k.beat] < claims[k.beat]
           /\ wstep # "check" => claimed = {}

TimerInv == tpc \in {"act", "finish"} => tkey \in Key

BeatInv == TypeBeats /\ Fresh /\ OnlyLast /\ SlotEmpty /\ Ledger /\ HandInv /\ TimerInv

-----------------------------------------------------------------------------
\* It holds initially.
LEMMA BeatInit ==
    InitBeats => BeatInv
<1> SUFFICES ASSUME InitBeats PROVE BeatInv
  OBVIOUS
<1> USE HeartbeatAssumption DEF InitBeats
<1>1. TypeBeats
  BY DEF TypeBeats, Beats
<1>2. Fresh /\ OnlyLast /\ SlotEmpty /\ Ledger
  BY DEF Fresh, OnlyLast, SlotEmpty, Ledger
<1>3. HandInv /\ TimerInv
  BY DEF HandInv, TimerInv
<1> QED
  BY <1>1, <1>2, <1>3 DEF BeatInv

\* Every step keeps the invariant.
LEMMA BeatStep ==
    BeatInv /\ [NextBeats]_beatVars => BeatInv'
<1> SUFFICES ASSUME BeatInv, [NextBeats]_beatVars PROVE BeatInv'
  OBVIOUS
<1> USE HeartbeatAssumption DEF BeatInv, entry, ctl, beat, wtr, tmo, beatHist
<1>1. CASE HeartbeatTick
  <2>1. TypeBeats'
    BY <1>1 DEF HeartbeatTick, HasPending, Finish, TypeBeats
  <2>2. Fresh' /\ OnlyLast' /\ SlotEmpty'
    BY <1>1 DEF HeartbeatTick, HasPending, Finish, TypeBeats, Beats, Fresh, OnlyLast, SlotEmpty
  <2>3. Ledger'
    BY <1>1 DEF HeartbeatTick, HasPending, Finish, TypeBeats, Ledger
  <2>4. HandInv' /\ TimerInv'
    BY <1>1 DEF HeartbeatTick, HasPending, Finish, HandInv, TimerInv
  <2> QED
    BY <2>1, <2>2, <2>3, <2>4
<1>2. CASE HeartbeatQueue
  <2> DEFINE key == [beat |-> lastBeat, attempt |-> 1]
  <2>0. lastBeat \in Beats /\ key \in Key /\ hpc = "slot" /\ Room
    BY <1>2 DEF HeartbeatQueue, TypeBeats, SlotEmpty, Beats, Key
  <2>1. CASE connPhase = "Open" /\ ~HasPending
    <3> HIDE DEF key
    <3>1. /\ pend' = [pend EXCEPT ![lastBeat] = "Queued"] /\ att' = [att EXCEPT ![lastBeat] = 1]
          /\ queue' = Append(queue, key) /\ hpc' = "tick"
          /\ UNCHANGED <<connPhase, others, lastBeat, wtr, tmo, beatHist>>
      BY <1>2, <2>1 DEF HeartbeatQueue, key
    <3>2. queue' \in Seq(Key \cup {Other}) /\ Len(queue') <= QueueCap
      BY <2>0, <3>1 DEF TypeBeats, Room
    <3>3. TypeBeats'
      BY <2>0, <3>1, <3>2 DEF TypeBeats
    <3>4. /\ att[lastBeat] = 0 /\ claims[lastBeat] = 0 /\ wrote[lastBeat] = 0 /\ lastBeat \notin answered
          /\ \A b \in Beats : pend[b] = "absent"
      BY <2>0 DEF Fresh, SlotEmpty
    <3>5. Fresh' /\ OnlyLast' /\ SlotEmpty' /\ Ledger'
      BY <2>0, <3>1, <3>4 DEF TypeBeats, Beats, Fresh, OnlyLast, SlotEmpty, Ledger
    <3>6. HandInv' /\ TimerInv'
      BY <2>0, <3>1, <3>4 DEF TypeBeats, Key, HandInv, TimerInv
    <3> QED
      BY <3>3, <3>5, <3>6
  <2>2. CASE ~(connPhase = "Open" /\ ~HasPending)
    <3>1. /\ UNCHANGED <<connPhase, pend, att, queue, others, lastBeat, wtr, tmo, beatHist>>
          /\ hpc' \in {"tick", "done"}
      BY <1>2, <2>2 DEF HeartbeatQueue
    <3>2. TypeBeats' /\ Fresh' /\ OnlyLast' /\ SlotEmpty' /\ Ledger' /\ HandInv' /\ TimerInv'
      BY <3>1 DEF TypeBeats, Fresh, OnlyLast, SlotEmpty, Ledger, HandInv, TimerInv
    <3> QED
      BY <3>2
  <2> QED
    BY <2>1, <2>2
<1>3. CASE HeartbeatStop
  <2>1. TypeBeats'
    BY <1>3 DEF HeartbeatStop, Finish, TypeBeats
  <2>2. Fresh' /\ OnlyLast' /\ SlotEmpty'
    BY <1>3 DEF HeartbeatStop, Finish, TypeBeats, Beats, Fresh, OnlyLast, SlotEmpty
  <2>3. Ledger'
    BY <1>3 DEF HeartbeatStop, Finish, TypeBeats, Ledger
  <2>4. HandInv' /\ TimerInv'
    BY <1>3 DEF HeartbeatStop, Finish, HandInv, TimerInv
  <2> QED
    BY <2>1, <2>2, <2>3, <2>4
<1>4. CASE WriterPick
  <2>0. /\ wstep = "pick" /\ claimed = {} /\ queue # <<>> /\ queue' = Tail(queue)
        /\ UNCHANGED <<connPhase, att, others, beat, wbatch, tmo, wrote, answered>>
    BY <1>4 DEF WriterPick, HandInv
  <2>1. /\ queue' \in Seq(Key \cup {Other}) /\ Len(queue') <= QueueCap
        /\ Head(queue) # Other => Head(queue) \in Key
    BY <2>0 DEF TypeBeats
  <2>2. CASE Head(queue) # Other /\ Claimable(Head(queue))
    <3>1. PICK k \in Key : k = Head(queue)
      BY <2>1, <2>2
    <3>2. /\ pend' = [pend EXCEPT ![k.beat] = "Writing"]
          /\ claims' = [claims EXCEPT ![k.beat] = @ + 1]
          /\ wstep' = "check" /\ claimed' = {k}
      BY <1>4, <2>2, <3>1 DEF WriterPick
    <3>3. k.beat \in Beats /\ pend[k.beat] = "Queued" /\ att[k.beat] = k.attempt
      BY <2>2, <3>1 DEF Claimable, Key
    <3>4. TypeBeats'
      BY <2>0, <2>1, <3>2, <3>3 DEF TypeBeats
    <3>5. Fresh' /\ OnlyLast' /\ SlotEmpty'
      BY <2>0, <3>2, <3>3 DEF TypeBeats, Beats, Fresh, OnlyLast, SlotEmpty
    <3>6. Ledger'
      BY <2>0, <3>2, <3>3 DEF TypeBeats, Ledger
    <3>7. HandInv' /\ TimerInv'
      <4>1. claims'[k.beat] = att[k.beat] /\ wrote[k.beat] < claims'[k.beat]
        BY <3>2, <3>3 DEF TypeBeats, Ledger
      <4>2. \A j \in wbatch : j.beat \in Beats /\ claims[j.beat] <= claims'[j.beat]
        BY <3>2, <3>3 DEF TypeBeats, Key
      <4>3. \A j \in wbatch : j.attempt = att[j.beat] /\ wrote[j.beat] < claims'[j.beat]
        BY <4>2, <2>0, <3>2 DEF HandInv, TypeBeats
      <4> QED
        BY <2>0, <3>2, <3>3, <4>1, <4>3 DEF HandInv, TimerInv
    <3> QED
      BY <3>4, <3>5, <3>6, <3>7
  <2>3. CASE ~(Head(queue) # Other /\ Claimable(Head(queue)))
    <3>1. UNCHANGED <<pend, claims, wstep, claimed>>
      BY <1>4, <2>3 DEF WriterPick
    <3>2. TypeBeats' /\ Fresh' /\ OnlyLast' /\ SlotEmpty' /\ Ledger' /\ HandInv' /\ TimerInv'
      BY <2>0, <2>1, <3>1 DEF TypeBeats, Fresh, OnlyLast, SlotEmpty, Ledger, HandInv, TimerInv
    <3> QED
      BY <3>2
  <2> QED
    BY <2>2, <2>3
<1>5. CASE WriterCheck
  <2>1. TypeBeats'
    BY <1>5 DEF WriterCheck, TypeBeats
  <2>2. Fresh' /\ OnlyLast' /\ SlotEmpty'
    BY <1>5 DEF WriterCheck, TypeBeats, Beats, Fresh, OnlyLast, SlotEmpty
  <2>3. Ledger'
    BY <1>5 DEF WriterCheck, TypeBeats, Ledger
  <2>4. HandInv' /\ TimerInv'
    BY <1>5 DEF WriterCheck, HandInv, TimerInv
  <2> QED
    BY <2>1, <2>2, <2>3, <2>4
<1>6. CASE WriterBegin
  BY <1>6 DEF WriterBegin, TypeBeats, Fresh, OnlyLast, SlotEmpty, Ledger, HandInv, TimerInv
<1>7. CASE WriterComplete
  <2>0. /\ wstep' = "pick" /\ wbatch' = {} /\ claimed = {} /\ claimed' = {}
        /\ UNCHANGED <<connPhase, att, queue, others, hpc, lastBeat, tpc, tkey, claims, answered>>
    BY <1>7 DEF WriterComplete, HandInv
  <2>1. \A b \in Beats : \/ pend'[b] = pend[b]
                         \/ /\ pend[b] = "Writing" /\ pend'[b] = "Awaiting"
                            /\ wrote'[b] = wrote[b] + 1 /\ wrote[b] < claims[b]
    BY <1>7 DEF WriterComplete, HandInv, TypeBeats
  <2>2. \A b \in Beats : \/ wrote'[b] = wrote[b]
                         \/ wrote[b] < claims[b] /\ wrote'[b] = wrote[b] + 1
    BY <1>7 DEF WriterComplete, HandInv, TypeBeats
  <2>3. TypeBeats'
    BY <1>7, <2>0 DEF WriterComplete, TypeBeats
  <2>4. Fresh' /\ OnlyLast' /\ SlotEmpty'
    BY <2>0, <2>1, <2>2 DEF TypeBeats, Beats, Fresh, OnlyLast, SlotEmpty
  <2>5. \A b \in Beats : pend[b] \in {"Queued", "Awaiting"} => wrote'[b] = wrote[b]
    BY <2>2 DEF TypeBeats, Ledger
  <2>6. \A b \in Beats : pend'[b] = "Writing" => wrote'[b] = wrote[b]
    <3> SUFFICES ASSUME NEW b \in Beats, pend'[b] = "Writing" PROVE wrote'[b] = wrote[b]
      OBVIOUS
    <3>1. /\ pend'[b] = IF pend[b] = "Writing" /\ \E k \in wbatch : k.beat = b /\ k.attempt = att[b]
                       THEN "Awaiting" ELSE pend[b]
          /\ wrote'[b] = wrote[b] + IF \E k \in wbatch : k.beat = b THEN 1 ELSE 0
      BY <1>7 DEF WriterComplete
    <3>2. ~(\E k \in wbatch : k.beat = b)
      BY <3>1 DEF HandInv
    <3> QED
      BY <3>1, <3>2 DEF TypeBeats
  <2>7. Ledger'
    <3> SUFFICES ASSUME NEW b \in Beats
                 PROVE  /\ claims[b] <= att[b] /\ wrote'[b] <= claims[b]
                        /\ pend'[b] = "Queued" => att[b] > 0 /\ claims[b] = att[b] - 1 /\ wrote'[b] = claims[b]
                        /\ pend'[b] = "Writing" => att[b] > 0 /\ claims[b] = att[b] /\ wrote'[b] = att[b] - 1
                        /\ pend'[b] = "Awaiting" => att[b] > 0 /\ wrote'[b] = att[b]
      BY <2>0 DEF Ledger
    <3>1. att[b] \in Nat /\ claims[b] \in Nat /\ wrote[b] \in Nat
      BY DEF TypeBeats
    <3>2. CASE pend'[b] = pend[b]
      BY <2>2, <2>5, <2>6, <3>1, <3>2 DEF Ledger
    <3>3. CASE /\ pend[b] = "Writing" /\ pend'[b] = "Awaiting"
               /\ wrote'[b] = wrote[b] + 1 /\ wrote[b] < claims[b]
      BY <3>1, <3>3 DEF Ledger
    <3> QED
      BY <2>1, <3>2, <3>3
  <2>8. HandInv' /\ TimerInv'
    BY <2>0 DEF HandInv, TimerInv
  <2> QED
    BY <2>3, <2>4, <2>7, <2>8
<1>8. CASE WriterEnd
  BY <1>8 DEF WriterEnd, Finish, TypeBeats, Fresh, OnlyLast, SlotEmpty, Ledger, HandInv, TimerInv
<1>9. ASSUME NEW b \in Beats, Answer(b) PROVE BeatInv'
  <2>0. /\ pend' = [pend EXCEPT ![b] = "absent"] /\ answered' = answered \cup {b}
        /\ UNCHANGED <<connPhase, att, queue, others, hpc, lastBeat, wstep, claimed, wbatch, tpc, tkey, claims,
                     wrote>>
    BY <1>9 DEF Answer
  <2>1. TypeBeats'
    BY <2>0 DEF TypeBeats
  <2>2. claims[b] > 0
    BY <1>9 DEF Answer, TypeBeats, Ledger, HandInv
  <2>3. Fresh'
    BY <2>0, <2>2 DEF TypeBeats, Fresh
  <2>4. OnlyLast' /\ SlotEmpty'
    BY <2>0 DEF TypeBeats, OnlyLast, SlotEmpty
  <2>5. Ledger'
    BY <2>0 DEF TypeBeats, Ledger
  <2>6. HandInv' /\ TimerInv'
    BY <2>0 DEF HandInv, TimerInv
  <2> QED
    BY <2>1, <2>3, <2>4, <2>5, <2>6
<1>10. CASE QueueOther
  <2>1. queue' \in Seq(Key \cup {Other}) /\ Len(queue') <= QueueCap
    BY <1>10 DEF QueueOther, Room, TypeBeats
  <2>2. TypeBeats'
    BY <1>10, <2>1 DEF QueueOther, TypeBeats
  <2>3. Fresh' /\ OnlyLast' /\ SlotEmpty' /\ Ledger' /\ HandInv' /\ TimerInv'
    BY <1>10 DEF QueueOther, Fresh, OnlyLast, SlotEmpty, Ledger, HandInv, TimerInv
  <2> QED
    BY <2>2, <2>3
<1>11. CASE TimeoutScan
  <2>1. tkey' \in Key
    BY <1>11 DEF TimeoutScan, TypeBeats, Ledger, Key
  <2>2. TypeBeats'
    BY <1>11, <2>1 DEF TimeoutScan, TypeBeats
  <2>3. Fresh' /\ OnlyLast' /\ SlotEmpty' /\ Ledger' /\ HandInv' /\ TimerInv'
    BY <1>11, <2>1 DEF TimeoutScan, Fresh, OnlyLast, SlotEmpty, Ledger, HandInv, TimerInv
  <2> QED
    BY <2>2, <2>3
<1>12. CASE TimeoutExhausted
  <2>1. TypeBeats'
    BY <1>12 DEF TimeoutExhausted, Expired, TypeBeats
  <2>2. Fresh' /\ OnlyLast' /\ SlotEmpty'
    BY <1>12 DEF TimeoutExhausted, Expired, TypeBeats, Beats, Fresh, OnlyLast, SlotEmpty
  <2>3. Ledger'
    BY <1>12 DEF TimeoutExhausted, Expired, TypeBeats, Ledger
  <2>4. HandInv' /\ TimerInv'
    BY <1>12 DEF TimeoutExhausted, Expired, HandInv, TimerInv
  <2> QED
    BY <2>1, <2>2, <2>3, <2>4
<1>13. CASE TimeoutFinish
  BY <1>13 DEF TimeoutFinish, Finish, TypeBeats, Fresh, OnlyLast, SlotEmpty, Ledger, HandInv, TimerInv
<1>14. CASE TimeoutRetry
  <2>0. /\ tpc' = "scan" /\ tkey' = None /\ tkey \in Key /\ tkey.attempt < RetryCount
        /\ UNCHANGED <<connPhase, others, beat, wtr, beatHist>>
    BY <1>14 DEF TimeoutRetry, TimerInv
  <2>1. CASE Room /\ connPhase = "Open" /\ Expired(tkey)
    <3>1. PICK k \in Key : k = [tkey EXCEPT !.attempt = @ + 1]
      <4> DEFINE next == [beat |-> tkey.beat, attempt |-> tkey.attempt + 1]
      <4>1. tkey.beat \in Beats /\ tkey.attempt + 1 \in 1 .. RetryCount
        BY <2>0 DEF Key
      <4>2. next \in Key
        BY <4>1 DEF Key
      <4>3. next = [tkey EXCEPT !.attempt = @ + 1]
        BY <2>0 DEF Key
      <4> QED
        BY <4>2, <4>3
    <3>2. tkey.beat \in Beats /\ pend[tkey.beat] = "Awaiting" /\ att[tkey.beat] = tkey.attempt
      BY <2>0, <2>1 DEF Expired, Key
    <3>3. /\ pend' = [pend EXCEPT ![tkey.beat] = "Queued"]
          /\ att' = [att EXCEPT ![tkey.beat] = tkey.attempt + 1]
          /\ queue' = Append(queue, k)
      BY <1>14, <2>1, <3>1 DEF TimeoutRetry
    <3>4. queue' \in Seq(Key \cup {Other}) /\ Len(queue') <= QueueCap
      BY <2>1, <3>3 DEF TypeBeats, Room
    <3>5. att' \in [Beats -> 0 .. RetryCount]
      BY <2>0, <3>2, <3>3 DEF TypeBeats, Key
    <3>6. TypeBeats'
      BY <2>0, <3>2, <3>3, <3>4, <3>5 DEF TypeBeats
    <3>7. Fresh' /\ OnlyLast' /\ SlotEmpty'
      BY <2>0, <3>2, <3>3 DEF TypeBeats, Beats, Fresh, OnlyLast, SlotEmpty
    <3>8. Ledger'
      BY <2>0, <3>2, <3>3 DEF TypeBeats, Ledger
    <3>9. \A j \in wbatch \cup claimed : j.beat # tkey.beat
      BY <3>2 DEF TypeBeats, Ledger, HandInv
    <3>10. HandInv' /\ TimerInv'
      BY <2>0, <3>2, <3>3, <3>9 DEF TypeBeats, Key, HandInv, TimerInv
    <3> QED
      BY <3>6, <3>7, <3>8, <3>10
  <2>2. CASE ~(Room /\ connPhase = "Open" /\ Expired(tkey))
    <3>1. UNCHANGED <<entry, queue>>
      BY <1>14, <2>2 DEF TimeoutRetry
    <3>2. TypeBeats' /\ Fresh' /\ OnlyLast' /\ SlotEmpty' /\ Ledger' /\ HandInv' /\ TimerInv'
      BY <2>0, <3>1 DEF TypeBeats, Fresh, OnlyLast, SlotEmpty, Ledger, HandInv, TimerInv
    <3> QED
      BY <3>2
  <2> QED
    BY <2>1, <2>2
<1>15. CASE TimeoutStop
  BY <1>15 DEF TimeoutStop, Finish, TypeBeats, Fresh, OnlyLast, SlotEmpty, Ledger, HandInv, TimerInv
<1>16. CASE BeginClosing
  BY <1>16 DEF BeginClosing, TypeBeats, Fresh, OnlyLast, SlotEmpty, Ledger, HandInv, TimerInv
<1>17. CASE OtherFinish
  BY <1>17 DEF OtherFinish, Finish, TypeBeats, Fresh, OnlyLast, SlotEmpty, Ledger, HandInv, TimerInv
<1>18. CASE CleanupClear
  <2>1. TypeBeats'
    BY <1>18 DEF CleanupClear, TypeBeats
  <2>2. Fresh' /\ OnlyLast' /\ SlotEmpty'
    BY <1>18 DEF CleanupClear, TypeBeats, Beats, Fresh, OnlyLast, SlotEmpty
  <2>3. Ledger'
    BY <1>18 DEF CleanupClear, TypeBeats, Ledger
  <2>4. HandInv' /\ TimerInv'
    BY <1>18 DEF CleanupClear, HandInv, TimerInv
  <2> QED
    BY <2>1, <2>2, <2>3, <2>4
<1>19. CASE UNCHANGED beatVars
  BY <1>19 DEF beatVars, TypeBeats, Fresh, OnlyLast, SlotEmpty, Ledger, HandInv, TimerInv
<1> QED
  BY <1>1, <1>2, <1>3, <1>4, <1>5, <1>6, <1>7, <1>8, <1>9, <1>10, <1>11, <1>12, <1>13, <1>14, <1>15, <1>16, <1>17,
     <1>18, <1>19 DEF NextBeats, Writer, Timeouts

\* The inductive invariant holds throughout.
LEMMA BeatInvariant ==
    Safety => []BeatInv
BY BeatInit, BeatStep, PTL DEF Safety

-----------------------------------------------------------------------------
\* Never are two heartbeats outstanding, for any retry count and queue: the
\* check of heartbeat_task before it waits for a slot is enough.
THEOREM OneHeartbeatOutstanding ==
    Safety => []OneOutstanding
<1>1. BeatInv => OneOutstanding
  <2> SUFFICES ASSUME BeatInv PROVE OneOutstanding
    OBVIOUS
  <2> DEFINE S == {b \in Beats : pend[b] # "absent"}
  <2>1. S \subseteq {lastBeat}
    BY DEF BeatInv, OnlyLast
  <2>2. IsFiniteSet({lastBeat}) /\ Cardinality({lastBeat}) = 1
    BY FS_Singleton
  <2>3. Cardinality(S) <= Cardinality({lastBeat})
    BY <2>1, <2>2, FS_Subset
  <2> QED
    BY <2>2, <2>3 DEF OneOutstanding
<1> QED
  BY <1>1, BeatInvariant, PTL

\* claim_heartbeat_attempt lets every attempt through once.
THEOREM AttemptsClaimedOnce ==
    Safety => []ClaimedOnce
<1>1. BeatInv => ClaimedOnce
  BY DEF BeatInv, Ledger, ClaimedOnce
<1> QED
  BY <1>1, BeatInvariant, PTL

\* Whatever answer races with the timeout task, the connection is given up only
\* for a heartbeat that was written retry_count times and is unanswered.
THEOREM GivenUpUnanswered ==
    Safety => ExhaustedUnanswered
<1>1. ASSUME BeatInv, [NextBeats]_beatVars
      PROVE  [tpc # "finish" /\ tpc' = "finish" =>
                 tkey.beat \notin answered /\ wrote[tkey.beat] = RetryCount]_beatVars
  <2> SUFFICES ASSUME NextBeats, tpc # "finish", tpc' = "finish"
               PROVE  tkey.beat \notin answered /\ wrote[tkey.beat] = RetryCount
    BY <1>1
  <2>1. TimeoutExhausted
    BY DEF NextBeats, Writer, Timeouts, HeartbeatTick, HeartbeatQueue, HeartbeatStop, WriterPick,
       WriterCheck,
       WriterBegin, WriterComplete, WriterEnd, Answer, QueueOther, TimeoutScan, TimeoutFinish,
       TimeoutRetry, TimeoutStop, BeginClosing, OtherFinish, CleanupClear, tmo
  <2>2. tkey \in Key /\ Expired(tkey) /\ tkey.attempt >= RetryCount
    BY <1>1, <2>1 DEF TimeoutExhausted, BeatInv, TimerInv
  <2>3. tkey.beat \in Beats /\ tkey.attempt = RetryCount
    BY <2>2, HeartbeatAssumption DEF Key
  <2> QED
    BY <1>1, <2>2, <2>3 DEF BeatInv, Expired, OnlyLast, Ledger
<1> QED
  BY <1>1, BeatInvariant, PTL DEF Safety, ExhaustedUnanswered

\* A heartbeat that was answered is never written again.
THEOREM AnsweredNeverResent ==
    Safety => NoResendAfterAnswer
<1>1. ASSUME BeatInv, [NextBeats]_beatVars
      PROVE  [\A b \in answered : claims'[b] = claims[b]]_beatVars
  <2> SUFFICES ASSUME NextBeats, NEW b \in answered PROVE claims'[b] = claims[b]
    BY <1>1
  <2>1. CASE WriterPick
    <3>1. b \in Beats /\ pend[b] = "absent"
      BY <1>1 DEF BeatInv, TypeBeats, OnlyLast
    <3> QED
      BY <1>1, <2>1, <3>1 DEF WriterPick, Claimable, BeatInv, TypeBeats
  <2>2. CASE ~WriterPick
    BY <2>2 DEF NextBeats, Writer, Timeouts, HeartbeatTick, HeartbeatQueue, HeartbeatStop, WriterCheck,
       WriterBegin, WriterComplete, WriterEnd, Answer, QueueOther, TimeoutScan, TimeoutExhausted,
       TimeoutFinish, TimeoutRetry, TimeoutStop, BeginClosing, OtherFinish, CleanupClear, beatHist
  <2> QED
    BY <2>1, <2>2
<1> QED
  BY <1>1, BeatInvariant, PTL DEF Safety, NoResendAfterAnswer

\* AnswerHonoured: whatever an answer races with, once it is processed its
\* heartbeat is neither written again nor what the connection is given up for.
THEOREM AnswersHonoured ==
    Safety => AnswerHonoured
BY GivenUpUnanswered, AnsweredNeverResent DEF AnswerHonoured
=============================================================================
