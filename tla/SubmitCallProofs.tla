-------------------------- MODULE SubmitCallProofs --------------------------
(***************************************************************************)
(* What submit() reports, how long a UDH reference stays taken, and where  *)
(* permits and ids are, for any number of calls, segments, permits, slots  *)
(* and references.                                                         *)
(***************************************************************************)
EXTENDS SubmitCall, FiniteSetTheorems, TLAPS

-----------------------------------------------------------------------------
\* The inductive invariant, call by call.

Early == {"start", "batch", "ref", "ids"}
Loop  == {"window", "lease", "slot", "admit"}
Late  == {"leases", "unref", "unbatch", "over"}

\* The types the argument needs.
CallTypes ==
    /\ phase \in {"Open", "Closing", "Closed"}
    /\ pc \in [Calls -> Early \cup Loop \cup Late] /\ at \in [Calls -> Nat \ {0}]
    /\ result \in [Calls -> {"none", "ok", "partial", "refused", "cancelled"}]
    /\ ids \in [Calls -> SUBSET Nat]
    /\ ref \in [Calls -> {"none", "held", "cooling", "free"}] /\ exposed \in [Calls -> BOOLEAN]
    /\ entry \subseteq queued /\ queued \subseteq Pairs

\* The segments of the call that were queued.
Sent(c) == {k \in 1 .. Segments[c] : <<c, k>> \in queued}

\* They are those before the one in work, and a result says how far it got.
Report(c) ==
    /\ ids[c] = Sent(c) /\ Sent(c) = 1 .. at[c] - 1
    /\ pc[c] \in Early => at[c] = 1
    /\ pc[c] \in Loop => at[c] <= Segments[c]
    /\ pc[c] \notin Late => result[c] = "none"
    /\ result[c] = "ok" => at[c] = Segments[c] + 1
    /\ result[c] = "refused" => at[c] = 1
    /\ result[c] = "partial" => Down

\* A long message has its reference from before the loop until its locals and
\* its entries are gone, and marked it with the first frame.
Reference(c) ==
    /\ pc[c] \in {"start", "batch", "ref"} => ref[c] = "none"
    /\ ref[c] # "none" => Segments[c] > 1
    /\ Segments[c] > 1 /\ pc[c] \in {"ids"} \cup Loop => ref[c] = "held"
    /\ Segments[c] > 1 /\ entry \cap Own(c) # {} => ref[c] = "held"
    /\ Segments[c] > 1 /\ queued \cap Own(c) # {} => exposed[c] = TRUE

CallInv == CallTypes /\ \A c \in Calls : Report(c) /\ Reference(c)

-----------------------------------------------------------------------------

\* Before any call starts the invariant holds.
LEMMA InitInv == Init => CallInv
  <1> SUFFICES ASSUME Init PROVE CallInv
    OBVIOUS
  <1>1. CallTypes
    BY DEF Init, CallTypes, Early
  <1>2. ASSUME NEW c \in Calls PROVE Report(c) /\ Reference(c)
    <2>1. Sent(c) = {}  BY DEF Init, Sent
    <2> QED  BY <2>1, CallAssumption DEF Init, Report, Reference, Early, Loop, Late
  <1> QED  BY <1>1, <1>2 DEF CallInv

\* A step that queues nothing and concludes nothing: the invariant of a call
\* rests on what the step leaves alone.
LEMMA QuietReport ==
    ASSUME CallInv, NEW c \in Calls, NEW step \in Early \cup Loop \cup Late, NEW what,
           what \in {"none", "ok", "partial", "refused", "cancelled"},
           pc' = [pc EXCEPT ![c] = step], result' = [result EXCEPT ![c] = what],
           UNCHANGED <<at, ids, entry, exposed, queued>>,
           phase' \in {"Open", "Closing", "Closed"}, Down => Down',
           step \in Early => at[c] = 1, step \in Loop => at[c] <= Segments[c],
           step \notin Late => what = "none",
           what = "ok" => at[c] = Segments[c] + 1, what = "refused" => at[c] = 1,
           what = "partial" => Down'
    PROVE  \A d \in Calls : Report(d)'
  <1> SUFFICES ASSUME NEW d \in Calls PROVE Report(d)'
    OBVIOUS
  <1>1. Report(d) /\ Sent(d)' = Sent(d)  BY DEF CallInv, Sent
  <1>2. CASE d = c
    BY <1>1, <1>2 DEF Report, CallInv, CallTypes
  <1>3. CASE d # c
    BY <1>1, <1>3 DEF Report, CallInv, CallTypes
  <1> QED  BY <1>2, <1>3

\* ... its types do too,
LEMMA QuietTypes ==
    ASSUME CallInv, NEW c \in Calls, NEW step \in Early \cup Loop \cup Late, NEW what,
           what \in {"none", "ok", "partial", "refused", "cancelled"},
           pc' = [pc EXCEPT ![c] = step], result' = [result EXCEPT ![c] = what],
           UNCHANGED <<at, ids, entry, exposed, queued>>,
           phase' \in {"Open", "Closing", "Closed"},
           ref' \in [Calls -> {"none", "held", "cooling", "free"}]
    PROVE  CallTypes'
  BY DEF CallInv, CallTypes

\* ... and it leaves the reference alone as well.
LEMMA QuietReference ==
    ASSUME CallInv, NEW c \in Calls, NEW step \in Early \cup Loop \cup Late,
           pc' = [pc EXCEPT ![c] = step], UNCHANGED <<entry, exposed, queued, ref>>,
           step \in {"start", "batch", "ref"} => ref[c] = "none",
           step \in {"ids"} \cup Loop => pc[c] \in {"ids"} \cup Loop \/ Segments[c] = 1
    PROVE  \A d \in Calls : Reference(d)'
  <1> SUFFICES ASSUME NEW d \in Calls PROVE Reference(d)'
    OBVIOUS
  <1>1. Reference(d) /\ Own(d)' = Own(d)  BY DEF CallInv, Own
  <1>2. CASE d = c
    BY <1>1, <1>2 DEF Reference, CallInv, CallTypes
  <1>3. CASE d # c
    BY <1>1, <1>3 DEF Reference, CallInv, CallTypes
  <1> QED  BY <1>2, <1>3

\* A step forward with no result yet.
LEMMA Forward ==
    ASSUME CallInv, NEW c \in Calls, NEW step \in Early \cup Loop, pc[c] \in Early \cup Loop,
           Goto(c, step), UNCHANGED <<phase, receiver, at, result, ids, entry, ref, exposed, queued>>,
           step \in Early => at[c] = 1, step \in Loop => at[c] <= Segments[c],
           step \in {"start", "batch", "ref"} => ref[c] = "none",
           step \in {"ids"} \cup Loop => pc[c] \in {"ids"} \cup Loop \/ Segments[c] = 1
    PROVE  CallInv'
  <1>1. result[c] = "none" /\ result' = [result EXCEPT ![c] = "none"] /\ pc' = [pc EXCEPT ![c] = step]
    BY DEF CallInv, CallTypes, Report, Early, Loop, Late, Goto
  <1>2. step \in Early \cup Loop \cup Late
    OBVIOUS
  <1>3. phase' = phase /\ phase \in {"Open", "Closing", "Closed"} /\ Down' = Down
        /\ ref' \in [Calls -> {"none", "held", "cooling", "free"}]
    BY DEF CallInv, CallTypes, Down
  <1>4. CallTypes'
    BY <1>1, <1>2, <1>3, QuietTypes
  <1>5. \A d \in Calls : Report(d)'
    BY <1>1, <1>2, <1>3, QuietReport
  <1>6. \A d \in Calls : Reference(d)'
    BY <1>1, <1>2, QuietReference
  <1> QED  BY <1>4, <1>5, <1>6 DEF CallInv

\* A step out of the call with this result.
LEMMA Leaving ==
    ASSUME CallInv, NEW c \in Calls, NEW what \in {"partial", "refused", "cancelled"}, Leave(c, what),
           UNCHANGED <<entry, ref, exposed, queued>>,
           phase' \in {"Open", "Closing", "Closed"}, Down => Down',
           what = "refused" => at[c] = 1, what = "partial" => Down'
    PROVE  CallInv'
  <1>1. /\ pc' = [pc EXCEPT ![c] = "leases"] /\ result' = [result EXCEPT ![c] = what]
        /\ "leases" \in Late /\ "leases" \notin Early \cup Loop /\ UNCHANGED <<at, ids>>
        /\ what \in {"none", "ok", "partial", "refused", "cancelled"} /\ what # "ok"
    BY DEF Leave, Goto, Early, Loop, Late
  <1>2. ref' \in [Calls -> {"none", "held", "cooling", "free"}]
    BY DEF CallInv, CallTypes
  <1>3. CallTypes'
    BY <1>1, <1>2, QuietTypes
  <1>4. \A d \in Calls : Report(d)'
    BY <1>1, QuietReport
  <1>5. \A d \in Calls : Reference(d)'
    BY <1>1, QuietReference DEF Early
  <1> QED  BY <1>3, <1>4, <1>5 DEF CallInv

-----------------------------------------------------------------------------
\* submit(), up to the loop.

\* The checks on entry: nothing is taken yet.
LEMMA StartInv == ASSUME CallInv, NEW c \in Calls, Start(c) PROVE CallInv'
  <1>1. pc[c] = "start" /\ at[c] = 1 /\ ref[c] = "none"
    BY DEF Start, In, CallInv, Report, Reference, Early
  <1>2. CASE Refuse(c) /\ UNCHANGED phase
    BY <1>1, <1>2, Leaving DEF Refuse, CallInv, CallTypes, Down
  <1>3. CASE /\ Goto(c, IF c \in Manual THEN "batch" ELSE "ref")
             /\ UNCHANGED <<phase, receiver, at, result, ids, entry, ref, exposed, queued>>
    <2>1. (IF c \in Manual THEN "batch" ELSE "ref") \in {"batch", "ref"}  OBVIOUS
    <2> QED  BY <1>1, <1>3, <2>1, Forward DEF Early, Loop
  <1> QED  BY <1>2, <1>3 DEF Start

\* A permit of the manual batches is no part of a report.
LEMMA AwaitBatchInv == ASSUME CallInv, NEW c \in Calls, AwaitBatch(c) PROVE CallInv'
  <1>1. pc[c] = "batch" /\ at[c] = 1 /\ ref[c] = "none"
    BY DEF AwaitBatch, In, CallInv, Report, Reference, Early
  <1>2. CASE Refuse(c) /\ UNCHANGED phase
    BY <1>1, <1>2, Leaving DEF Refuse, CallInv, CallTypes, Down
  <1>3. CASE Goto(c, "ref") /\ UNCHANGED <<phase, receiver, at, result, ids, entry, ref, exposed, queued>>
    BY <1>1, <1>3, Forward DEF Early, Loop
  <1> QED  BY <1>2, <1>3 DEF AwaitBatch

\* The reference is taken: of this call nothing was queued yet.
LEMMA AcquireReferenceInv == ASSUME CallInv, NEW c \in Calls, AcquireReference(c) PROVE CallInv'
  <1>1. pc[c] = "ref" /\ at[c] = 1 /\ ref[c] = "none" /\ UNCHANGED phase
    BY DEF AcquireReference, In, CallInv, Report, Reference, Early
  <1>2. CASE Refuse(c)
    BY <1>1, <1>2, Leaving DEF Refuse, CallInv, CallTypes, Down
  <1>3. CASE /\ Goto(c, "ids") /\ ref' = IF Segments[c] > 1 THEN [ref EXCEPT ![c] = "held"] ELSE ref
             /\ UNCHANGED <<receiver, at, result, ids, entry, exposed, queued>>
    <2>1. pc' = [pc EXCEPT ![c] = "ids"] /\ "ids" \in Early /\ "ids" \notin Loop \cup Late
      BY <1>3 DEF Goto, Early, Loop, Late
    <2>2. result[c] = "none" /\ result' = [result EXCEPT ![c] = "none"]
      BY <1>1, <1>3 DEF CallInv, CallTypes, Report, Late
    <2>3. ref' \in [Calls -> {"none", "held", "cooling", "free"}]
      BY <1>3 DEF CallInv, CallTypes
    <2>4. CallTypes'
      BY <1>1, <1>3, <2>1, <2>2, <2>3, QuietTypes DEF CallInv, CallTypes
    <2>5. \A d \in Calls : Report(d)'
      BY <1>1, <1>3, <2>1, <2>2, QuietReport DEF CallInv, CallTypes, Down
    <2>6. ASSUME NEW d \in Calls PROVE Reference(d)'
      <3>1. Reference(d) /\ Own(d)' = Own(d) /\ Segments[d] \in Nat \ {0}
        BY CallAssumption DEF CallInv, Own
      <3>2. CASE d = c
        BY <1>1, <1>3, <2>1, <3>1, <3>2 DEF Reference, CallInv, CallTypes
      <3>3. CASE d # c
        BY <1>3, <2>1, <3>1, <3>3 DEF Reference, CallInv, CallTypes
      <3> QED  BY <3>2, <3>3
    <2> QED  BY <2>4, <2>5, <2>6 DEF CallInv
  <1> QED  BY <1>2, <1>3 DEF AcquireReference

\* The loop starts at the first segment.
LEMMA ReserveIdsInv == ASSUME CallInv, NEW c \in Calls, ReserveIds(c) PROVE CallInv'
  <1>1. pc[c] = "ids" /\ at[c] = 1 /\ 1 <= Segments[c] /\ UNCHANGED phase
    BY CallAssumption DEF ReserveIds, In, CallInv, Report, Early
  <1>2. CASE Refuse(c)
    BY <1>1, <1>2, Leaving DEF Refuse, CallInv, CallTypes, Down
  <1>3. CASE Goto(c, "window") /\ UNCHANGED <<receiver, at, result, ids, entry, ref, exposed, queued>>
    BY <1>1, <1>3, Forward DEF Early, Loop
  <1> QED  BY <1>2, <1>3 DEF ReserveIds

-----------------------------------------------------------------------------
\* One segment.

\* PartialSubmit, with a connection that is not Open or lost its writer.
LEMMA FailInv ==
    ASSUME CallInv, NEW c \in Calls, NEW permit, Fail(c, permit),
           phase' \in {"Open", "Closing", "Closed"}, Down'
    PROVE  CallInv'
  BY Leaving DEF Fail

\* Waiting for the window: a permit, or PartialSubmit after the phase changed.
LEMMA AwaitWindowInv == ASSUME CallInv, NEW c \in Calls, AwaitWindow(c) PROVE CallInv'
  <1>1. pc[c] = "window" /\ at[c] <= Segments[c]
    BY DEF AwaitWindow, In, CallInv, Report, Loop
  <1>2. CASE phase # "Open" /\ Fail(c, 0) /\ UNCHANGED phase
    BY <1>2, FailInv DEF CallInv, CallTypes, Down
  <1>3. CASE Goto(c, "lease") /\ UNCHANGED <<phase, receiver, at, result, ids, entry, ref, exposed, queued>>
    BY <1>1, <1>3, Forward DEF Early, Loop
  <1> QED  BY <1>2, <1>3 DEF AwaitWindow

\* Without an id left the connection is finished before PartialSubmit.
LEMMA TakeIdInv == ASSUME CallInv, NEW c \in Calls, TakeId(c) PROVE CallInv'
  <1>1. pc[c] = "lease" /\ at[c] <= Segments[c]
    BY DEF TakeId, In, CallInv, Report, Loop
  <1>2. CASE Fail(c, 1) /\ Finish
    BY <1>2, FailInv DEF Finish, Down
  <1>3. CASE Goto(c, "slot") /\ UNCHANGED <<phase, receiver, at, result, ids, entry, ref, exposed, queued>>
    BY <1>1, <1>3, Forward DEF Early, Loop
  <1> QED  BY <1>2, <1>3 DEF TakeId

\* Waiting for a slot: as for the window, or nobody will ever make room.
LEMMA AwaitSlotInv == ASSUME CallInv, NEW c \in Calls, AwaitSlot(c) PROVE CallInv'
  <1>1. pc[c] = "slot" /\ at[c] <= Segments[c]
    BY DEF AwaitSlot, In, CallInv, Report, Loop
  <1>2. CASE Down /\ Fail(c, 1) /\ UNCHANGED phase
    BY <1>2, FailInv DEF Fail, CallInv, CallTypes, Down
  <1>3. CASE Goto(c, "admit") /\ UNCHANGED <<phase, receiver, at, result, ids, entry, ref, exposed, queued>>
    BY <1>1, <1>3, Forward DEF Early, Loop
  <1> QED  BY <1>2, <1>3 DEF AwaitSlot, Down

\* A dropped future reports nothing and queues nothing.
LEMMA CancelInv == ASSUME CallInv, NEW c \in Calls, Cancel(c) PROVE CallInv'
  BY Leaving DEF Cancel, CallInv, CallTypes, Down

\* The frame is queued: the segment in work joins those before it.
LEMMA InsertInv ==
    ASSUME CallInv, NEW c \in Calls, pc[c] = "admit", Insert(c),
           exposed' = [exposed EXCEPT ![c] = (ref[c] = "held")]
    PROVE  CallInv'
  <1>1. /\ at[c] \in Nat \ {0} /\ Segments[c] \in Nat \ {0} /\ at[c] <= Segments[c]
        /\ result[c] = "none" /\ ids[c] = Sent(c) /\ Sent(c) = 1 .. at[c] - 1
    BY CallAssumption DEF CallInv, CallTypes, Report, Loop, Late
  <1>2. /\ phase' = phase /\ Down' = Down /\ ref' = ref /\ ids' = [ids EXCEPT ![c] = @ \cup {at[c]}]
        /\ at' = [at EXCEPT ![c] = @ + 1] /\ entry' = entry \cup {<<c, at[c]>>}
        /\ queued' = queued \cup {<<c, at[c]>>}
    BY DEF Insert, Pushed, Here, Down
  <1>3. \/ /\ at[c] = Segments[c] /\ pc' = [pc EXCEPT ![c] = "leases"]
           /\ result' = [result EXCEPT ![c] = "ok"]
        \/ /\ at[c] # Segments[c] /\ pc' = [pc EXCEPT ![c] = "window"] /\ result' = result
    BY DEF Insert, Pushed, Goto
  <1>4. <<c, at[c]>> \in Own(c) /\ Own(c) \subseteq Pairs
    BY <1>1 DEF Own, Pairs
  <1>5. CallTypes'
    <2>1. entry' \subseteq queued' /\ queued' \subseteq Pairs'
      BY <1>2, <1>4 DEF CallInv, CallTypes, Pairs, Own
    <2>2. at' \in [Calls -> Nat \ {0}] /\ ids' \in [Calls -> SUBSET Nat]
      BY <1>1, <1>2 DEF CallInv, CallTypes
    <2>3. /\ pc' \in [Calls -> Early \cup Loop \cup Late]
          /\ result' \in [Calls -> {"none", "ok", "partial", "refused", "cancelled"}]
      BY <1>3 DEF CallInv, CallTypes, Early, Loop, Late
    <2>4. exposed' \in [Calls -> BOOLEAN]
      BY DEF CallInv, CallTypes
    <2> QED  BY <1>2, <2>1, <2>2, <2>3, <2>4 DEF CallInv, CallTypes
  <1>6. ASSUME NEW d \in Calls PROVE Report(d)'
    <2>1. CASE d = c
      <3>1. Sent(c)' = Sent(c) \cup {at[c]}
        BY <1>1, <1>2 DEF Sent
      <3>2. ids'[c] = Sent(c)' /\ at'[c] = at[c] + 1 /\ Sent(c)' = 1 .. at'[c] - 1
        BY <1>1, <1>2, <3>1 DEF CallInv, CallTypes
      <3>3. \/ at[c] = Segments[c] /\ pc'[c] = "leases" /\ result'[c] = "ok"
            \/ at[c] # Segments[c] /\ pc'[c] = "window" /\ result'[c] = "none"
        BY <1>1, <1>3 DEF CallInv, CallTypes
      <3> QED  BY <1>1, <2>1, <3>2, <3>3 DEF Report, Early, Loop, Late
    <2>2. CASE d # c
      <3>1. Report(d) /\ Sent(d)' = Sent(d)
        BY <1>2, <2>2 DEF CallInv, Sent
      <3>2. pc'[d] = pc[d] /\ at'[d] = at[d] /\ ids'[d] = ids[d] /\ result'[d] = result[d]
        BY <1>2, <1>3, <2>2 DEF CallInv, CallTypes
      <3> QED  BY <1>2, <3>1, <3>2 DEF Report
    <2> QED  BY <2>1, <2>2
  <1>7. ASSUME NEW d \in Calls PROVE Reference(d)'
    <2>1. Reference(d) /\ Own(d)' = Own(d)
      BY DEF CallInv, Own
    <2>2. CASE d = c
      <3>1. pc'[c] \in {"window", "leases"}
        BY <1>3 DEF CallInv, CallTypes
      <3>2. Segments[c] > 1 => ref[c] = "held" /\ exposed'[c] = TRUE
        BY <2>1, <2>2 DEF Reference, CallInv, CallTypes, Loop
      <3> QED  BY <1>2, <2>1, <2>2, <3>1, <3>2 DEF Reference
    <2>3. CASE d # c
      <3>1. <<c, at[c]>> \notin Own(d)
        BY <2>3 DEF Own
      <3>2. entry' \cap Own(d) = entry \cap Own(d) /\ queued' \cap Own(d) = queued \cap Own(d)
        BY <1>2, <3>1
      <3>3. pc'[d] = pc[d] /\ exposed'[d] = exposed[d]
        BY <1>3, <2>3 DEF CallInv, CallTypes
      <3> QED  BY <1>2, <2>1, <3>2, <3>3 DEF Reference
    <2> QED  BY <2>2, <2>3
  <1> QED  BY <1>5, <1>6, <1>7 DEF CallInv

\* Admission: one of the refusals, or the frame is queued.
LEMMA AdmitInv == ASSUME CallInv, NEW c \in Calls, Admit(c) PROVE CallInv'
  <1>1. CASE phase # "Open" /\ Fail(c, 1) /\ UNCHANGED phase
    BY <1>1, FailInv DEF CallInv, CallTypes, Down
  <1>2. CASE Fail(c, 1) /\ Finish
    BY <1>2, FailInv DEF Finish, Down
  <1>3. CASE Insert(c) /\ exposed' = [exposed EXCEPT ![c] = (ref[c] = "held")]
    BY <1>3, InsertInv DEF Admit, In
  <1> QED  BY <1>1, <1>2, <1>3 DEF Admit, AdmitRefused

-----------------------------------------------------------------------------
\* The locals are dropped.

\* A step on the way out; the reference may change hands in it.
LEMMA Dropping ==
    ASSUME CallInv, NEW c \in Calls, NEW step \in Late, pc[c] \in Late, Goto(c, step),
           UNCHANGED <<phase, receiver, at, result, ids, entry, exposed, queued>>,
           ref' \in [Calls -> {"none", "held", "cooling", "free"}]
    PROVE  CallTypes' /\ \A d \in Calls : Report(d)'
  <1>1. /\ pc' = [pc EXCEPT ![c] = step] /\ result' = [result EXCEPT ![c] = result[c]]
        /\ result[c] \in {"none", "ok", "partial", "refused", "cancelled"}
        /\ phase' = phase /\ phase \in {"Open", "Closing", "Closed"} /\ Down' = Down
        /\ step \notin Early \cup Loop /\ step \in Early \cup Loop \cup Late
    BY DEF Goto, CallInv, CallTypes, Early, Loop, Late, Down
  <1>2. /\ result[c] = "ok" => at[c] = Segments[c] + 1
        /\ result[c] = "refused" => at[c] = 1
        /\ result[c] = "partial" => Down
    BY DEF CallInv, Report
  <1>3. CallTypes'
    BY <1>1, QuietTypes
  <1>4. \A d \in Calls : Report(d)'
    BY <1>1, <1>2, QuietReport
  <1> QED  BY <1>3, <1>4

\* Releasing the lease of a call without entries that is on its way out.
LEMMA ReleaseReference ==
    ASSUME CallInv, NEW c \in Calls, pc[c] \in Late, pc'[c] \in Late, entry' \subseteq entry,
           ref' = Released(c), entry' \cap Own(c) = {},
           \A d \in Calls \ {c} : pc'[d] = pc[d], UNCHANGED <<exposed, queued>>
    PROVE  /\ ref' \in [Calls -> {"none", "held", "cooling", "free"}]
           /\ \A d \in Calls : Reference(d)'
  <1>1. ref' \in [Calls -> {"none", "held", "cooling", "free"}]
    BY DEF Released, CallInv, CallTypes
  <1>2. ASSUME NEW d \in Calls PROVE Reference(d)'
    <2>1. Reference(d) /\ Own(d)' = Own(d)
      BY DEF CallInv, Own
    <2>2. CASE d = c
      <3>1. ref[c] = "none" => ref'[c] = "none"
        BY DEF Released, CallInv, CallTypes
      <3> QED  BY <2>1, <2>2, <3>1 DEF Reference, Late, Loop
    <2>3. CASE d # c
      <3>1. ref'[d] = ref[d] /\ pc'[d] = pc[d]
        BY <2>3 DEF Released, CallInv, CallTypes
      <3> QED  BY <2>1, <3>1 DEF Reference
    <2> QED  BY <2>2, <2>3
  <1> QED  BY <1>1, <1>2

\* Giving ids back leaves report and reference alone.
LEMMA DropLeasesInv == ASSUME CallInv, NEW c \in Calls, DropLeases(c) PROVE CallInv'
  <1>1. /\ pc[c] = "leases" /\ pc' = [pc EXCEPT ![c] = "unref"] /\ Goto(c, "unref")
        /\ {"leases", "unref"} \subseteq Late /\ "unref" \notin Early \cup Loop
        /\ UNCHANGED <<phase, receiver, at, result, ids, entry, ref, exposed, queued>>
    BY DEF DropLeases, In, Goto, Early, Loop, Late
  <1>2. CallTypes' /\ \A d \in Calls : Report(d)'
    BY <1>1, Dropping DEF CallInv, CallTypes
  <1>3. \A d \in Calls : Reference(d)'
    BY <1>1, QuietReference
  <1> QED  BY <1>2, <1>3 DEF CallInv

\* The call lets go of its lease; an entry may still hold it.
LEMMA UnreferenceInv == ASSUME CallInv, NEW c \in Calls, Unreference(c) PROVE CallInv'
  <1>1. /\ pc[c] = "unref" /\ pc' = [pc EXCEPT ![c] = "unbatch"] /\ Goto(c, "unbatch")
        /\ {"unref", "unbatch"} \subseteq Late /\ "unbatch" \notin Early \cup Loop
        /\ UNCHANGED <<phase, receiver, at, result, ids, entry, exposed, queued>>
    BY DEF Unreference, In, Goto, Early, Loop, Late
  <1>2. /\ ref' \in [Calls -> {"none", "held", "cooling", "free"}]
        /\ \A d \in Calls : Reference(d)'
    <2>1. CASE entry \cap Own(c) = {}
      <3>1. ref' = Released(c)
        BY <2>1 DEF Unreference
      <3>2. pc'[c] \in Late /\ \A d \in Calls \ {c} : pc'[d] = pc[d]
        BY <1>1 DEF CallInv, CallTypes
      <3> QED  BY <1>1, <2>1, <3>1, <3>2, ReleaseReference
    <2>2. CASE entry \cap Own(c) # {}
      <3>1. ref' = ref
        BY <2>2 DEF Unreference
      <3> QED  BY <1>1, <3>1, QuietReference DEF CallInv, CallTypes
    <2> QED  BY <2>1, <2>2
  <1>3. CallTypes' /\ \A d \in Calls : Report(d)'
    BY <1>1, <1>2, Dropping
  <1> QED  BY <1>2, <1>3 DEF CallInv

\* Giving the batch permit back leaves report and reference alone.
LEMMA UnbatchInv == ASSUME CallInv, NEW c \in Calls, Unbatch(c) PROVE CallInv'
  <1>1. /\ pc[c] = "unbatch" /\ pc' = [pc EXCEPT ![c] = "over"] /\ Goto(c, "over")
        /\ {"unbatch", "over"} \subseteq Late /\ "over" \notin Early \cup Loop
        /\ UNCHANGED <<phase, receiver, at, result, ids, entry, ref, exposed, queued>>
    BY DEF Unbatch, In, Goto, Early, Loop, Late
  <1>2. CallTypes' /\ \A d \in Calls : Report(d)'
    BY <1>1, Dropping DEF CallInv, CallTypes
  <1>3. \A d \in Calls : Reference(d)'
    BY <1>1, QuietReference
  <1> QED  BY <1>2, <1>3 DEF CallInv

-----------------------------------------------------------------------------
\* The rest of the connection.

\* A step that no call takes: what is reported stands, what is down stays down.
LEMMA OutsideReport ==
    ASSUME CallInv, UNCHANGED <<calls, queued>>, Down => Down'
    PROVE  \A d \in Calls : Report(d)'
  <1> SUFFICES ASSUME NEW d \in Calls PROVE Report(d)'
    OBVIOUS
  <1>1. Report(d) /\ Sent(d)' = Sent(d)  BY DEF CallInv, Sent, calls
  <1> QED  BY <1>1 DEF Report, calls

\* An entry goes: its call keeps the reference until the last one.
LEMMA ConcludeInv == ASSUME CallInv, NEW p \in Pairs, Conclude(p) PROVE CallInv'
  <1>1. PICK c \in Calls : \E k \in 1 .. Segments[c] : p = <<c, k>>
    BY DEF Pairs, Own
  <1>2. /\ UNCHANGED <<phase, receiver, calls, exposed, queued>> /\ entry' = entry \ {p}
        /\ ref' = IF pc[c] \in {"unbatch", "over"} /\ entry \cap Own(c) = {p} THEN Released(c) ELSE ref
    BY <1>1 DEF Conclude
  <1>3. \A d \in Calls : Report(d)'
    BY <1>2, OutsideReport DEF Down
  <1>4. /\ ref' \in [Calls -> {"none", "held", "cooling", "free"}]
        /\ \A d \in Calls : Reference(d)'
    <2>1. CASE pc[c] \in {"unbatch", "over"} /\ entry \cap Own(c) = {p}
      <3>1. ref' = Released(c) /\ entry' \cap Own(c) = {} /\ pc' = pc /\ pc[c] \in Late
        BY <1>2, <2>1 DEF calls, Late
      <3> QED  BY <1>2, <3>1, ReleaseReference
    <2>2. CASE ~(pc[c] \in {"unbatch", "over"} /\ entry \cap Own(c) = {p})
      <3>1. ref' = ref /\ pc' = pc
        BY <1>2, <2>2 DEF calls
      <3>2. ASSUME NEW d \in Calls PROVE Reference(d)'
        <4>1. Reference(d) /\ Own(d)' = Own(d)  BY DEF CallInv, Own
        <4> QED  BY <1>2, <3>1, <4>1 DEF Reference
      <3> QED  BY <3>1, <3>2 DEF CallInv, CallTypes
    <2> QED  BY <2>1, <2>2
  <1>5. CallTypes'
    BY <1>2, <1>4 DEF CallInv, CallTypes, calls, Pairs, Own
  <1> QED  BY <1>3, <1>4, <1>5 DEF CallInv

\* A cooling reference belongs to a call without entries.
LEMMA CooldownEndsInv == ASSUME CallInv, NEW c \in Calls, CooldownEnds(c) PROVE CallInv'
  <1>1. /\ ref[c] = "cooling" /\ ref' = [ref EXCEPT ![c] = "free"]
        /\ UNCHANGED <<phase, receiver, calls, entry, exposed, queued>>
    BY DEF CooldownEnds
  <1>2. \A d \in Calls : Report(d)'
    BY <1>1, OutsideReport DEF Down
  <1>3. ASSUME NEW d \in Calls PROVE Reference(d)'
    <2>1. Reference(d) /\ Own(d)' = Own(d) /\ pc' = pc  BY <1>1 DEF CallInv, Own, calls
    <2>2. CASE d = c  BY <1>1, <2>1, <2>2 DEF Reference, CallInv, CallTypes
    <2>3. CASE d # c  BY <1>1, <2>1, <2>3 DEF Reference, CallInv, CallTypes
    <2> QED  BY <2>2, <2>3
  <1>4. CallTypes'
    BY <1>1 DEF CallInv, CallTypes, calls, Pairs, Own
  <1> QED  BY <1>2, <1>3, <1>4 DEF CallInv

\* Nothing but the phase, the send queue and its receiver changes.
LEMMA OutsideInv ==
    ASSUME CallInv, UNCHANGED <<calls, entry, ref, exposed, queued>>,
           phase' \in {"Open", "Closing", "Closed"}, Down => Down'
    PROVE  CallInv'
  <1>1. \A d \in Calls : Report(d)'
    BY OutsideReport
  <1>2. ASSUME NEW d \in Calls PROVE Reference(d)'
    <2>1. Reference(d) /\ Own(d)' = Own(d) /\ pc' = pc  BY DEF CallInv, Own, calls
    <2> QED  BY <2>1 DEF Reference
  <1>3. CallTypes'
    BY DEF CallInv, CallTypes, calls, Pairs, Own
  <1> QED  BY <1>1, <1>2, <1>3 DEF CallInv

-----------------------------------------------------------------------------
\* Every step of a call keeps the invariant.
LEMMA CallStepInv == ASSUME CallInv, NEW c \in Calls, CallStep(c) PROVE CallInv'
  BY StartInv, AwaitBatchInv, AcquireReferenceInv, ReserveIdsInv, AwaitWindowInv, TakeIdInv,
     AwaitSlotInv, AdmitInv, DropLeasesInv, UnreferenceInv, UnbatchInv DEF CallStep

\* Every step of the system keeps the invariant.
LEMMA StepInv == CallInv /\ [Next]_vars => CallInv'
  <1> SUFFICES ASSUME CallInv, [Next]_vars PROVE CallInv'
    OBVIOUS
  <1>1. CASE PhaseChange
    BY <1>1, OutsideInv DEF PhaseChange, Finish, CallInv, CallTypes, Down
  <1>2. CASE \E c \in Calls : CallStep(c) \/ Cancel(c) \/ CooldownEnds(c)
    BY <1>2, CallStepInv, CancelInv, CooldownEndsInv
  <1>3. ASSUME NEW p \in Pairs, Dequeue(p) PROVE CallInv'
    BY <1>3, OutsideInv DEF Dequeue, CallInv, CallTypes, Down
  <1>4. ASSUME NEW p \in Pairs, Conclude(p) PROVE CallInv'
    BY <1>4, ConcludeInv
  <1>5. CASE UNCHANGED vars
    BY <1>5, OutsideInv DEF vars, CallInv, CallTypes, Down
  <1>6. CASE WriterGone
    BY <1>6, OutsideInv DEF WriterGone, CallInv, CallTypes, Down
  <1> QED  BY <1>1, <1>2, <1>3, <1>4, <1>5, <1>6 DEF Next

\* The invariant holds throughout.
THEOREM CallInvariant == Spec => []CallInv
  <1> QED  BY InitInv, StepInv, PTL DEF Spec

-----------------------------------------------------------------------------
\* What submit() returns is what happened: Ok names every segment,
\* PartialSubmit exactly the queued ones of a connection that has left Open or
\* lost its writer, any other error means that none was queued (submit and
\* partial_submit_error).
THEOREM CallersTold == Spec => []CallerTold
  <1>1. CallInv => CallerTold
    <2> SUFFICES ASSUME CallInv PROVE ReportExact /\ PartialMeansDown
      BY DEF CallerTold
    <2>1. ASSUME NEW c \in Calls
          PROVE  /\ ids[c] = Sent(c)
                 /\ result[c] = "ok" => Sent(c) = 1 .. Segments[c]
                 /\ result[c] = "refused" => Sent(c) = {}
      <3>1. Report(c) /\ Segments[c] \in Nat
        BY CallAssumption DEF CallInv
      <3> QED  BY <3>1 DEF Report
    <2>2. ReportExact
      BY <2>1 DEF ReportExact, Sent
    <2>3. PartialMeansDown
      BY DEF PartialMeansDown, CallInv, Report
    <2> QED  BY <2>2, <2>3
  <1> QED  BY <1>1, CallInvariant, PTL

\* The step that frees a reference without a cooldown releases a lease that
\* was never marked.
LEMMA FreedUnmarked ==
    ASSUME CallInv, [Next]_vars, NEW c \in Calls, ref[c] = "held", ref'[c] = "free"
    PROVE  exposed[c] # TRUE
  <1>1. ASSUME NEW d \in Calls, ref' = Released(d) PROVE exposed[c] # TRUE
    BY <1>1 DEF Released, CallInv, CallTypes
  <1>2. ASSUME UNCHANGED ref PROVE FALSE
    BY <1>2
  <1>3. ASSUME NEW d \in Calls, CallStep(d) PROVE exposed[c] # TRUE
    <2>1. CASE AcquireReference(d)
      BY <1>2, <2>1 DEF AcquireReference, Refuse, CallInv, CallTypes
    <2>2. CASE Unreference(d)
      BY <1>1, <1>2, <2>2 DEF Unreference
    <2>3. CASE ~AcquireReference(d) /\ ~Unreference(d)
      BY <1>2, <1>3, <2>3 DEF CallStep, Start, AwaitBatch, ReserveIds, AwaitWindow, TakeId,
         AwaitSlot, Admit, AdmitRefused, Insert, DropLeases, Unbatch, Refuse, Fail
    <2> QED  BY <2>1, <2>2, <2>3
  <1>4. ASSUME NEW d \in Calls, Cancel(d) PROVE FALSE
    BY <1>2, <1>4 DEF Cancel
  <1>5. ASSUME NEW d \in Calls, CooldownEnds(d) PROVE FALSE
    BY <1>5 DEF CooldownEnds, CallInv, CallTypes
  <1>6. ASSUME NEW p \in Pairs, Dequeue(p) PROVE FALSE
    BY <1>2, <1>6 DEF Dequeue
  <1>7. ASSUME NEW p \in Pairs, Conclude(p) PROVE exposed[c] # TRUE
    <2>1. p[1] \in Calls
      BY DEF Pairs, Own
    <2> QED  BY <1>1, <1>2, <1>7, <2>1 DEF Conclude
  <1>8. CASE PhaseChange \/ WriterGone
    BY <1>2, <1>8 DEF PhaseChange, WriterGone
  <1>9. CASE UNCHANGED vars
    BY <1>2, <1>9 DEF vars
  <1> QED  BY <1>3, <1>4, <1>5, <1>6, <1>7, <1>8, <1>9 DEF Next

\* A UDH reference on the wire goes to no other message: it is held while a
\* segment is pending and cools down before it is free (UdhReferenceLease).
THEOREM ReferencesGuarded == Spec => ReferenceGuarded
  <1>1. CallInv => ReferenceKept
    BY DEF CallInv, Reference, ReferenceKept
  <1>2. CallInv /\ [Next]_vars
          => [\A c \in Calls : ref[c] = "held" /\ ref'[c] = "free" => queued \cap Own(c) = {}]_vars
    <2> SUFFICES ASSUME CallInv, [Next]_vars, NEW c \in Calls, ref[c] = "held", ref'[c] = "free"
                 PROVE  queued \cap Own(c) = {}
      OBVIOUS
    <2>1. exposed[c] # TRUE
      BY FreedUnmarked
    <2>2. Reference(c)
      BY DEF CallInv
    <2> QED  BY <2>1, <2>2 DEF Reference
  <1> QED  BY <1>1, <1>2, CallInvariant, PTL DEF Spec, ReferenceGuarded, NoEarlyReuse
-----------------------------------------------------------------------------
\* What the calls hold: the types, ...
Kinds ==
    /\ \A c \in Calls : at[c] <= Segments[c] + 1
    /\ batched \subseteq Manual /\ Cardinality(batched) <= Batches
    /\ reserved \subseteq Pairs /\ queue \subseteq Pairs /\ stuck \subseteq Pairs
    /\ IsFiniteSet(entry) /\ receiver \in BOOLEAN

\* ... the calls with a window permit in hand, ...
Carrying == {"lease", "slot", "admit"}
Carriers == {c \in Calls : pc[c] \in Carrying}
Balance  == window \in Nat /\ WindowExact

\* ... and the ids.  Before the loop there are none.  A manual id is reserved
\* only under a batch permit, until its frame is queued or retire() refuses
\* it.  Once the leases are dropped, only entries and retire() keep any.
Mine(c) == reserved \cap Own(c)
Claims(c) ==
    /\ pc[c] = "batch" => c \in Manual
    /\ c \in Manual /\ pc[c] \in {"ref", "ids"} \cup Loop => c \in batched
    /\ pc[c] \in Early => Mine(c) = {}
    /\ c \in Manual => Mine(c) \cap entry = {} /\ (Mine(c) \subseteq stuck \/ c \in batched)
    /\ pc[c] \in {"unref", "unbatch", "over"} => Mine(c) \subseteq entry \cup stuck

ResourceInv == Kinds /\ Balance /\ \A c \in Calls : Claims(c)

\* The step changes the ids and the permit of this call alone.
Only(c) ==
    /\ pc' = [pc EXCEPT ![c] = pc'[c]]
    /\ batched' \ {c} = batched \ {c} /\ reserved' \ Own(c) = reserved \ Own(c)
    /\ entry' \ Own(c) = entry \ Own(c) /\ stuck' \ Own(c) = stuck \ Own(c)

\* The segment in work is one of the call's.
LEMMA HereIsOwn ==
    ASSUME CallInv, NEW c \in Calls, pc[c] \in Loop
    PROVE  Here(c) \in Own(c) /\ Here(c) \notin queued /\ Here(c) \notin entry
  <1>1. at[c] \in 1 .. Segments[c] /\ Sent(c) = 1 .. at[c] - 1
    BY CallAssumption DEF CallInv, CallTypes, Report
  <1>2. <<c, at[c]>> \notin queued
    BY <1>1, CallAssumption DEF Sent, CallInv, CallTypes
  <1> QED  BY <1>1, <1>2 DEF Here, Own, CallInv, CallTypes

\* Before its loop a call has no frame queued and none pending.
LEMMA EarlyUnsent ==
    ASSUME CallInv, NEW c \in Calls, pc[c] \in Early
    PROVE  Own(c) \cap entry = {}
  <1>1. at[c] = 1 /\ Sent(c) = 1 .. at[c] - 1
    BY DEF CallInv, Report
  <1>2. Sent(c) = {}
    BY <1>1
  <1> QED  BY <1>2 DEF Sent, Own, CallInv, CallTypes

\* What one call does is nothing to the claims of another.
LEMMA ClaimsOfOthers ==
    ASSUME CallInv, NEW c \in Calls, Only(c), NEW d \in Calls, d # c, Claims(d)
    PROVE  Claims(d)'
  <1>1. Own(c) \cap Own(d) = {} /\ Own(d)' = Own(d)
    BY DEF Own
  <1>2. pc'[d] = pc[d] /\ (d \in batched' <=> d \in batched)
    BY DEF Only, CallInv, CallTypes
  <1>3. /\ Mine(d)' = Mine(d)
        /\ entry' \cap Own(d) = entry \cap Own(d) /\ stuck' \cap Own(d) = stuck \cap Own(d)
    BY <1>1 DEF Only, Mine
  <1>4. Mine(d) \subseteq Own(d)
    BY DEF Mine
  <1> QED  BY <1>2, <1>3, <1>4 DEF Claims

-----------------------------------------------------------------------------
\* The claims of the call that moves.

\* An early return: no ids yet.
LEMMA RefuseClaims ==
    ASSUME CallInv, NEW c \in Calls, Refuse(c), pc[c] \in Early, Claims(c)
    PROVE  Only(c) /\ Claims(c)'
  <1>1. pc' = [pc EXCEPT ![c] = "leases"] /\ pc'[c] = "leases" /\ Mine(c) = {}
        /\ UNCHANGED <<batched, reserved, entry, stuck>>
    BY DEF Refuse, Leave, Goto, CallInv, CallTypes, Claims
  <1>2. Mine(c)' = {}
    BY <1>1 DEF Mine, Own
  <1> QED  BY <1>1, <1>2 DEF Only, Claims, Early, Loop

\* The steps up to the loop.
LEMMA EarlyClaims ==
    ASSUME CallInv, NEW c \in Calls, Claims(c),
           Start(c) \/ AwaitBatch(c) \/ AcquireReference(c) \/ ReserveIds(c)
    PROVE  Only(c) /\ Claims(c)'
  <1>1. pc[c] \in Early /\ Mine(c) = {}
    BY DEF Start, AwaitBatch, AcquireReference, ReserveIds, In, Early, Claims
  <1>2. CASE Refuse(c)
    BY <1>1, <1>2, RefuseClaims
  <1>3. CASE Start(c) /\ ~Refuse(c)
    <2>1. /\ pc' = [pc EXCEPT ![c] = pc'[c]] /\ pc'[c] = IF c \in Manual THEN "batch" ELSE "ref"
          /\ UNCHANGED <<batched, reserved, entry, stuck>>
      BY <1>3 DEF Start, Goto, CallInv, CallTypes
    <2>2. Mine(c)' = {}
      BY <1>1, <2>1 DEF Mine, Own
    <2> QED  BY <2>1, <2>2 DEF Only, Claims, Loop
  <1>4. CASE AwaitBatch(c) /\ ~Refuse(c)
    <2>1. /\ pc' = [pc EXCEPT ![c] = pc'[c]] /\ pc'[c] = "ref" /\ batched' = batched \cup {c}
          /\ UNCHANGED <<reserved, entry, stuck>>
      BY <1>4 DEF AwaitBatch, Goto, CallInv, CallTypes
    <2>2. Mine(c)' = {}
      BY <1>1, <2>1 DEF Mine, Own
    <2> QED  BY <2>1, <2>2 DEF Only, Claims, Loop
  <1>5. CASE AcquireReference(c) /\ ~Refuse(c)
    <2>1. /\ pc[c] = "ref" /\ pc' = [pc EXCEPT ![c] = pc'[c]] /\ pc'[c] = "ids"
          /\ UNCHANGED <<batched, reserved, entry, stuck>>
      BY <1>5 DEF AcquireReference, In, Goto, CallInv, CallTypes
    <2>2. Mine(c)' = {}
      BY <1>1, <2>1 DEF Mine, Own
    <2> QED  BY <2>1, <2>2 DEF Only, Claims, Loop
  <1>6. CASE ReserveIds(c) /\ ~Refuse(c)
    <2>1. /\ pc[c] = "ids" /\ pc' = [pc EXCEPT ![c] = pc'[c]] /\ pc'[c] = "window"
          /\ reserved' = IF c \in Manual THEN reserved \cup Own(c) ELSE reserved
          /\ UNCHANGED <<batched, entry, stuck>>
      BY <1>6 DEF ReserveIds, In, Goto, CallInv, CallTypes
    <2>2. Mine(c)' \subseteq Own(c) /\ Own(c) \cap entry = {} /\ reserved' \ Own(c) = reserved \ Own(c)
      BY <1>1, <2>1, EarlyUnsent DEF Mine, Own
    <2>3. c \in Manual => c \in batched
      BY <2>1 DEF Claims
    <2> QED  BY <2>1, <2>2, <2>3 DEF Only, Claims, Loop, Early
  <1> QED  BY <1>2, <1>3, <1>4, <1>5, <1>6

\* PartialSubmit: ids are given back, or stay with retire().
LEMMA FailClaims ==
    ASSUME CallInv, NEW c \in Calls, NEW permit, Fail(c, permit), pc[c] \in Loop, Claims(c),
           \/ reserved' = reserved \ {Here(c)} /\ UNCHANGED stuck
           \/ UNCHANGED <<reserved, stuck>>
           \/ stuck' = stuck \cup {Here(c)} /\ UNCHANGED reserved
    PROVE  Only(c) /\ Claims(c)'
  <1>1. pc' = [pc EXCEPT ![c] = "leases"] /\ pc'[c] = "leases" /\ UNCHANGED <<batched, entry>>
    BY DEF Fail, Leave, Goto, CallInv, CallTypes
  <1>2. /\ Own(c)' = Own(c) /\ Here(c) \in Own(c)
        /\ reserved' \subseteq reserved /\ reserved' \ Own(c) = reserved \ Own(c)
        /\ stuck \subseteq stuck' /\ stuck' \ Own(c) = stuck \ Own(c)
    BY HereIsOwn DEF Own
  <1>3. Mine(c)' \subseteq Mine(c)
    BY <1>2 DEF Mine
  <1> QED  BY <1>1, <1>2, <1>3 DEF Only, Claims, Early, Loop

\* The steps of the loop before admission.
LEMMA LoopClaims ==
    ASSUME CallInv, NEW c \in Calls, Claims(c), AwaitWindow(c) \/ TakeId(c) \/ AwaitSlot(c)
    PROVE  Only(c) /\ Claims(c)'
  <1>1. pc[c] \in Loop /\ Own(c)' = Own(c)
    BY DEF AwaitWindow, TakeId, AwaitSlot, In, Loop, Own
  <1>2. CASE AwaitWindow(c)
    <2>1. CASE Fail(c, 0) /\ reserved' = reserved \ {Here(c)} /\ UNCHANGED stuck
      BY <1>1, <2>1, FailClaims
    <2>2. CASE Goto(c, "lease") /\ UNCHANGED <<batched, reserved, entry, stuck>>
      <3>1. pc' = [pc EXCEPT ![c] = pc'[c]] /\ pc'[c] = "lease" /\ Mine(c)' = Mine(c)
        BY <1>1, <2>2 DEF Goto, CallInv, CallTypes, Mine
      <3> QED  BY <1>1, <2>2, <3>1 DEF Only, Claims, Early, Loop
    <2> QED  BY <1>2, <2>1, <2>2 DEF AwaitWindow
  <1>3. CASE TakeId(c)
    <2>1. CASE Fail(c, 1) /\ UNCHANGED <<reserved, stuck>>
      BY <1>1, <2>1, FailClaims
    <2>2. CASE Goto(c, "slot") /\ reserved' = reserved \cup {Here(c)} /\ UNCHANGED <<batched, entry, stuck>>
      <3>1. pc' = [pc EXCEPT ![c] = pc'[c]] /\ pc'[c] = "slot"
        BY <2>2 DEF Goto, CallInv, CallTypes
      <3>2. /\ Here(c) \in Own(c) /\ Here(c) \notin entry
            /\ Mine(c)' = Mine(c) \cup {Here(c)} /\ reserved' \ Own(c) = reserved \ Own(c)
        BY <1>1, <2>2, HereIsOwn DEF Mine
      <3>3. c \in Manual => c \in batched
        BY <1>1 DEF Claims
      <3> QED  BY <2>2, <3>1, <3>2, <3>3 DEF Only, Claims, Early, Loop
    <2> QED  BY <1>3, <2>1, <2>2 DEF TakeId
  <1>4. CASE AwaitSlot(c)
    <2>1. CASE Fail(c, 1) /\ reserved' = reserved \ {Here(c)} /\ UNCHANGED stuck
      BY <1>1, <2>1, FailClaims
    <2>2. CASE Goto(c, "admit") /\ UNCHANGED <<batched, reserved, entry, stuck>>
      <3>1. pc' = [pc EXCEPT ![c] = pc'[c]] /\ pc'[c] = "admit" /\ Mine(c)' = Mine(c)
        BY <1>1, <2>2 DEF Goto, CallInv, CallTypes, Mine
      <3> QED  BY <1>1, <2>2, <3>1 DEF Only, Claims, Early, Loop
    <2> QED  BY <1>4, <2>1, <2>2 DEF AwaitSlot
  <1> QED  BY <1>2, <1>3, <1>4

\* A queued frame takes its manual id out of the reserved set.
LEMMA AdmitClaims ==
    ASSUME CallInv, NEW c \in Calls, Claims(c), Admit(c)
    PROVE  Only(c) /\ Claims(c)'
  <1>1. pc[c] \in Loop /\ Own(c)' = Own(c) /\ Here(c) \in Own(c) /\ Here(c) \notin entry
    BY HereIsOwn DEF Admit, In, Loop, Own
  <1>2. CASE AdmitRefused(c)
    BY <1>1, <1>2, FailClaims DEF AdmitRefused
  <1>3. CASE Insert(c)
    <2>1. /\ pc' = [pc EXCEPT ![c] = pc'[c]] /\ pc'[c] \in {"leases", "window"}
          /\ reserved' = (IF c \in Manual THEN reserved \ {Here(c)} ELSE reserved)
          /\ entry' = entry \cup {Here(c)} /\ UNCHANGED <<batched, stuck>>
      BY <1>3 DEF Insert, Pushed, Goto, CallInv, CallTypes
    <2>2. Mine(c)' = (IF c \in Manual THEN Mine(c) \ {Here(c)} ELSE Mine(c))
      BY <1>1, <2>1 DEF Mine
    <2>3. c \in Manual => c \in batched
      BY <1>1 DEF Claims
    <2> QED  BY <1>1, <2>1, <2>2, <2>3 DEF Only, Claims, Early, Loop
  <1> QED  BY <1>2, <1>3 DEF Admit

\* A dropped future gives the id in its hands back.
LEMMA CancelClaims ==
    ASSUME CallInv, NEW c \in Calls, Claims(c), Cancel(c)
    PROVE  Only(c) /\ Claims(c)'
  <1>1. /\ pc' = [pc EXCEPT ![c] = "leases"] /\ pc'[c] = "leases" /\ Own(c)' = Own(c)
        /\ UNCHANGED <<batched, entry, stuck>> /\ reserved' \subseteq reserved
    BY DEF Cancel, Leave, Goto, CallInv, CallTypes, Own
  <1>2. reserved' \ Own(c) = reserved \ Own(c)
    <2>1. CASE pc[c] = "batch"
      BY <2>1 DEF Cancel, In
    <2>2. CASE pc[c] # "batch"
      <3>1. pc[c] \in Loop /\ reserved' = reserved \ {Here(c)}
        BY <2>2 DEF Cancel, In, Loop
      <3> QED  BY <3>1, HereIsOwn
    <2> QED  BY <2>1, <2>2
  <1>3. Mine(c)' \subseteq Mine(c)
    BY <1>1 DEF Mine
  <1> QED  BY <1>1, <1>2, <1>3 DEF Only, Claims, Early, Loop

\* The way out: the leases first, the batch permit last.
LEMMA LateClaims ==
    ASSUME CallInv, NEW c \in Calls, Claims(c), DropLeases(c) \/ Unreference(c) \/ Unbatch(c)
    PROVE  Only(c) /\ Claims(c)'
  <1>1. Own(c)' = Own(c)
    BY DEF Own
  <1>2. CASE DropLeases(c)
    <2>1. /\ pc' = [pc EXCEPT ![c] = pc'[c]] /\ pc'[c] = "unref"
          /\ reserved' = reserved \ (Own(c) \ (entry \cup stuck)) /\ UNCHANGED <<batched, entry, stuck>>
      BY <1>2 DEF DropLeases, Goto, CallInv, CallTypes
    <2>2. /\ Mine(c)' \subseteq Mine(c) /\ Mine(c)' \subseteq entry \cup stuck
          /\ reserved' \ Own(c) = reserved \ Own(c)
      BY <1>1, <2>1 DEF Mine
    <2> QED  BY <1>1, <2>1, <2>2 DEF Only, Claims, Early, Loop
  <1>3. CASE Unreference(c)
    <2>1. /\ pc[c] = "unref" /\ pc' = [pc EXCEPT ![c] = pc'[c]] /\ pc'[c] = "unbatch"
          /\ UNCHANGED <<batched, reserved, entry, stuck>>
      BY <1>3 DEF Unreference, In, Goto, CallInv, CallTypes
    <2>2. Mine(c)' = Mine(c)
      BY <1>1, <2>1 DEF Mine
    <2> QED  BY <2>1, <2>2 DEF Only, Claims, Early, Loop
  <1>4. CASE Unbatch(c)
    <2>1. /\ pc[c] = "unbatch" /\ pc' = [pc EXCEPT ![c] = pc'[c]] /\ pc'[c] = "over"
          /\ batched' = batched \ {c} /\ UNCHANGED <<reserved, entry, stuck>>
      BY <1>4 DEF Unbatch, In, Goto, CallInv, CallTypes
    <2>2. Mine(c)' = Mine(c) /\ (c \in Manual => Mine(c) \subseteq stuck)
      BY <1>1, <2>1 DEF Mine, Claims
    <2> QED  BY <2>1, <2>2 DEF Only, Claims, Early, Loop
  <1> QED  BY <1>2, <1>3, <1>4

\* Every step of a call keeps every call's claims.
LEMMA CallClaims ==
    ASSUME CallInv, NEW c \in Calls, CallStep(c) \/ Cancel(c), \A d \in Calls : Claims(d)
    PROVE  \A d \in Calls : Claims(d)'
  <1>1. Claims(c)
    OBVIOUS
  <1>2. Only(c) /\ Claims(c)'
    BY <1>1, EarlyClaims, LoopClaims, AdmitClaims, LateClaims, CancelClaims DEF CallStep
  <1> QED  BY <1>2, ClaimsOfOthers

-----------------------------------------------------------------------------
\* The window.

\* A call that moves has one permit more in hand, one less, or as many.
LEMMA CarrierCount ==
    ASSUME CallInv, NEW c \in Calls, NEW step, pc' = [pc EXCEPT ![c] = step]
    PROVE  /\ Cardinality(Carriers) \in Nat
           /\ step \in Carrying /\ pc[c] \notin Carrying
                => Cardinality(Carriers') = Cardinality(Carriers) + 1
           /\ step \notin Carrying /\ pc[c] \in Carrying
                => Cardinality(Carriers') = Cardinality(Carriers) - 1
           /\ (step \in Carrying <=> pc[c] \in Carrying)
                => Cardinality(Carriers') = Cardinality(Carriers)
  <1>1. IsFiniteSet(Carriers)
    BY FS_Subset, CallAssumption DEF Carriers
  <1>2. Cardinality(Carriers) \in Nat
    BY <1>1, FS_CardinalityType
  <1>3. ASSUME step \in Carrying, pc[c] \notin Carrying
        PROVE  Cardinality(Carriers') = Cardinality(Carriers) + 1
    <2>1. Carriers' = Carriers \cup {c} /\ c \notin Carriers
      BY <1>3 DEF Carriers, CallInv, CallTypes
    <2> QED  BY <1>1, <2>1, FS_AddElement
  <1>4. ASSUME step \notin Carrying, pc[c] \in Carrying
        PROVE  Cardinality(Carriers') = Cardinality(Carriers) - 1
    <2>1. Carriers' = Carriers \ {c} /\ c \in Carriers
      BY <1>4 DEF Carriers, CallInv, CallTypes
    <2> QED  BY <1>1, <2>1, FS_RemoveElement
  <1>5. ASSUME step \in Carrying <=> pc[c] \in Carrying
        PROVE  Cardinality(Carriers') = Cardinality(Carriers)
    <2>1. Carriers' = Carriers
      BY <1>5 DEF Carriers, CallInv, CallTypes
    <2> QED  BY <2>1
  <1> QED  BY <1>2, <1>3, <1>4, <1>5

\* Windows, carriers and entries add up after a step that moves one call.
LEMMA MoveBalance ==
    ASSUME CallInv, Kinds, Balance, NEW c \in Calls, NEW step, pc' = [pc EXCEPT ![c] = step],
           UNCHANGED entry,
           \/ window' = window /\ (step \in Carrying <=> pc[c] \in Carrying)
           \/ window' = window + 1 /\ step \notin Carrying /\ pc[c] \in Carrying
           \/ window > 0 /\ window' = window - 1 /\ step \in Carrying /\ pc[c] \notin Carrying
    PROVE  Balance'
  <1>1. window + Cardinality(Carriers) + Cardinality(entry) = Window /\ window \in Nat
    BY DEF Balance, WindowExact, Carriers, Carrying
  <1>2. Cardinality(entry) \in Nat /\ Cardinality(entry') = Cardinality(entry)
    BY FS_CardinalityType DEF Kinds
  <1>3. Cardinality(Carriers) \in Nat
    BY CarrierCount
  <1>4. CASE window' = window /\ (step \in Carrying <=> pc[c] \in Carrying)
    <2>1. Cardinality(Carriers') = Cardinality(Carriers)
      BY <1>4, CarrierCount
    <2> QED  BY <1>1, <1>2, <1>4, <2>1 DEF Balance, WindowExact, Carriers, Carrying
  <1>5. CASE window' = window + 1 /\ step \notin Carrying /\ pc[c] \in Carrying
    <2>1. Cardinality(Carriers') = Cardinality(Carriers) - 1
      BY <1>5, CarrierCount
    <2>2. window' \in Nat /\ window' + Cardinality(Carriers') + Cardinality(entry') = Window
      BY <1>1, <1>2, <1>3, <1>5, <2>1
    <2> QED  BY <2>2 DEF Balance, WindowExact, Carriers, Carrying
  <1>6. CASE window > 0 /\ window' = window - 1 /\ step \in Carrying /\ pc[c] \notin Carrying
    <2>1. Cardinality(Carriers') = Cardinality(Carriers) + 1
      BY <1>6, CarrierCount
    <2>2. window' \in Nat /\ window' + Cardinality(Carriers') + Cardinality(entry') = Window
      BY <1>1, <1>2, <1>3, <1>6, <2>1
    <2> QED  BY <2>2 DEF Balance, WindowExact, Carriers, Carrying
  <1> QED  BY <1>4, <1>5, <1>6

\* The permit of a queued frame moves from the call to the entry.
LEMMA InsertBalance ==
    ASSUME CallInv, Kinds, Balance, NEW c \in Calls, pc[c] = "admit", Insert(c)
    PROVE  Balance'
  <1>1. window + Cardinality(Carriers) + Cardinality(entry) = Window /\ window \in Nat
    BY DEF Balance, WindowExact, Carriers, Carrying
  <1>2. PICK step \in {"leases", "window"} : pc' = [pc EXCEPT ![c] = step]
    BY DEF Insert, Pushed, Goto
  <1>3. window' = window /\ entry' = entry \cup {Here(c)} /\ Here(c) \notin entry
    BY HereIsOwn DEF Insert, Loop
  <1>4. Cardinality(entry) \in Nat /\ Cardinality(entry') = Cardinality(entry) + 1
    BY <1>3, FS_CardinalityType, FS_AddElement DEF Kinds
  <1>5. Cardinality(Carriers) \in Nat /\ Cardinality(Carriers') = Cardinality(Carriers) - 1
    <2>1. step \notin Carrying /\ pc[c] \in Carrying
      BY DEF Carrying
    <2> QED  BY <1>2, <2>1, CarrierCount
  <1>6. window' + Cardinality(Carriers') + Cardinality(entry') = Window
    BY <1>1, <1>3, <1>4, <1>5
  <1> QED  BY <1>1, <1>3, <1>6 DEF Balance, WindowExact, Carriers, Carrying

\* Every step of a call keeps the window.
LEMMA CallBalance ==
    ASSUME CallInv, Kinds, Balance, NEW c \in Calls, CallStep(c) \/ Cancel(c)
    PROVE  Balance'
  <1>1. window \in Nat
    BY DEF Balance
  <1>2. ASSUME NEW what, Leave(c, what), UNCHANGED <<window, entry>>, pc[c] \notin Carrying
        PROVE  Balance'
    BY <1>1, <1>2, MoveBalance DEF Leave, Goto, Carrying
  <1>3. ASSUME Fail(c, 1), pc[c] \in Carrying PROVE Balance'
    BY <1>1, <1>3, MoveBalance DEF Fail, Leave, Goto, Carrying
  <1>4. ASSUME Refuse(c), pc[c] \in Early PROVE Balance'
    BY <1>2, <1>4 DEF Refuse, Early, Carrying
  <1>5. ASSUME NEW step \in {"batch", "ref", "ids", "window", "unref", "unbatch", "over"}, Goto(c, step),
               UNCHANGED <<window, entry>>, pc[c] \notin Carrying
        PROVE  Balance'
    BY <1>1, <1>5, MoveBalance DEF Goto, Carrying
  <1>6. ASSUME NEW step \in Carrying, Goto(c, step), UNCHANGED <<window, entry>>, pc[c] \in Carrying
        PROVE  Balance'
    BY <1>1, <1>6, MoveBalance DEF Goto
  <1>7. CASE Start(c)
    BY <1>4, <1>5, <1>7 DEF Start, In, Early, Carrying
  <1>8. CASE AwaitBatch(c) \/ AcquireReference(c) \/ ReserveIds(c)
    BY <1>4, <1>5, <1>8 DEF AwaitBatch, AcquireReference, ReserveIds, In, Early, Carrying
  <1>9. CASE AwaitWindow(c)
    <2>1. CASE Fail(c, 0)
      BY <1>1, <1>2, <1>9, <2>1 DEF AwaitWindow, Fail, In, Carrying
    <2>2. CASE window > 0 /\ window' = window - 1 /\ Goto(c, "lease") /\ UNCHANGED entry
      BY <1>1, <1>9, <2>2, MoveBalance DEF AwaitWindow, In, Goto, Carrying
    <2> QED  BY <1>9, <2>1, <2>2 DEF AwaitWindow
  <1>10. CASE TakeId(c) \/ AwaitSlot(c)
    BY <1>3, <1>6, <1>10 DEF TakeId, AwaitSlot, In, Carrying
  <1>11. CASE Admit(c)
    BY <1>3, <1>11, InsertBalance DEF Admit, AdmitRefused, In, Carrying
  <1>12. CASE DropLeases(c) \/ Unreference(c) \/ Unbatch(c)
    BY <1>5, <1>12 DEF DropLeases, Unreference, Unbatch, In, Carrying
  <1>13. CASE Cancel(c)
    <2>1. CASE pc[c] = "slot"
      BY <1>1, <1>13, <2>1, MoveBalance DEF Cancel, Leave, Goto, In, Carrying
    <2>2. CASE pc[c] # "slot"
      <3>1. window' = window
        BY <1>1, <1>13, <2>2 DEF Cancel, In
      <3> QED  BY <1>2, <1>13, <2>2, <3>1 DEF Cancel, Carrying
    <2> QED  BY <2>1, <2>2
  <1> QED  BY <1>7, <1>8, <1>9, <1>10, <1>11, <1>12, <1>13 DEF CallStep

-----------------------------------------------------------------------------
\* The types.

\* Every step of a call keeps its sets within bounds.
LEMMA CallKinds ==
    ASSUME CallInv, Kinds, NEW c \in Calls, Claims(c), CallStep(c) \/ Cancel(c)
    PROVE  Kinds'
  <1>1. /\ Own(c) \subseteq Pairs /\ Pairs' = Pairs /\ Batches' = Batches
        /\ (pc[c] \in Loop => Here(c) \in Pairs)
    BY HereIsOwn DEF Own, Pairs, Batches
  <1>2. batched' \subseteq Manual /\ Cardinality(batched') <= Batches
    <2>1. IsFiniteSet(batched) /\ Cardinality(batched) \in Nat /\ Batches \in Nat
      BY FS_Subset, FS_CardinalityType, CallAssumption DEF Kinds, Batches
    <2>2. CASE batched' = batched
      BY <2>2 DEF Kinds
    <2>3. CASE AwaitBatch(c) /\ batched' = batched \cup {c} /\ Cardinality(batched) < Batches
      <3>1. c \in Manual
        BY <2>3 DEF AwaitBatch, In, Claims
      <3>2. Cardinality(batched') <= Cardinality(batched) + 1
        <4>1. CASE c \in batched
          BY <2>1, <2>3, <4>1, FS_AddElement
        <4>2. CASE c \notin batched
          BY <2>1, <2>3, <4>2, FS_AddElement
        <4> QED  BY <4>1, <4>2
      <3>3. Cardinality(batched') \in Nat
        BY <2>1, <2>3, FS_AddElement, FS_CardinalityType
      <3> QED  BY <2>1, <2>3, <3>1, <3>2, <3>3 DEF Kinds
    <2>4. CASE batched' = batched \ {c}
      <3>1. Cardinality(batched') <= Cardinality(batched) /\ Cardinality(batched') \in Nat
        BY <2>1, <2>4, FS_Subset, FS_CardinalityType
      <3> QED  BY <2>1, <2>4, <3>1 DEF Kinds
    <2>5. \/ batched' = batched \/ batched' = batched \ {c}
          \/ AwaitBatch(c) /\ batched' = batched \cup {c} /\ Cardinality(batched) < Batches
      BY DEF CallStep, Start, AwaitBatch, AcquireReference, ReserveIds, AwaitWindow, TakeId,
         AwaitSlot, Admit, AdmitRefused, Insert, DropLeases, Unreference, Unbatch, Cancel, Refuse, Fail
    <2> QED  BY <2>2, <2>3, <2>4, <2>5
  <1>3. reserved' \subseteq Pairs /\ queue' \subseteq Pairs /\ stuck' \subseteq Pairs
    <2>1. \/ UNCHANGED <<reserved, queue, stuck>>
          \/ reserved' \subseteq reserved /\ UNCHANGED <<queue, stuck>>
          \/ reserved' = reserved \cup Own(c) /\ UNCHANGED <<queue, stuck>>
          \/ /\ pc[c] \in Loop /\ reserved' \subseteq reserved \cup {Here(c)}
             /\ queue' \subseteq queue \cup {Here(c)} /\ stuck' \subseteq stuck \cup {Here(c)}
      BY DEF CallStep, Start, AwaitBatch, AcquireReference, ReserveIds, AwaitWindow, TakeId, In, Loop,
         AwaitSlot, Admit, AdmitRefused, Insert, DropLeases, Unreference, Unbatch, Cancel, Refuse, Fail
    <2> QED  BY <1>1, <2>1 DEF Kinds
  <1>4. IsFiniteSet(entry')
    <2>1. entry' = entry \/ entry' = entry \cup {Here(c)}
      BY DEF CallStep, Start, AwaitBatch, AcquireReference, ReserveIds, AwaitWindow, TakeId,
         AwaitSlot, Admit, AdmitRefused, Insert, DropLeases, Unreference, Unbatch, Cancel, Refuse, Fail
    <2> QED  BY <2>1, FS_AddElement DEF Kinds
  <1>5. ASSUME NEW d \in Calls PROVE at'[d] <= Segments[d] + 1
    <2>1. at' = at \/ (pc[c] = "admit" /\ at' = [at EXCEPT ![c] = @ + 1])
      <3>1. CASE Admit(c)
        BY <3>1 DEF Admit, AdmitRefused, Insert, Pushed, Fail, Leave, In
      <3>2. CASE ~Admit(c)
        BY <3>2 DEF CallStep, Start, AwaitBatch, AcquireReference, ReserveIds, AwaitWindow, TakeId,
           AwaitSlot, DropLeases, Unreference, Unbatch, Cancel, Refuse, Fail, Leave
      <3> QED  BY <3>1, <3>2
    <2>2. pc[c] = "admit" => at[c] <= Segments[c]
      BY DEF CallInv, Report, Loop
    <2>3. Segments[d] \in Nat /\ at[d] \in Nat /\ at[d] <= Segments[d] + 1
      BY CallAssumption DEF CallInv, CallTypes, Kinds
    <2> QED  BY <2>1, <2>2, <2>3 DEF CallInv, CallTypes
  <1>6. receiver' = receiver
    BY DEF CallStep, Start, AwaitBatch, AcquireReference, ReserveIds, AwaitWindow, TakeId, AwaitSlot,
       Admit, AdmitRefused, Insert, DropLeases, Unreference, Unbatch, Cancel, Refuse, Fail
  <1> QED  BY <1>1, <1>2, <1>3, <1>4, <1>5, <1>6 DEF Kinds

-----------------------------------------------------------------------------
\* The rest of the connection.

\* An entry that ends gives its permit and its id back.
LEMMA ConcludeResources ==
    ASSUME CallInv, ResourceInv, NEW p \in Pairs, Conclude(p)
    PROVE  ResourceInv'
  <1>1. /\ p \in entry /\ entry' = entry \ {p} /\ reserved' = reserved \ {p} /\ window' = window + 1
        /\ UNCHANGED <<calls, batched, queue, receiver, stuck>>
    BY DEF Conclude
  <1>2. Kinds'
    BY <1>1, FS_RemoveElement DEF ResourceInv, Kinds, calls, Pairs, Own, Batches
  <1>3. Balance'
    <2>1. window + Cardinality(Carriers) + Cardinality(entry) = Window /\ window \in Nat
      BY DEF ResourceInv, Balance, WindowExact, Carriers, Carrying
    <2>2. Cardinality(entry) \in Nat /\ Cardinality(entry') = Cardinality(entry) - 1
      BY <1>1, FS_CardinalityType, FS_RemoveElement DEF ResourceInv, Kinds
    <2>3. Carriers' = Carriers /\ IsFiniteSet(Carriers)
      BY <1>1, FS_Subset, CallAssumption DEF Carriers, calls
    <2>4. Cardinality(Carriers) \in Nat /\ Cardinality(Carriers') = Cardinality(Carriers)
      BY <2>3, FS_CardinalityType
    <2>5. window' + Cardinality(Carriers') + Cardinality(entry') = Window
      BY <1>1, <2>1, <2>2, <2>4
    <2> QED  BY <1>1, <2>1, <2>5 DEF Balance, WindowExact, Carriers, Carrying
  <1>4. ASSUME NEW c \in Calls PROVE Claims(c)'
    <2>1. Claims(c) /\ Mine(c)' = Mine(c) \ {p} /\ pc' = pc
      BY <1>1 DEF ResourceInv, Mine, Own, calls
    <2> QED  BY <1>1, <2>1 DEF Claims
  <1> QED  BY <1>2, <1>3, <1>4 DEF ResourceInv

\* What the calls hold does not depend on the phase, and on the queue and the
\* references only by type.
LEMMA QuietResources ==
    ASSUME ResourceInv, UNCHANGED <<calls, batched, window, reserved, entry, stuck>>,
           queue' \subseteq queue, receiver' \in BOOLEAN
    PROVE  ResourceInv'
  <1>1. Kinds'
    BY DEF ResourceInv, Kinds, calls, Pairs, Own, Batches
  <1>2. Balance'
    BY DEF ResourceInv, Balance, WindowExact, calls
  <1>3. \A c \in Calls : Claims(c)'
    BY DEF ResourceInv, Claims, Mine, Own, calls
  <1> QED  BY <1>1, <1>2, <1>3 DEF ResourceInv

\* Before any call starts everything is free.
LEMMA InitResources == Init => ResourceInv
  <1> SUFFICES ASSUME Init PROVE ResourceInv
    OBVIOUS
  <1>1. Kinds
    <2>1. Batches \in Nat /\ \A c \in Calls : Segments[c] \in Nat /\ at[c] = 1
      BY CallAssumption DEF Batches, Init
    <2> QED  BY <2>1, FS_EmptySet DEF Init, Kinds
  <1>2. Balance
    <2>1. {c \in Calls : pc[c] \in {"lease", "slot", "admit"}} = {} /\ entry = {} /\ window = Window
      BY DEF Init
    <2> QED  BY <2>1, FS_EmptySet, CallAssumption DEF Balance, WindowExact
  <1>3. \A c \in Calls : Claims(c)
    BY DEF Init, Claims, Mine, Loop
  <1> QED  BY <1>1, <1>2, <1>3 DEF ResourceInv

\* Every step keeps what the calls hold in order.
LEMMA ResourceStep == CallInv /\ ResourceInv /\ [Next]_vars => ResourceInv'
  <1> SUFFICES ASSUME CallInv, ResourceInv, [Next]_vars PROVE ResourceInv'
    OBVIOUS
  <1>1. ASSUME NEW c \in Calls, CallStep(c) \/ Cancel(c) PROVE ResourceInv'
    BY <1>1, CallKinds, CallBalance, CallClaims DEF ResourceInv
  <1>2. ASSUME NEW c \in Calls, CooldownEnds(c) PROVE ResourceInv'
    BY <1>2, QuietResources DEF CooldownEnds, ResourceInv, Kinds
  <1>3. ASSUME NEW p \in Pairs, Dequeue(p) PROVE ResourceInv'
    BY <1>3, QuietResources DEF Dequeue, ResourceInv, Kinds
  <1>4. ASSUME NEW p \in Pairs, Conclude(p) PROVE ResourceInv'
    BY <1>4, ConcludeResources
  <1>5. CASE PhaseChange
    BY <1>5, QuietResources DEF PhaseChange, ResourceInv, Kinds
  <1>6. CASE UNCHANGED vars
    BY <1>6, QuietResources DEF vars, ResourceInv, Kinds
  <1>7. CASE WriterGone
    BY <1>7, QuietResources DEF WriterGone
  <1> QED  BY <1>1, <1>2, <1>3, <1>4, <1>5, <1>6, <1>7 DEF Next

\* The calls that hold manual ids no frame carries hold a batch permit.
LEMMA ManualUnderPermit == CallInv /\ ResourceInv => ManualBounded
  <1> SUFFICES ASSUME CallInv, ResourceInv PROVE ManualBounded
    OBVIOUS
  <1> DEFINE Crowd == {c \in Manual : (reserved \cap Own(c)) \ stuck # {}}
  <1>1. Crowd \subseteq batched
    BY CallAssumption DEF ResourceInv, Claims, Mine
  <1>2. IsFiniteSet(batched) /\ Cardinality(batched) \in Nat /\ Cardinality(batched) <= Batches
        /\ Batches \in Nat
    BY FS_Subset, FS_CardinalityType, CallAssumption DEF ResourceInv, Kinds, Batches
  <1>3. IsFiniteSet(Crowd) /\ Cardinality(Crowd) <= Cardinality(batched)
    BY <1>1, <1>2, FS_Subset
  <1>4. Cardinality(Crowd) \in Nat
    BY <1>3, FS_CardinalityType
  <1> QED  BY <1>2, <1>3, <1>4 DEF ManualBounded

\* Permits and ids are in exactly one place, whichever way calls end: the
\* window permit in hand, in an entry or free; a manual id under a batch
\* permit; and nothing of a call that is over but its entries and what
\* retire() refused (submit, send_submit, Drop of the leases).
THEOREM ResourcesAreExact == Spec => []ResourcesExact
  <1>1. CallInv /\ ResourceInv => ResourcesExact
    <2> SUFFICES ASSUME CallInv, ResourceInv PROVE ResourcesExact
      OBVIOUS
    <2>1. TypeOK
      <3>1. \A c \in Calls : at[c] \in 1 .. Segments[c] + 1
        BY CallAssumption DEF CallInv, CallTypes, ResourceInv, Kinds
      <3>2. /\ pc \in [Calls -> {"start", "batch", "ref", "ids", "window", "lease", "slot", "admit",
                                 "leases", "unref", "unbatch", "over"}]
            /\ at \in [Calls -> Nat]
        BY DEF CallInv, CallTypes, Early, Loop, Late
      <3> QED  BY <3>1, <3>2 DEF TypeOK, CallInv, CallTypes, ResourceInv, Kinds, Balance
    <2>2. NothingLeaked
      BY DEF NothingLeaked, Over, In, ResourceInv, Claims, Mine
    <2>3. WindowExact /\ ManualBounded
      BY ManualUnderPermit DEF ResourceInv, Balance
    <2> QED  BY <2>1, <2>2, <2>3 DEF ResourcesExact
  <1> QED  BY <1>1, InitResources, ResourceStep, CallInvariant, PTL DEF Spec
=============================================================================
