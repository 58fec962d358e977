------------------------ MODULE SubmitPipelineProofs ------------------------
(***************************************************************************)
(* Proofs about SubmitPipeline, and about the counters SubmitMetrics keeps *)
(* beside it, for every value of its constants.                            *)
(***************************************************************************)
EXTENDS SubmitMetrics, TLAPS, FiniteSetTheorems

\* Sets of ids are finite, so their sizes are numbers.
LEMMA SizeOfIds ==
    ASSUME NEW S, S \subseteq Ids PROVE Cardinality(S) \in Nat
BY FS_Subset, FS_CardinalityType, ConstantsAssumption DEF ConstantsAssumption

-----------------------------------------------------------------------------
\* Type correctness: what a step does not touch keeps its type.
LEMMA TypeFrame ==
    ASSUME TypeOK
    PROVE  /\ UNCHANGED conn => TypeConn'
           /\ UNCHANGED sub => TypeSub'
           /\ UNCHANGED entries => TypeEntries'
           /\ UNCHANGED queue => TypeQueue'
           /\ UNCHANGED writer => TypeWriter'
           /\ UNCHANGED reader => TypeReader'
           /\ UNCHANGED timer => TypeTimer'
           /\ UNCHANGED events => TypeEvents'
           /\ UNCHANGED closer => TypeCloser'
           /\ UNCHANGED fates => TypeFates'
           /\ UNCHANGED wire => TypeWire'
<1>1. UNCHANGED conn => TypeConn'
  BY DEF TypeOK, TypeConn, conn
<1>2. UNCHANGED sub => TypeSub'
  BY DEF TypeOK, TypeSub
<1>3. UNCHANGED entries => TypeEntries'
  BY DEF TypeOK, TypeEntries, entries
<1>4. UNCHANGED queue => TypeQueue'
  BY DEF TypeOK, TypeQueue
<1>5. UNCHANGED writer => TypeWriter'
  BY DEF TypeOK, TypeWriter, writer
<1>6. UNCHANGED reader => TypeReader'
  BY DEF TypeOK, TypeReader, reader
<1>7. UNCHANGED timer => TypeTimer'
  BY DEF TypeOK, TypeTimer, timer
<1>8. UNCHANGED events => TypeEvents'
  BY DEF TypeOK, TypeEvents, events
<1>9. UNCHANGED closer => TypeCloser'
  BY DEF TypeOK, TypeCloser, closer
<1>10. UNCHANGED fates => TypeFates'
  BY DEF TypeOK, TypeFates, fates
<1>11. UNCHANGED wire => TypeWire'
  BY DEF TypeOK, TypeWire, wire
<1> QED
  BY <1>1, <1>2, <1>3, <1>4, <1>5, <1>6, <1>7, <1>8, <1>9, <1>10, <1>11

\* The history of terminal events keeps its type when events are published
\* or given up.
LEMMA PublishType ==
    ASSUME TypeFates, NEW S, NEW kind \in {"resp", "timeout", "dropped"}, Publish(S, kind)
    PROVE  TypeFates'
<1>1. outcome' \in [Ids -> {"none", "resp", "timeout", "dropped"}]
  BY DEF TypeFates, Publish
<1>2. delivered' \in [Ids -> Nat]
  BY DEF TypeFates, Publish
<1> QED
  BY <1>1, <1>2 DEF TypeFates, Publish

\* The same when their terminals are given up.
LEMMA GiveUpType ==
    ASSUME TypeFates, NEW S, NEW why \in {"overflow", "refused", "budget"}, GiveUp(S, why)
    PROVE  TypeFates'
BY DEF TypeFates, GiveUp

\* The initial state is typed.
LEMMA TypeInit == Init => TypeOK
<1> SUFFICES ASSUME Init PROVE TypeOK
  OBVIOUS
<1> USE ConstantsAssumption DEF ConstantsAssumption, Init
<1>1. TypeConn /\ TypeSub
  BY DEF TypeConn, TypeSub, Live, Accepts
<1>2. TypeEntries
  BY DEF TypeEntries, Live, Accepts
<1>3. TypeQueue
  BY DEF TypeQueue, Live, Accepts
<1>4. TypeWriter
  BY DEF TypeWriter, Live, Accepts
<1>5. TypeReader /\ TypeTimer
  BY DEF TypeReader, TypeTimer, Live, Accepts
<1>6. TypeEvents /\ TypeCloser
  BY DEF TypeEvents, TypeCloser, Live, Accepts
<1>7. TypeFates /\ TypeWire
  BY DEF TypeFates, TypeWire, Live, Accepts
<1> QED
  BY <1>1, <1>2, <1>3, <1>4, <1>5, <1>6, <1>7 DEF TypeOK

\* A queued frame is an attempt key or the drain marker, never both.
LEMMA QueueHead ==
    ASSUME TypeOK, queue # <<>>
    PROVE  /\ Tail(queue) \in Seq(Key \cup {Marker})
           /\ Head(queue) # Marker => Head(queue) \in Key
BY DEF TypeOK, TypeQueue

\* An entry has made at least one attempt; the key of an expired attempt is
\* typed because of it, so types are inductive only together with it.
Attempted == \A i \in Ids : st[i] # "absent" => att[i] > 0
TypeInv   == TypeOK /\ Attempted

\* Every step keeps the types: one action at a time, one part it touches at a time.
LEMMA TypeStep == TypeInv /\ [Next]_vars => TypeOK'
<1> SUFFICES ASSUME TypeOK, Attempted, [Next]_vars PROVE TypeOK'
  BY DEF TypeInv
<1>1. ASSUME NEW i \in Ids, AcquirePermit(i) PROVE TypeOK'
  <2>1. TypeSub'
    BY <1>1 DEF AcquirePermit, TypeOK, TypeSub
  <2>2. TypeEntries'
    BY <1>1 DEF AcquirePermit, TypeOK, TypeEntries, entries, Live
  <2> QED
    BY <1>1, <2>1, <2>2, TypeFrame DEF AcquirePermit, TypeOK
<1>2. ASSUME NEW i \in Ids, ReserveSlot(i) PROVE TypeOK'
  <2>1. TypeSub'
    BY <1>2 DEF ReserveSlot, TypeOK, TypeSub
  <2> QED
    BY <1>2, <2>1, TypeFrame DEF ReserveSlot, TypeOK
<1>3. ASSUME NEW i \in Ids, Abandon(i) PROVE TypeOK'
  <2>1. TypeSub'
    BY <1>3 DEF Abandon, TypeOK, TypeSub
  <2>2. TypeEntries'
    BY <1>3 DEF Abandon, TypeOK, TypeEntries, entries, Live
  <2> QED
    BY <1>3, <2>1, <2>2, TypeFrame DEF Abandon, TypeOK
<1>4. ASSUME NEW i \in Ids, Admit(i) PROVE TypeOK'
  <2>1. TypeSub'
    BY <1>4 DEF Admit, TypeOK, TypeSub
  <2>2. TypeEntries'
    BY <1>4, ConstantsAssumption DEF Admit, TypeOK, TypeEntries, entries, Live, ConstantsAssumption
  <2>3. TypeQueue'
    BY <1>4, ConstantsAssumption DEF Admit, TypeOK, TypeQueue, Key, ConstantsAssumption
  <2> QED
    BY <1>4, <2>1, <2>2, <2>3, TypeFrame DEF Admit, TypeOK
<1>5. ASSUME NEW i \in Ids, Refuse(i) PROVE TypeOK'
  <2>1. TypeConn'
    BY <1>5 DEF Refuse, TypeOK, TypeConn, conn, Finish
  <2>2. TypeSub'
    BY <1>5 DEF Refuse, TypeOK, TypeSub
  <2>3. TypeEntries'
    BY <1>5 DEF Refuse, TypeOK, TypeEntries, entries, Live
  <2> QED
    BY <1>5, <2>1, <2>2, <2>3, TypeFrame DEF Refuse, TypeOK
<1>6. ASSUME WriterPick PROVE TypeOK'
  <2>1. TypeQueue'
    BY <1>6, QueueHead DEF WriterPick, TypeOK, TypeQueue
  <2>2. TypeWriter'
    BY <1>6, QueueHead DEF WriterPick, TypeOK, TypeWriter, writer
  <2> QED
    BY <1>6, <2>1, <2>2, TypeFrame DEF WriterPick, TypeOK
<1>7. ASSUME WriterClaim PROVE TypeOK'
  <2>1. TypeConn'
    BY <1>7 DEF WriterClaim, TypeOK, TypeConn, conn, AckMarker
  <2>2. TypeCloser'
    BY <1>7 DEF WriterClaim, TypeOK, TypeCloser, closer, AckMarker
  <2>3. TypeEntries'
    BY <1>7 DEF WriterClaim, TypeOK, TypeEntries, entries, Live
  <2>4. TypeWriter'
    BY <1>7 DEF WriterClaim, TypeOK, TypeWriter, writer, AckMarker
  <2>5. TypeWire'
    BY <1>7 DEF WriterClaim, TypeOK, TypeWire, wire
  <2> QED
    BY <1>7, <2>1, <2>2, <2>3, <2>4, <2>5, TypeFrame DEF WriterClaim, TypeOK
<1>8. ASSUME WriterComplete PROVE TypeOK'
  <2>1. TypeConn'
    BY <1>8 DEF WriterComplete, TypeOK, TypeConn, conn, AckMarker
  <2>2. TypeCloser'
    BY <1>8 DEF WriterComplete, TypeOK, TypeCloser, closer, AckMarker
  <2> DEFINE gone == {i \in {k.id : k \in {b \in wbatch : att[b.id] = b.attempt}} : st[i] = "Responded"}
  <2>0. Cardinality(gone) \in Nat
    BY SizeOfIds DEF TypeOK, TypeWriter, Key
  <2>3. TypeEntries'
    BY <1>8, <2>0 DEF WriterComplete, TypeOK, TypeEntries, entries, Live
  <2>4. TypeWriter'
    BY <1>8 DEF WriterComplete, TypeOK, TypeWriter, writer, AckMarker
  <2>5. TypeWire'
    BY <1>8 DEF WriterComplete, TypeOK, TypeWire, wire
  <2> QED
    BY <1>8, <2>1, <2>2, <2>3, <2>4, <2>5, TypeFrame DEF WriterComplete, TypeOK
<1>9. ASSUME WriterStop PROVE TypeOK'
  <2>1. TypeConn'
    BY <1>9 DEF WriterStop, TypeOK, TypeConn, conn, Finish
  <2>2. TypeWriter'
    BY <1>9 DEF WriterStop, TypeOK, TypeWriter, writer
  <2> QED
    BY <1>9, <2>1, <2>2, TypeFrame DEF WriterStop, TypeOK
<1>10. ASSUME NEW i \in Ids, Decode(i) PROVE TypeOK'
  <2>1. TypeReader'
    BY <1>10 DEF Decode, TypeOK, TypeReader, reader
  <2>2. TypeWire'
    BY <1>10 DEF Decode, TypeOK, TypeWire, wire
  <2> QED
    BY <1>10, <2>1, <2>2, TypeFrame DEF Decode, TypeOK
<1>11. ASSUME Match PROVE TypeOK'
  <2> DEFINE gone == {i \in {j \in rbuf : st[j] \in Live} : st[i] # "Writing"}
  <2>0. Cardinality(gone) \in Nat
    BY SizeOfIds DEF TypeOK, TypeReader
  <2>1. TypeEntries'
    BY <1>11, <2>0 DEF Match, TypeOK, TypeEntries, entries, Live
  <2>2. TypeReader'
    BY <1>11 DEF Match, TypeOK, TypeReader, reader
  <2> QED
    BY <1>11, <2>1, <2>2, TypeFrame DEF Match, TypeOK
<1>12. ASSUME NEW i \in Ids, EmitResp(i) PROVE TypeOK'
  <2>1. TypeReader'
    BY <1>12 DEF EmitResp, TypeOK, TypeReader, reader
  <2>2. TypeEvents'
    BY <1>12 DEF EmitResp, TypeOK, TypeEvents, events, Accepts, Emit
  <2>3. TypeFates'
    BY <1>12, PublishType, GiveUpType DEF EmitResp, TypeOK, fates
  <2> QED
    BY <1>12, <2>1, <2>2, <2>3, TypeFrame DEF EmitResp, TypeOK
<1>13. ASSUME PeerTerminate PROVE TypeOK'
  <2>1. TypeConn'
    BY <1>13 DEF PeerTerminate, TypeOK, TypeConn, conn, CloseWithoutDrain
  <2>2. TypeReader'
    BY <1>13 DEF PeerTerminate, TypeOK, TypeReader, reader
  <2>3. TypeEvents'
    BY <1>13 DEF PeerTerminate, TypeOK, TypeEvents, events, Accepts, BeginEventDrain
  <2> QED
    BY <1>13, <2>1, <2>2, <2>3, TypeFrame DEF PeerTerminate, TypeOK
<1>14. ASSUME PeerTerminateAnswered PROVE TypeOK'
  <2>1. TypeConn'
    BY <1>14 DEF PeerTerminateAnswered, TypeOK, TypeConn, conn, Finish
  <2>2. TypeReader'
    BY <1>14 DEF PeerTerminateAnswered, TypeOK, TypeReader, reader
  <2> QED
    BY <1>14, <2>1, <2>2, TypeFrame DEF PeerTerminateAnswered, TypeOK
<1>15. ASSUME DeliverOverflow PROVE TypeOK'
  <2>1. TypeReader'
    BY <1>15 DEF DeliverOverflow, TypeOK, TypeReader, reader
  <2>2. TypeEvents'
    BY <1>15 DEF DeliverOverflow, TypeOK, TypeEvents, events, Accepts, Emit
  <2> QED
    BY <1>15, <2>1, <2>2, TypeFrame DEF DeliverOverflow, TypeOK
<1>16. ASSUME ReaderStop PROVE TypeOK'
  <2>1. TypeConn'
    BY <1>16 DEF ReaderStop, TypeOK, TypeConn, conn, Finish
  <2>2. TypeReader'
    BY <1>16 DEF ReaderStop, TypeOK, TypeReader, reader
  <2> QED
    BY <1>16, <2>1, <2>2, TypeFrame DEF ReaderStop, TypeOK
<1>17. ASSUME TimerTick PROVE TypeOK'
  <2>1. TypeTimer'
    BY <1>17 DEF TimerTick, TypeOK, TypeTimer, timer
  <2> QED
    BY <1>17, <2>1, TypeFrame DEF TimerTick, TypeOK
<1>18. ASSUME TimerScan PROVE TypeOK'
  <2>0. \A i \in Ids : st[i] = "Awaiting" => att[i] \in 1..RetryCount
    BY DEF Attempted, TypeOK, TypeEntries, Live
  <2>2. AwaitingKeys \subseteq Key
    BY <2>0 DEF AwaitingKeys, Key
  <2>1. TypeTimer'
    BY <1>18, <2>2 DEF TimerScan, TypeOK, TypeTimer
  <2> QED
    BY <1>18, <2>1, TypeFrame DEF TimerScan, TypeOK
<1>19. ASSUME NEW k \in tkeys, TimeoutExhausted(k) PROVE TypeOK'
  <2>0. k \in Key
    BY DEF TypeOK, TypeTimer
  <2>1. \/ st' = [st EXCEPT ![k.id] = "absent"] /\ permits' = permits + 1
        \/ UNCHANGED <<st, permits>>
    BY <1>19 DEF TimeoutExhausted
  <2>2. TypeConn'
    BY <1>19, <2>0 DEF TimeoutExhausted, TypeOK, TypeConn, conn, Key, Finish
  <2>3. TypeEntries'
    BY <1>19, <2>0, <2>1 DEF TimeoutExhausted, TypeOK, TypeEntries, entries, Key, Live
  <2>4. TypeTimer'
    BY <1>19, <2>0 DEF TimeoutExhausted, TypeOK, TypeTimer, timer, Key, Worked, Stopped
  <2>5. TypeEvents'
    BY <1>19, <2>0 DEF TimeoutExhausted, TypeOK, TypeEvents, events, Key, Accepts, Emit
  <2>7. Publish({k.id}, "timeout") \/ UNCHANGED fates
    BY <1>19 DEF TimeoutExhausted
  <2>6. TypeFates'
    BY <2>7, TypeFrame, PublishType DEF TypeOK
  <2> QED
    BY <1>19, <2>2, <2>3, <2>4, <2>5, <2>6, TypeFrame DEF TimeoutExhausted, TypeOK
<1>20. ASSUME NEW k \in tkeys, TimeoutRetry(k) PROVE TypeOK'
  <2>0. k \in Key
    BY DEF TypeOK, TypeTimer
  <2>1. TypeEntries'
    BY <1>20, <2>0, ConstantsAssumption DEF TimeoutRetry, TypeOK, TypeEntries, entries, Key, Live, ConstantsAssumption
  <2>2. TypeQueue'
    BY <1>20, <2>0, ConstantsAssumption DEF TimeoutRetry, TypeOK, TypeQueue, Key, ConstantsAssumption
  <2>3. TypeTimer'
    BY <1>20, <2>0 DEF TimeoutRetry, TypeOK, TypeTimer, timer, Key, Worked
  <2> QED
    BY <1>20, <2>1, <2>2, <2>3, TypeFrame DEF TimeoutRetry, TypeOK
<1>21. ASSUME NEW k \in tkeys, TimeoutSkip(k) PROVE TypeOK'
  <2>0. k \in Key
    BY DEF TypeOK, TypeTimer
  <2>1. TypeTimer'
    BY <1>21, <2>0 DEF TimeoutSkip, TypeOK, TypeTimer, timer, Key, Worked
  <2> QED
    BY <1>21, <2>1, TypeFrame DEF TimeoutSkip, TypeOK
<1>22. ASSUME NEW k \in tkeys, TimeoutStop(k) PROVE TypeOK'
  <2>1. TypeTimer'
    BY <1>22 DEF TimeoutStop, TypeOK, TypeTimer, timer, Stopped
  <2>2. TypeConn'
    BY <1>22 DEF TimeoutStop, TypeOK, TypeConn, conn, Finish
  <2> QED
    BY <1>22, <2>1, <2>2, TypeFrame DEF TimeoutStop, TypeOK
<1>23. ASSUME TimerRest PROVE TypeOK'
  <2>1. TypeTimer'
    BY <1>23 DEF TimerRest, TypeOK, TypeTimer, timer
  <2> QED
    BY <1>23, <2>1, TypeFrame DEF TimerRest, TypeOK
<1>24. ASSUME Backpressure PROVE TypeOK'
  <2>1. TypeEvents'
    BY <1>24 DEF Backpressure, TypeOK, TypeEvents, events, Accepts
  <2> QED
    BY <1>24, <2>1, TypeFrame DEF Backpressure, TypeOK
<1>25. ASSUME BackpressureClose PROVE TypeOK'
  <2>1. TypeEvents'
    BY <1>25 DEF BackpressureClose, TypeOK, TypeEvents, events, Accepts
  <2> QED
    BY <1>25, <2>1, TypeFrame DEF BackpressureClose, TypeOK
<1>26. ASSUME OverloadStart PROVE TypeOK'
  <2>1. TypeConn'
    BY <1>26 DEF OverloadStart, TypeOK, TypeConn, conn, CloseWithoutDrain
  <2>2. TypeEvents'
    BY <1>26 DEF OverloadStart, TypeOK, TypeEvents, events, Accepts
  <2> QED
    BY <1>26, <2>1, <2>2, TypeFrame DEF OverloadStart, TypeOK
<1>27. ASSUME OverloadSeal PROVE TypeOK'
  <2>1. TypeEvents'
    BY <1>27 DEF OverloadSeal, TypeOK, TypeEvents, events, Accepts, Seal
  <2> QED
    BY <1>27, <2>1, TypeFrame DEF OverloadSeal, TypeOK
<1>28. ASSUME OverloadFinish PROVE TypeOK'
  <2>1. TypeConn'
    BY <1>28 DEF OverloadFinish, TypeOK, TypeConn, conn, Finish
  <2>2. TypeEvents'
    BY <1>28 DEF OverloadFinish, TypeOK, TypeEvents, events, Accepts
  <2> QED
    BY <1>28, <2>1, <2>2, TypeFrame DEF OverloadFinish, TypeOK
<1>29. ASSUME CloseCall PROVE TypeOK'
  <2>1. TypeConn'
    BY <1>29 DEF CloseCall, TypeOK, TypeConn, conn
  <2>2. TypeEvents'
    BY <1>29 DEF CloseCall, TypeOK, TypeEvents, events, Accepts, BeginEventDrain
  <2>3. TypeCloser'
    BY <1>29 DEF CloseCall, TypeOK, TypeCloser, closer
  <2> QED
    BY <1>29, <2>1, <2>2, <2>3, TypeFrame DEF CloseCall, TypeOK
<1>30. ASSUME CloseSendMarker PROVE TypeOK'
  <2>1. TypeQueue'
    BY <1>30 DEF CloseSendMarker, TypeOK, TypeQueue, Key
  <2>2. TypeCloser'
    BY <1>30 DEF CloseSendMarker, TypeOK, TypeCloser, closer
  <2> QED
    BY <1>30, <2>1, <2>2, TypeFrame DEF CloseSendMarker, TypeOK
<1>31. ASSUME CloseDrained PROVE TypeOK'
  <2>1. TypeConn'
    BY <1>31 DEF CloseDrained, TypeOK, TypeConn, conn
  <2>2. TypeCloser'
    BY <1>31 DEF CloseDrained, TypeOK, TypeCloser, closer
  <2> QED
    BY <1>31, <2>1, <2>2, TypeFrame DEF CloseDrained, TypeOK
<1>32. ASSUME CloseSeal PROVE TypeOK'
  <2>1. TypeEvents'
    BY <1>32 DEF CloseSeal, TypeOK, TypeEvents, events, Accepts, Seal
  <2>2. TypeCloser'
    BY <1>32 DEF CloseSeal, TypeOK, TypeCloser, closer
  <2> QED
    BY <1>32, <2>1, <2>2, TypeFrame DEF CloseSeal, TypeOK
<1>33. ASSUME CloseFinish PROVE TypeOK'
  <2>1. TypeConn'
    BY <1>33 DEF CloseFinish, TypeOK, TypeConn, conn, Finish
  <2>2. TypeCloser'
    BY <1>33 DEF CloseFinish, TypeOK, TypeCloser, closer
  <2> QED
    BY <1>33, <2>1, <2>2, TypeFrame DEF CloseFinish, TypeOK
<1>34. ASSUME CloseReap PROVE TypeOK'
  <2>1. TypeConn'
    BY <1>34 DEF CloseReap, TypeOK, TypeConn, conn, Finish
  <2>2. TypeCloser'
    BY <1>34 DEF CloseReap, TypeOK, TypeCloser, closer
  <2> QED
    BY <1>34, <2>1, <2>2, TypeFrame DEF CloseReap, TypeOK
<1>35. ASSUME OtherFinish PROVE TypeOK'
  <2>1. TypeConn'
    BY <1>35 DEF OtherFinish, TypeOK, TypeConn, conn, Finish
  <2> QED
    BY <1>35, <2>1, TypeFrame DEF OtherFinish, TypeOK
<1>36. ASSUME CleanupClear PROVE TypeOK'
  <2>1. TypeConn'
    BY <1>36 DEF CleanupClear, TypeOK, TypeConn, conn
  <2> QED
    BY <1>36, <2>1, TypeFrame DEF CleanupClear, TypeOK
<1>37. ASSUME CleanupFail PROVE TypeOK'
  <2>1. TypeConn'
    BY <1>37 DEF CleanupFail, TypeOK, TypeConn, conn
  <2> DEFINE gone == {i \in Ids : st[i] # "absent"}
  <2>0. Cardinality(gone) \in Nat
    BY SizeOfIds
  <2>2. TypeEntries'
    BY <1>37, <2>0 DEF CleanupFail, TypeOK, TypeEntries, entries, Live
  <2> QED
    BY <1>37, <2>1, <2>2, TypeFrame DEF CleanupFail, TypeOK
<1>38. ASSUME CleanupSend PROVE TypeOK'
  <2>1. TypeConn'
    BY <1>38 DEF CleanupSend, TypeOK, TypeConn, conn
  <2>2. TypeFates'
    BY <1>38, PublishType, GiveUpType DEF CleanupSend, TypeOK, fates
  <2> QED
    BY <1>38, <2>1, <2>2, TypeFrame DEF CleanupSend, TypeOK
<1>39. ASSUME CleanupClose PROVE TypeOK'
  <2>1. TypeConn'
    BY <1>39 DEF CleanupClose, TypeOK, TypeConn, conn
  <2>2. TypeEvents'
    BY <1>39 DEF CleanupClose, TypeOK, TypeEvents, events, Accepts
  <2> QED
    BY <1>39, <2>1, <2>2, TypeFrame DEF CleanupClose, TypeOK
<1>40. CASE UNCHANGED vars
  BY <1>40, TypeFrame DEF vars, TypeOK
<1> QED
  BY <1>1, <1>2, <1>3, <1>4, <1>5, <1>6, <1>7, <1>8, <1>9, <1>10, <1>11, <1>12, <1>13, <1>14, <1>15, <1>16, <1>17, <1>18, <1>19, <1>20, <1>21, <1>23, <1>24, <1>25, <1>26, <1>27, <1>28, <1>29, <1>30, <1>31, <1>32, <1>33, <1>34, <1>35, <1>36, <1>37, <1>38, <1>39, <1>40, <1>22
  DEF Next, Caller, Writer, Reader, Peer, Timeouts, Overload, Close, Cleanup

-----------------------------------------------------------------------------
\* Which steps touch what the accounting of terminals reads.
LEMMA EntrySteps ==
    ASSUME [Next]_vars
    PROVE  \/ \E i \in Ids : AcquirePermit(i) \/ ReserveSlot(i) \/ Abandon(i) \/ Admit(i) \/ Refuse(i)
           \/ WriterClaim \/ WriterComplete \/ Match \/ CleanupFail \/ CleanupSend
           \/ \E i \in Ids : EmitResp(i)
           \/ \E k \in tkeys : TimeoutExhausted(k) \/ TimeoutRetry(k)
           \/ UNCHANGED <<sub, st, att, remit, dropList, outcome, delivered, lost>>
<1> DEFINE Same == UNCHANGED <<sub, st, att, remit, dropList, outcome, delivered, lost>>
<1> USE DEF conn, entries, writer, reader, timer, fates
<1>1. WriterPick \/ WriterStop => Same
  BY DEF WriterPick, WriterStop, Finish
<1>2. PeerTerminateAnswered \/ PeerTerminate \/ DeliverOverflow \/ ReaderStop => Same
  BY DEF PeerTerminateAnswered, PeerTerminate, DeliverOverflow, ReaderStop, Finish, CloseWithoutDrain
<1>3. \A i \in Ids : Decode(i) => Same
  BY DEF Decode
<1>4. TimerTick \/ TimerScan \/ TimerRest => Same
  BY DEF TimerTick, TimerScan, TimerRest
<1>5. \A k \in tkeys : TimeoutSkip(k) \/ TimeoutStop(k) => Same
  BY DEF TimeoutSkip, TimeoutStop, Finish
<1>6. Backpressure \/ Overload => Same
  BY DEF Backpressure, Overload, BackpressureClose, OverloadStart, OverloadSeal, OverloadFinish, Finish, CloseWithoutDrain
<1>7. CloseCall \/ Close \/ OtherFinish => Same
  BY DEF CloseCall, Close, CloseSendMarker, CloseDrained, CloseSeal, CloseFinish, CloseReap, OtherFinish, Finish
<1>8. CleanupClear \/ CleanupClose => Same
  BY DEF CleanupClear, CleanupClose
<1>9. UNCHANGED vars => Same
  BY DEF vars
<1> HIDE DEF Same
<1>10. CASE Next
  <2>1. (\E i \in Ids : Caller(i)) \/ Writer \/ Reader \/ Peer \/ Timeouts
        \/ Backpressure \/ Overload \/ CloseCall \/ Close \/ OtherFinish \/ Cleanup
    BY <1>10 DEF Next
  <2> QED
    BY <2>1, <1>1, <1>2, <1>3, <1>4, <1>5, <1>6, <1>7, <1>8
       DEF Same, Caller, Writer, Reader, Peer, Timeouts, Cleanup
<1> QED
  BY <1>9, <1>10 DEF Same

\* How a step may move the phase and the cleanup task.
LEMMA ConnSteps ==
    ASSUME [Next]_vars
    PROVE  \/ UNCHANGED <<phase, cleanup, dropList>>
           \/ phase # "Closed" /\ phase' = "Closed" /\ cleanup' = "clear" /\ UNCHANGED dropList
           \/ phase = "Open" /\ phase' = "Closing" /\ UNCHANGED <<cleanup, dropList>>
           \/ CleanupClear \/ CleanupFail \/ CleanupSend \/ CleanupClose
<1> DEFINE Same   == UNCHANGED <<phase, cleanup, dropList>>
           Ended  == phase # "Closed" /\ phase' = "Closed" /\ cleanup' = "clear" /\ UNCHANGED dropList
           Ending == phase = "Open" /\ phase' = "Closing" /\ UNCHANGED <<cleanup, dropList>>
<1>1. Finish => Same \/ Ended
  BY DEF Finish, conn
<1>2. CloseWithoutDrain => Same \/ Ending
  BY DEF CloseWithoutDrain
<1>3. UNCHANGED conn => Same
  BY DEF conn
<1>4. AckMarker => Same
  BY DEF AckMarker
<1> HIDE DEF Same, Ended, Ending
<1>5. \A i \in Ids : Caller(i) => Same \/ Ended
  BY <1>1, <1>3 DEF Caller, AcquirePermit, ReserveSlot, Abandon, Admit, Refuse
<1>6. Writer => Same \/ Ended
  <2>1. WriterClaim => Same
    BY <1>4 DEF WriterClaim, Same
  <2> QED
    BY <2>1, <1>1, <1>3, <1>4 DEF Writer, WriterPick, WriterComplete, WriterStop
<1>7. Reader \/ Peer => Same \/ Ended \/ Ending
  BY <1>1, <1>2, <1>3 DEF Reader, Peer, Match, EmitResp, PeerTerminateAnswered, Decode, PeerTerminate,
     DeliverOverflow, ReaderStop
<1>8. Timeouts => Same \/ Ended
  <2>1. \A k \in tkeys : TimeoutExhausted(k) => Same \/ Ended
    BY <1>1, <1>3 DEF TimeoutExhausted, conn
  <2>2. \A k \in tkeys : TimeoutStop(k) => Same \/ Ended
    BY <1>1, <1>3 DEF TimeoutStop
  <2> QED
    BY <2>1, <2>2, <1>3 DEF Timeouts, TimerTick, TimerScan, TimerRest, TimeoutRetry, TimeoutSkip
<1>9. Backpressure \/ Overload => Same \/ Ended \/ Ending
  BY <1>1, <1>2, <1>3 DEF Backpressure, Overload, BackpressureClose, OverloadStart, OverloadSeal, OverloadFinish
<1>10. CloseCall => Same \/ Ending
  BY DEF CloseCall, Same, Ending
<1>11. CloseDrained => Same \/ Ended
  BY DEF CloseDrained, Same, Ended
<1>12. Close \/ OtherFinish => Same \/ Ended
  BY <1>1, <1>3, <1>11 DEF Close, CloseSendMarker, CloseSeal, CloseFinish, CloseReap, OtherFinish
<1>13. UNCHANGED vars => Same
  BY <1>3 DEF vars
<1> QED
  BY <1>5, <1>6, <1>7, <1>8, <1>9, <1>10, <1>12, <1>13 DEF Next, Cleanup, Same, Ended, Ending

-----------------------------------------------------------------------------
\* finish() runs once and its cleanup owes terminals only while it sends them.
CleanupOnce == /\ phase # "Closed" => cleanup = "off"
               /\ cleanup # "send" => dropList = {}

\* Every step keeps it.
LEMMA CleanupOnceStep == TypeInv /\ CleanupOnce /\ [Next]_vars => CleanupOnce'
<1> SUFFICES ASSUME TypeInv, CleanupOnce, [Next]_vars PROVE CleanupOnce'
  OBVIOUS
<1>1. CASE UNCHANGED <<phase, cleanup, dropList>>
  BY <1>1 DEF CleanupOnce
<1>2. CASE phase # "Closed" /\ phase' = "Closed" /\ cleanup' = "clear" /\ UNCHANGED dropList
  BY <1>2 DEF CleanupOnce
<1>3. CASE phase = "Open" /\ phase' = "Closing" /\ UNCHANGED <<cleanup, dropList>>
  BY <1>3 DEF CleanupOnce
<1>4. CASE CleanupClear \/ CleanupFail \/ CleanupSend \/ CleanupClose
  BY <1>4 DEF CleanupOnce, CleanupClear, CleanupFail, CleanupSend, CleanupClose
<1> QED
  BY <1>1, <1>2, <1>3, <1>4, ConnSteps

\* How the steps that change several entries at once change one of them.
LEMMA ClaimMoves ==
    ASSUME TypeOK, WriterClaim
    PROVE  \A i \in Ids : st'[i] = st[i] \/ (st[i] = "Queued" /\ st'[i] = "Writing")
<1> DEFINE ids == {k.id : k \in {b \in wbatch : Claimable(b)}}
<1>1. \A i \in ids : st[i] = "Queued"
  BY DEF Claimable
<1>2. st' = [i \in Ids |-> IF i \in ids THEN "Writing" ELSE st[i]]
  BY DEF WriterClaim
<1> QED
  BY <1>1, <1>2

\* A completed write turns Writing into Awaiting and removes what was answered.
LEMMA CompleteMoves ==
    ASSUME TypeOK, WriterComplete
    PROVE  \A i \in Ids : \/ st'[i] = st[i]
                          \/ st[i] = "Writing" /\ st'[i] = "Awaiting"
                          \/ st[i] = "Responded" /\ st'[i] = "absent"
BY DEF WriterComplete

\* Every step keeps the attempt number of an entry above zero.
LEMMA AttemptedStep == TypeInv /\ [Next]_vars => Attempted'
<1> SUFFICES ASSUME TypeInv, [Next]_vars, NEW i \in Ids, st'[i] # "absent" PROVE att'[i] > 0
  BY DEF Attempted
<1> USE DEF TypeInv, TypeOK, TypeEntries, TypeTimer, Attempted
<1>1. ASSUME UNCHANGED <<st, att>> PROVE att'[i] > 0
  BY <1>1
<1>2. ASSUME NEW j \in Ids, Admit(j) PROVE att'[i] > 0
  BY <1>2 DEF Admit
<1>3. ASSUME WriterClaim PROVE att'[i] > 0
  BY <1>3, ClaimMoves DEF WriterClaim
<1>4. ASSUME WriterComplete PROVE att'[i] > 0
  BY <1>4, CompleteMoves DEF WriterComplete
<1>5. ASSUME Match PROVE att'[i] > 0
  BY <1>5 DEF Match
<1>6. ASSUME CleanupFail PROVE att'[i] > 0
  BY <1>6 DEF CleanupFail
<1>7. ASSUME NEW k \in tkeys, TimeoutExhausted(k) PROVE att'[i] > 0
  <2>1. att' = att /\ (st' = st \/ st' = [st EXCEPT ![k.id] = "absent"])
    BY <1>7 DEF TimeoutExhausted
  <2> QED
    BY <2>1
<1>8. ASSUME NEW k \in tkeys, TimeoutRetry(k) PROVE att'[i] > 0
  BY <1>8 DEF TimeoutRetry, Key
<1>9. \A j \in Ids : AcquirePermit(j) \/ ReserveSlot(j) \/ Abandon(j) \/ Refuse(j) \/ EmitResp(j)
                        => UNCHANGED <<st, att>>
  BY DEF AcquirePermit, ReserveSlot, Abandon, Refuse, EmitResp, entries
<1>10. CleanupSend => UNCHANGED <<st, att>>
  BY DEF CleanupSend, entries
<1> QED
  BY <1>1, <1>2, <1>3, <1>4, <1>5, <1>6, <1>7, <1>8, <1>9, <1>10, EntrySteps

-----------------------------------------------------------------------------
\* The inductive invariant behind the accounting of terminals.
AccountInv == TypeInv /\ CleanupOnce /\ TerminalAccounted

\* Every step moves the terminal an id is owed from one hand to the next.
LEMMA AccountedStep == AccountInv /\ [Next]_vars => TerminalAccounted'
<1> SUFFICES ASSUME AccountInv, [Next]_vars, NEW i \in Ids PROVE Accounted(i)'
  BY DEF TerminalAccounted
<1>0. /\ TypeOK /\ CleanupOnce /\ Accounted(i)
      /\ sub \in [Ids -> {"new", "permit", "slot", "admitted", "refused"}]
      /\ st \in [Ids -> Live \cup {"Responded", "absent"}]
      /\ delivered \in [Ids -> Nat]
      /\ lost \in [Ids -> {"no", "overflow", "refused", "budget"}]
  BY DEF AccountInv, TypeInv, TerminalAccounted, TypeOK, TypeSub, TypeEntries, TypeFates
<1> USE DEF Accounted, Count, Live
<1>1. ASSUME UNCHANGED <<sub, st, remit, dropList, delivered, lost>> PROVE Accounted(i)'
  BY <1>0, <1>1
<1>2. ASSUME NEW j \in Ids, AcquirePermit(j) \/ ReserveSlot(j) \/ Abandon(j) \/ Refuse(j)
      PROVE  Accounted(i)'
  <2>1. /\ UNCHANGED <<st, remit, dropList, delivered, lost>>
        /\ sub[j] # "admitted" /\ \E v \in {"permit", "slot", "refused"} : sub' = [sub EXCEPT ![j] = v]
    BY <1>2, <1>0 DEF AcquirePermit, ReserveSlot, Abandon, Refuse, Finish, conn, entries, reader, fates
  <2> QED
    BY <2>1, <1>0
<1>3. ASSUME NEW j \in Ids, Admit(j) PROVE Accounted(i)'
  <2>1. /\ UNCHANGED <<remit, dropList, delivered, lost>> /\ sub[j] = "slot"
        /\ sub' = [sub EXCEPT ![j] = "admitted"] /\ st' = [st EXCEPT ![j] = "Queued"]
    BY <1>3 DEF Admit, conn, reader, fates
  <2> QED
    BY <2>1, <1>0
<1>4. ASSUME WriterClaim PROVE Accounted(i)'
  <2>1. UNCHANGED <<sub, remit, dropList, delivered, lost>>
    BY <1>4 DEF WriterClaim, AckMarker, reader, fates
  <2> QED
    BY <1>4, <2>1, <1>0, ClaimMoves
<1>5. ASSUME WriterComplete PROVE Accounted(i)'
  <2>1. UNCHANGED <<sub, remit, dropList, delivered, lost>>
    BY <1>5 DEF WriterComplete, AckMarker, reader, fates
  <2> QED
    BY <1>5, <2>1, <1>0, CompleteMoves
<1>6. ASSUME Match PROVE Accounted(i)'
  <2>1. UNCHANGED <<sub, dropList, delivered, lost>> /\ remit = {}
    BY <1>6 DEF Match, conn, fates
  <2>2. (i \in remit') <=> (i \in rbuf /\ st[i] \in Live)
    BY <1>6 DEF Match
  <2>3. st'[i] = IF i \in rbuf /\ st[i] \in Live
                 THEN IF st[i] = "Writing" THEN "Responded" ELSE "absent" ELSE st[i]
    BY <1>6 DEF Match
  <2> QED
    BY <2>1, <2>2, <2>3, <1>0
<1>7. ASSUME NEW j \in Ids, EmitResp(j) PROVE Accounted(i)'
  <2>1. /\ UNCHANGED <<sub, st, dropList>> /\ j \in remit /\ remit' = remit \ {j}
        /\ \/ Publish({j}, "resp")
           \/ \E why \in {"overflow", "refused"} : GiveUp({j}, why)
    BY <1>7 DEF EmitResp, conn, entries
  <2> QED
    BY <2>1, <1>0 DEF Publish, GiveUp
<1>8. ASSUME NEW k \in tkeys, TimeoutExhausted(k) PROVE Accounted(i)'
  <2>1. UNCHANGED <<sub, remit, dropList>> /\ st[k.id] = "Awaiting"
    BY <1>8 DEF TimeoutExhausted, StillExpired, Finish, conn, reader
  <2>2. \/ Publish({k.id}, "timeout") /\ st' = [st EXCEPT ![k.id] = "absent"]
        \/ UNCHANGED <<st, delivered, lost>>
    BY <1>8 DEF TimeoutExhausted, fates
  <2> QED
    BY <2>1, <2>2, <1>0 DEF Publish
<1>9. ASSUME NEW k \in tkeys, TimeoutRetry(k) PROVE Accounted(i)'
  <2>1. /\ UNCHANGED <<sub, remit, dropList, delivered, lost>>
        /\ st[k.id] = "Awaiting" /\ st' = [st EXCEPT ![k.id] = "Queued"]
    BY <1>9 DEF TimeoutRetry, StillExpired, conn, reader, fates
  <2> QED
    BY <2>1, <1>0
<1>10. ASSUME CleanupFail PROVE Accounted(i)'
  <2>1. UNCHANGED <<sub, remit, delivered, lost>> /\ dropList = {}
    BY <1>10, <1>0 DEF CleanupFail, CleanupOnce, reader, fates
  <2>2. /\ st'[i] = "absent"
        /\ (i \in dropList') <=> (st[i] # "absent" /\ st[i] # "Responded")
    BY <1>10 DEF CleanupFail
  <2> QED
    BY <2>1, <2>2, <1>0
<1>11. ASSUME CleanupSend PROVE Accounted(i)'
  <2>1. PICK chunk \in SUBSET dropList :
          /\ dropList' = dropList \ chunk
          /\ Publish(chunk, "dropped") \/ GiveUp(chunk, "budget")
    BY <1>11 DEF CleanupSend
  <2>2. UNCHANGED <<sub, st, remit>>
    BY <1>11 DEF CleanupSend, entries, reader
  <2> QED
    BY <2>1, <2>2, <1>0 DEF Publish, GiveUp
<1> QED
  BY <1>1, <1>2, <1>3, <1>4, <1>5, <1>6, <1>7, <1>8, <1>9, <1>10, <1>11, EntrySteps

\* It holds at the start.
LEMMA AccountInit == Init => AccountInv
<1> SUFFICES ASSUME Init PROVE AccountInv
  OBVIOUS
<1>1. Attempted /\ CleanupOnce
  BY DEF Init, Attempted, CleanupOnce
<1>2. TerminalAccounted
  BY DEF Init, TerminalAccounted, Accounted, Count, Live
<1> QED
  BY <1>1, <1>2, TypeInit DEF AccountInv, TypeInv

\* Every step keeps it.
LEMMA AccountStep == AccountInv /\ [Next]_vars => AccountInv'
BY TypeStep, AttemptedStep, CleanupOnceStep, AccountedStep DEF AccountInv, TypeInv

\* So it is an invariant.
LEMMA AccountInvariant == Safety => []AccountInv
BY AccountInit, AccountStep, PTL DEF Safety

\* Every variable keeps its type through every interleaving of the tasks.
THEOREM TypeCorrect == Safety => []TypeOK
BY AccountInvariant, PTL DEF AccountInv, TypeInv

\* Whatever the interleaving of callers, writer, reader, timeout task and
\* cleanup, an accepted id is owed exactly one terminal until it gets one or
\* events_dropped counts it (Event::SubmitDropped).
THEOREM EveryTerminalAccounted == Safety => []TerminalAccounted
BY AccountInvariant, PTL DEF AccountInv

\* Which steps touch the entries, the window and the writer's batch.
LEMMA BatchSteps ==
    ASSUME [Next]_vars
    PROVE  \/ \E i \in Ids : AcquirePermit(i) \/ ReserveSlot(i) \/ Abandon(i) \/ Admit(i) \/ Refuse(i)
           \/ WriterPick \/ WriterClaim \/ WriterComplete \/ WriterStop \/ Match \/ CleanupFail
           \/ \E k \in tkeys : TimeoutExhausted(k) \/ TimeoutRetry(k)
           \/ UNCHANGED <<sub, st, att, permits, wpc, wbatch, claims, wrote>>
<1> DEFINE Same == UNCHANGED <<sub, st, att, permits, wpc, wbatch, claims, wrote>>
<1> USE DEF conn, entries, writer, reader, timer, fates, wire
<1>1. \A i \in Ids : EmitResp(i) \/ Decode(i) => Same
  BY DEF EmitResp, Decode
<1>2. PeerTerminateAnswered \/ PeerTerminate \/ DeliverOverflow \/ ReaderStop => Same
  BY DEF PeerTerminateAnswered, PeerTerminate, DeliverOverflow, ReaderStop
<1>3. TimerTick \/ TimerScan \/ TimerRest => Same
  BY DEF TimerTick, TimerScan, TimerRest
<1>4. \A k \in tkeys : TimeoutSkip(k) \/ TimeoutStop(k) => Same
  BY DEF TimeoutSkip, TimeoutStop
<1>5. Backpressure \/ Overload => Same
  BY DEF Backpressure, Overload, BackpressureClose, OverloadStart, OverloadSeal, OverloadFinish
<1>6. CloseCall \/ Close \/ OtherFinish => Same
  BY DEF CloseCall, Close, CloseSendMarker, CloseDrained, CloseSeal, CloseFinish, CloseReap, OtherFinish
<1>7. CleanupClear \/ CleanupSend \/ CleanupClose => Same
  BY DEF CleanupClear, CleanupSend, CleanupClose
<1>8. UNCHANGED vars => Same
  BY DEF vars
<1> HIDE DEF Same
<1>9. CASE Next
  <2>1. (\E i \in Ids : Caller(i)) \/ Writer \/ Reader \/ Peer \/ Timeouts
        \/ Backpressure \/ Overload \/ CloseCall \/ Close \/ OtherFinish \/ Cleanup
    BY <1>9 DEF Next
  <2> QED
    BY <2>1, <1>1, <1>2, <1>3, <1>4, <1>5, <1>6, <1>7
       DEF Same, Caller, Writer, Reader, Peer, Timeouts, Cleanup
<1> QED
  BY <1>8, <1>9 DEF Same

-----------------------------------------------------------------------------
\* The ledger of one id: how its attempt number, its writes and its state in
\* pending_submits hang together.
Ledger(i) ==
    /\ wrote[i] <= claims[i] /\ claims[i] <= att[i]
    /\ st[i] = "Queued" => claims[i] = att[i] - 1 /\ wrote[i] = claims[i]
    /\ st[i] = "Writing" => claims[i] = att[i] /\ wrote[i] = att[i] - 1
    /\ st[i] = "Awaiting" => wrote[i] = att[i]
    /\ sub[i] # "admitted" => st[i] = "absent" /\ claims[i] = 0

\* A frame that is on its way to the socket is the last claimed attempt of its
\* id, not yet counted as written, and nobody has put its id back in a state
\* the completion could mistake for the attempt it completes.
InHand == wpc = "write" => \A k \in wbatch :
              /\ att[k.id] = k.attempt /\ claims[k.id] = k.attempt
              /\ wrote[k.id] = k.attempt - 1 /\ st[k.id] \notin {"Queued", "Awaiting"}

LedgerInv == TypeInv /\ (\A i \in Ids : Ledger(i)) /\ InHand /\ TimeoutAfterAllWrites

\* What TypeOK says of the variables the ledger reads.
LEMMA LedgerTypes ==
    ASSUME TypeOK
    PROVE  /\ st \in [Ids -> Live \cup {"Responded", "absent"}]
           /\ sub \in [Ids -> {"new", "permit", "slot", "admitted", "refused"}]
           /\ att \in [Ids -> 0..RetryCount] /\ claims \in [Ids -> Nat] /\ wrote \in [Ids -> Nat]
           /\ wbatch \in SUBSET Key /\ tkeys \in SUBSET Key /\ RetryCount \in Nat \ {0}
BY ConstantsAssumption DEF TypeOK, TypeSub, TypeEntries, TypeWriter, TypeTimer, TypeWire, ConstantsAssumption

\* Every step keeps the ledger of every id.
LEMMA LedgerStep ==
    ASSUME LedgerInv, [Next]_vars, NEW i \in Ids PROVE Ledger(i)'
<1>0. TypeOK /\ Ledger(i) /\ InHand
  BY DEF LedgerInv, TypeInv
<1>00. /\ st \in [Ids -> Live \cup {"Responded", "absent"}]
       /\ sub \in [Ids -> {"new", "permit", "slot", "admitted", "refused"}]
       /\ att \in [Ids -> 0..RetryCount] /\ claims \in [Ids -> Nat] /\ wrote \in [Ids -> Nat]
       /\ wbatch \in SUBSET Key /\ tkeys \in SUBSET Key /\ RetryCount \in Nat \ {0}
  BY <1>0, LedgerTypes
<1> USE DEF Ledger, entries, wire, writer
<1>1. ASSUME UNCHANGED <<sub, st, att, claims, wrote>> PROVE Ledger(i)'
  BY <1>0, <1>1
<1>2. ASSUME NEW j \in Ids, AcquirePermit(j) \/ ReserveSlot(j) \/ Abandon(j) \/ Refuse(j)
      PROVE  Ledger(i)'
  <2>1. UNCHANGED <<st, att, claims, wrote>> /\ sub[j] # "admitted"
        /\ \E v \in {"permit", "slot", "refused"} : sub' = [sub EXCEPT ![j] = v]
    BY <1>2, <1>00 DEF AcquirePermit, ReserveSlot, Abandon, Refuse
  <2> QED
    BY <2>1, <1>0, <1>00
<1>3. ASSUME NEW j \in Ids, Admit(j) PROVE Ledger(i)'
  <2>1. /\ UNCHANGED <<claims, wrote>> /\ sub[j] = "slot"
        /\ sub' = [sub EXCEPT ![j] = "admitted"] /\ st' = [st EXCEPT ![j] = "Queued"]
        /\ att' = [att EXCEPT ![j] = 1]
    BY <1>3 DEF Admit
  <2> QED
    BY <2>1, <1>0, <1>00
<1>4. ASSUME WriterClaim PROVE Ledger(i)'
  <2> DEFINE ids == {k.id : k \in {b \in wbatch : Claimable(b)}}
  <2>1. /\ st' = [j \in Ids |-> IF j \in ids THEN "Writing" ELSE st[j]]
        /\ claims' = [j \in Ids |-> IF j \in ids THEN claims[j] + 1 ELSE claims[j]]
        /\ UNCHANGED <<sub, att, wrote>>
    BY <1>4 DEF WriterClaim
  <2>2. \A j \in ids : st[j] = "Queued"
    BY DEF Claimable
  <2> HIDE DEF ids
  <2> QED
    BY <2>1, <2>2, <1>0, <1>00
<1>5. ASSUME WriterComplete PROVE Ledger(i)'
  <2> DEFINE all == {k.id : k \in wbatch}
             ids == {k.id : k \in {b \in wbatch : att[b.id] = b.attempt}}
  <2>1. /\ wrote' = [j \in Ids |-> IF j \in all THEN wrote[j] + 1 ELSE wrote[j]]
        /\ st' = [j \in Ids |-> IF j \in {h \in ids : st[h] = "Responded"} THEN "absent"
                               ELSE IF j \in ids /\ st[j] = "Writing" THEN "Awaiting"
                               ELSE st[j]]
        /\ UNCHANGED <<sub, att, claims>> /\ wpc = "write"
    BY <1>5 DEF WriterComplete
  <2>2. \A j \in all : wrote[j] + 1 = claims[j] /\ att[j] = claims[j] /\ st[j] \notin {"Queued", "Awaiting"}
    BY <2>1, <1>0, <1>00 DEF InHand, Key
  <2>3. ids = all
    BY <2>1, <1>0 DEF InHand
  <2> HIDE DEF ids, all
  <2>4. CASE i \in all
    BY <2>1, <2>2, <2>3, <2>4, <1>0, <1>00
  <2>5. CASE i \notin all
    BY <2>1, <2>3, <2>5, <1>0, <1>00
  <2> QED
    BY <2>4, <2>5
<1>6. ASSUME Match PROVE Ledger(i)'
  <2>1. st'[i] \in {st[i], "absent", "Responded"} /\ UNCHANGED <<sub, att, claims, wrote>>
        /\ (st[i] = "absent" => st'[i] = "absent")
    BY <1>6, <1>00 DEF Match, Live
  <2> QED
    BY <2>1, <1>0, <1>00
<1>7. ASSUME NEW k \in tkeys, TimeoutExhausted(k) PROVE Ledger(i)'
  <2>1. (st' = st \/ st' = [st EXCEPT ![k.id] = "absent"]) /\ UNCHANGED <<sub, att, claims, wrote>>
    BY <1>7 DEF TimeoutExhausted
  <2> QED
    BY <2>1, <1>0, <1>00
<1>8. ASSUME NEW k \in tkeys, TimeoutRetry(k) PROVE Ledger(i)'
  <2>1. /\ st[k.id] = "Awaiting" /\ att[k.id] = k.attempt /\ k.id \in Ids /\ UNCHANGED <<sub, claims, wrote>>
        /\ st' = [st EXCEPT ![k.id] = "Queued"] /\ att' = [att EXCEPT ![k.id] = k.attempt + 1]
    BY <1>8, <1>00 DEF TimeoutRetry, StillExpired, Key
  <2> QED
    BY <2>1, <1>0, <1>00
<1>9. ASSUME CleanupFail PROVE Ledger(i)'
  <2>1. st'[i] = "absent" /\ UNCHANGED <<sub, att, claims, wrote>>
    BY <1>9 DEF CleanupFail
  <2> QED
    BY <2>1, <1>0, <1>00
<1>10. WriterPick \/ WriterStop => UNCHANGED <<sub, st, att, claims, wrote>>
  BY DEF WriterPick, WriterStop
<1> QED
  BY <1>1, <1>2, <1>3, <1>4, <1>5, <1>6, <1>7, <1>8, <1>9, <1>10, BatchSteps

\* Every step keeps the batch under the writer's hand as it was claimed.
LEMMA InHandStep ==
    ASSUME LedgerInv, [Next]_vars PROVE InHand'
<1>0. /\ TypeOK /\ InHand /\ \A i \in Ids : Ledger(i)
      /\ st \in [Ids -> Live \cup {"Responded", "absent"}]
      /\ sub \in [Ids -> {"new", "permit", "slot", "admitted", "refused"}]
      /\ att \in [Ids -> 0..RetryCount] /\ claims \in [Ids -> Nat] /\ wrote \in [Ids -> Nat]
      /\ wbatch \in SUBSET Key /\ tkeys \in SUBSET Key
  BY LedgerTypes DEF LedgerInv, TypeInv
<1>00. \A k \in wbatch : k.id \in Ids /\ k.attempt \in Nat /\ k.attempt > 0
  BY <1>0 DEF Key
<1> SUFFICES ASSUME wpc' = "write", NEW k \in wbatch'
             PROVE  (/\ att[k.id] = k.attempt /\ claims[k.id] = k.attempt
                     /\ wrote[k.id] = k.attempt - 1 /\ st[k.id] \notin {"Queued", "Awaiting"})'
  BY DEF InHand
<1> DEFINE Goal == (/\ att[k.id] = k.attempt /\ claims[k.id] = k.attempt
                    /\ wrote[k.id] = k.attempt - 1 /\ st[k.id] \notin {"Queued", "Awaiting"})'
<1> USE DEF InHand, entries, wire, writer
<1>1. ASSUME UNCHANGED <<st, att, wpc, wbatch, claims, wrote>> PROVE Goal
  BY <1>0, <1>1
<1>2. \A j \in Ids : AcquirePermit(j) \/ ReserveSlot(j) \/ Abandon(j) \/ Refuse(j)
          => UNCHANGED <<st, att, wpc, wbatch, claims, wrote>>
  BY DEF AcquirePermit, ReserveSlot, Abandon, Refuse
<1>3. ASSUME NEW j \in Ids, Admit(j) PROVE Goal
  <2>1. /\ UNCHANGED <<claims, wrote, wpc, wbatch>> /\ sub[j] = "slot"
        /\ st' = [st EXCEPT ![j] = "Queued"] /\ att' = [att EXCEPT ![j] = 1]
    BY <1>3 DEF Admit
  <2>2. k.id # j
    BY <2>1, <1>0, <1>00 DEF Ledger
  <2> QED
    BY <2>1, <2>2, <1>0, <1>00
<1>4. ASSUME WriterClaim PROVE Goal
  <2> DEFINE ids == {b.id : b \in {b \in wbatch : Claimable(b)}}
  <2>1. /\ st' = [j \in Ids |-> IF j \in ids THEN "Writing" ELSE st[j]]
        /\ claims' = [j \in Ids |-> IF j \in ids THEN claims[j] + 1 ELSE claims[j]]
        /\ UNCHANGED <<att, wrote>> /\ wbatch' = {b \in wbatch : Claimable(b)}
    BY <1>4 DEF WriterClaim
  <2>2. k.id \in ids /\ k \in wbatch /\ att[k.id] = k.attempt /\ st[k.id] = "Queued"
    BY <2>1 DEF Claimable
  <2> HIDE DEF ids
  <2>3. claims[k.id] = att[k.id] - 1 /\ wrote[k.id] = claims[k.id]
    BY <2>2, <1>0, <1>00 DEF Ledger
  <2> QED
    BY <2>1, <2>2, <2>3, <1>0, <1>00
<1>5. WriterComplete \/ WriterStop => FALSE
  BY DEF WriterComplete, WriterStop
<1>6. ASSUME Match PROVE Goal
  <2>1. /\ UNCHANGED <<att, wpc, wbatch, claims, wrote>>
        /\ \A j \in Ids : st'[j] \in {st[j], "absent", "Responded"}
    BY <1>6 DEF Match
  <2> QED
    BY <2>1, <1>0, <1>00
<1>7. ASSUME NEW e \in tkeys, TimeoutExhausted(e) PROVE Goal
  <2>1. (st' = st \/ st' = [st EXCEPT ![e.id] = "absent"]) /\ UNCHANGED <<att, wpc, wbatch, claims, wrote>>
    BY <1>7 DEF TimeoutExhausted
  <2> QED
    BY <2>1, <1>0, <1>00
<1>8. ASSUME NEW e \in tkeys, TimeoutRetry(e) PROVE Goal
  <2>1. /\ st[e.id] = "Awaiting" /\ UNCHANGED <<wpc, wbatch, claims, wrote>>
        /\ st' = [st EXCEPT ![e.id] = "Queued"] /\ att' = [att EXCEPT ![e.id] = e.attempt + 1]
    BY <1>8 DEF TimeoutRetry, StillExpired
  <2>2. k.id # e.id
    BY <2>1, <1>0
  <2> QED
    BY <2>1, <2>2, <1>0, <1>00
<1>9. ASSUME CleanupFail PROVE Goal
  <2>1. UNCHANGED <<att, wpc, wbatch, claims, wrote>> /\ \A j \in Ids : st'[j] = "absent"
    BY <1>9 DEF CleanupFail
  <2> QED
    BY <2>1, <1>0, <1>00
<1>10. ASSUME WriterPick PROVE Goal
  BY <1>10 DEF WriterPick
<1> QED
  BY <1>1, <1>2, <1>3, <1>4, <1>5, <1>6, <1>7, <1>8, <1>9, <1>10, BatchSteps

\* Only the reader, the timeout task and the cleanup settle the fate of an id.
LEMMA FateSteps ==
    ASSUME [Next]_vars
    PROVE  \/ \E i \in Ids : EmitResp(i)
           \/ \E k \in tkeys : TimeoutExhausted(k)
           \/ CleanupSend
           \/ UNCHANGED <<outcome, delivered, lost>>
<1> DEFINE Same == UNCHANGED <<outcome, delivered, lost>>
<1>1. \A i \in Ids : AcquirePermit(i) \/ ReserveSlot(i) \/ Abandon(i) \/ Admit(i) \/ Refuse(i) => Same
  BY DEF AcquirePermit, ReserveSlot, Abandon, Admit, Refuse, fates
<1>2. WriterClaim \/ WriterComplete \/ Match \/ CleanupFail => Same
  BY DEF WriterClaim, WriterComplete, Match, CleanupFail, fates
<1>3. \A k \in tkeys : TimeoutRetry(k) => Same
  BY DEF TimeoutRetry, fates
<1> QED
  BY <1>1, <1>2, <1>3, EntrySteps

\* The last attempt is the only one a timeout is reported for, and it was written.
LEMMA TimeoutAfterAllWritesStep ==
    ASSUME LedgerInv, [Next]_vars PROVE TimeoutAfterAllWrites'
<1> SUFFICES ASSUME NEW i \in Ids, outcome'[i] = "timeout" PROVE wrote'[i] = RetryCount
  BY DEF TimeoutAfterAllWrites
<1>0. /\ TypeOK /\ InHand /\ Ledger(i) /\ (outcome[i] = "timeout" => wrote[i] = RetryCount)
      /\ att \in [Ids -> 0..RetryCount] /\ claims \in [Ids -> Nat] /\ wrote \in [Ids -> Nat]
      /\ wbatch \in SUBSET Key /\ tkeys \in SUBSET Key /\ RetryCount \in Nat \ {0}
  BY LedgerTypes DEF LedgerInv, TypeInv, TimeoutAfterAllWrites
\* A completed write of i would be an attempt after the last one.
<1>1. wrote[i] = RetryCount => wrote'[i] = RetryCount
  <2>1. CASE WriterComplete
    <3> DEFINE all == {k.id : k \in wbatch}
    <3>1. wpc = "write" /\ wrote' = [j \in Ids |-> IF j \in all THEN wrote[j] + 1 ELSE wrote[j]]
      BY <2>1 DEF WriterComplete
    <3>2. \A j \in all : wrote[j] < RetryCount
      BY <3>1, <1>0 DEF InHand, Key
    <3> HIDE DEF all
    <3> QED
      BY <3>1, <3>2, <1>0
  <2>2. \/ \E j \in Ids : AcquirePermit(j) \/ ReserveSlot(j) \/ Abandon(j) \/ Admit(j) \/ Refuse(j)
        \/ WriterPick \/ WriterClaim \/ WriterStop \/ Match \/ CleanupFail
        \/ \E k \in tkeys : TimeoutExhausted(k) \/ TimeoutRetry(k)
        => UNCHANGED wrote
    BY DEF AcquirePermit, ReserveSlot, Abandon, Admit, Refuse, WriterPick, WriterClaim, WriterStop,
           Match, CleanupFail, TimeoutExhausted, TimeoutRetry, wire
  <2> QED
    BY <2>1, <2>2, BatchSteps
<1>2. CASE UNCHANGED <<outcome, delivered, lost>>
  BY <1>0, <1>1, <1>2
<1>3. ASSUME NEW j \in Ids, EmitResp(j) PROVE outcome[i] = "timeout"
  BY <1>3 DEF EmitResp, Publish, GiveUp
<1>4. ASSUME CleanupSend PROVE outcome[i] = "timeout"
  BY <1>4 DEF CleanupSend, Publish, GiveUp
<1>5. ASSUME NEW k \in tkeys, TimeoutExhausted(k) PROVE wrote'[i] = RetryCount
  <2>1. CASE i = k.id
    <3>1. wrote[i] = att[i] /\ att[i] = k.attempt /\ k.attempt >= RetryCount
      BY <2>1, <1>5, <1>0 DEF TimeoutExhausted, StillExpired, Ledger
    <3> QED
      BY <3>1, <1>0, <1>1 DEF Key
  <2>2. CASE i # k.id
    BY <2>2, <1>5, <1>0, <1>1 DEF TimeoutExhausted, Publish, fates
  <2> QED
    BY <2>1, <2>2
<1> QED
  BY <1>0, <1>1, <1>2, <1>3, <1>4, <1>5, FateSteps

\* The ledger is an invariant.
LEMMA LedgerInvariant == Safety => []LedgerInv
<1>1. Init => LedgerInv
  <2> SUFFICES ASSUME Init PROVE LedgerInv
    OBVIOUS
  <2>1. TypeInv
    BY AccountInit DEF AccountInv
  <2>2. (\A i \in Ids : Ledger(i)) /\ InHand /\ TimeoutAfterAllWrites
    BY DEF Init, Ledger, InHand, TimeoutAfterAllWrites
  <2> QED
    BY <2>1, <2>2 DEF LedgerInv
<1>2. LedgerInv /\ [Next]_vars => LedgerInv'
  <2> SUFFICES ASSUME LedgerInv, [Next]_vars PROVE LedgerInv'
    OBVIOUS
  <2>1. TypeInv'
    BY TypeStep, AttemptedStep DEF LedgerInv, TypeInv
  <2> QED
    BY <2>1, LedgerStep, InHandStep, TimeoutAfterAllWritesStep DEF LedgerInv
<1> QED
  BY <1>1, <1>2, PTL DEF Safety

\* Each attempt is written once (claim_submit_attempts), and SubmitTimeout is
\* reported only when all RetryCount attempts were completely written
\* (Event::SubmitTimeout::attempts).
THEOREM AttemptsAreExact == Safety => []AttemptsExact
<1>1. LedgerInv => AttemptsExact
  BY DEF LedgerInv, AttemptsExact, ClaimedOnce, Ledger
<1> QED
  BY <1>1, LedgerInvariant, PTL

-----------------------------------------------------------------------------
\* An id has a terminal event in its history exactly when one was delivered.
FateInv == \A i \in Ids : outcome[i] = "none" <=> delivered[i] = 0

\* Nothing enters the map again once the cleanup emptied it.
SettledInv == AccountInv /\ FateInv /\ DrainedForGood

\* Only a published event changes the outcome of an id.
LEMMA FateStep ==
    ASSUME SettledInv, [Next]_vars PROVE FateInv'
<1>0. /\ FateInv /\ TypeFates
  BY DEF SettledInv, AccountInv, TypeInv, TypeOK
<1>1. \A S, kind : kind # "none" /\ Publish(S, kind) => FateInv'
  BY <1>0 DEF FateInv, Publish, TypeFates
<1>2. \A S, why : GiveUp(S, why) => FateInv'
  BY <1>0 DEF FateInv, GiveUp
<1>3. UNCHANGED <<outcome, delivered, lost>> => FateInv'
  BY <1>0 DEF FateInv
<1>4. \A i \in Ids : EmitResp(i) => FateInv'
  BY <1>1, <1>2 DEF EmitResp
<1>5. \A k \in tkeys : TimeoutExhausted(k) => FateInv'
  BY <1>1, <1>3 DEF TimeoutExhausted, fates
<1>6. CleanupSend => FateInv'
  BY <1>1, <1>2 DEF CleanupSend
<1> QED
  BY <1>3, <1>4, <1>5, <1>6, FateSteps

\* An entry enters the map only through admission; every other step changes
\* entries that are there or removes them.
LEMMA EntersByAdmission ==
    ASSUME TypeOK, [Next]_vars, NEW i \in Ids, st[i] = "absent", st'[i] # "absent"
    PROVE  Admit(i)
<1>0. st \in [Ids -> Live \cup {"Responded", "absent"}]
  BY LedgerTypes
<1> USE DEF entries
<1>1. ~ UNCHANGED st
  OBVIOUS
<1>2. ASSUME NEW j \in Ids, Admit(j) PROVE Admit(i)
  <2>1. i = j
    BY <1>2, <1>0 DEF Admit
  <2> QED
    BY <2>1, <1>2
<1>3. ~WriterClaim
  BY ClaimMoves
<1>4. ~WriterComplete
  BY CompleteMoves
<1>5. ~Match
  BY DEF Match, Live
<1>6. ASSUME NEW k \in tkeys, TimeoutExhausted(k) \/ TimeoutRetry(k) PROVE FALSE
  <2>1. st[k.id] = "Awaiting" /\ \E v : st' = [st EXCEPT ![k.id] = v] \/ st' = st
    BY <1>6 DEF TimeoutExhausted, TimeoutRetry, StillExpired
  <2> QED
    BY <2>1, <1>0
<1>7. ~CleanupFail
  BY DEF CleanupFail
<1>8. \A j \in Ids : ~(AcquirePermit(j) \/ ReserveSlot(j) \/ Abandon(j) \/ Refuse(j))
  BY <1>1 DEF AcquirePermit, ReserveSlot, Abandon, Refuse
<1>9. ~(WriterPick \/ WriterStop)
  BY <1>1 DEF WriterPick, WriterStop
<1> QED
  BY <1>1, <1>2, <1>3, <1>4, <1>5, <1>6, <1>7, <1>8, <1>9, BatchSteps

\* After fail_all_pending no step adds an entry.
LEMMA DrainedStep ==
    ASSUME SettledInv, [Next]_vars PROVE DrainedForGood'
<1>0. /\ TypeOK /\ CleanupOnce /\ DrainedForGood
      /\ phase \in {"Open", "Closing", "Closed"} /\ cleanup \in {"off", "clear", "fail", "send", "done"}
  BY DEF SettledInv, AccountInv, TypeInv, TypeOK, TypeConn
<1>1. CASE cleanup \in {"send", "done"}
  <2>1. phase = "Closed" /\ \A i \in Ids : st[i] = "absent"
    BY <1>0, <1>1 DEF CleanupOnce, DrainedForGood
  <2>2. \A i \in Ids : ~Admit(i)
    BY <2>1 DEF Admit
  <2> QED
    BY <2>1, <2>2, <1>0, EntersByAdmission DEF DrainedForGood
<1>2. CASE cleanup \notin {"send", "done"} /\ ~CleanupFail
  <2>1. cleanup' \notin {"send", "done"}
    BY <1>2, <1>0, ConnSteps DEF CleanupClear, CleanupSend, CleanupClose
  <2> QED
    BY <2>1 DEF DrainedForGood
<1>3. CASE CleanupFail
  BY <1>3 DEF CleanupFail, DrainedForGood
<1> QED
  BY <1>1, <1>2, <1>3

\* Together they are an invariant.
LEMMA SettledInvariant == Safety => []SettledInv
<1>1. Init => SettledInv
  BY AccountInit DEF SettledInv, FateInv, DrainedForGood, Init
<1>2. SettledInv /\ [Next]_vars => SettledInv'
  BY AccountStep, FateStep, DrainedStep DEF SettledInv
<1> QED
  BY <1>1, <1>2, PTL DEF Safety

\* Once fail_all_pending drained the map, no caller, retry or writer that was on
\* its way puts an entry back.
THEOREM PendingStaysDrained == Safety => []DrainedForGood
BY SettledInvariant, PTL DEF SettledInv

\* Only the writer's claim starts a write, and only of a queued entry.
LEMMA ClaimsMoveFromQueued ==
    ASSUME TypeOK, [Next]_vars, NEW i \in Ids, claims'[i] # claims[i] PROVE st[i] = "Queued"
<1>1. CASE WriterClaim
  <2> DEFINE ids == {k.id : k \in {b \in wbatch : Claimable(b)}}
  <2>1. \A j \in ids : st[j] = "Queued"
    BY DEF Claimable
  <2>2. claims' = [j \in Ids |-> IF j \in ids THEN claims[j] + 1 ELSE claims[j]]
    BY <1>1 DEF WriterClaim
  <2> HIDE DEF ids
  <2> QED
    BY <2>1, <2>2
<1>2. \/ \E j \in Ids : AcquirePermit(j) \/ ReserveSlot(j) \/ Abandon(j) \/ Admit(j) \/ Refuse(j)
      \/ WriterPick \/ WriterComplete \/ WriterStop \/ Match \/ CleanupFail
      \/ \E k \in tkeys : TimeoutExhausted(k) \/ TimeoutRetry(k)
      => UNCHANGED claims
  BY DEF AcquirePermit, ReserveSlot, Abandon, Admit, Refuse, WriterPick, WriterComplete, WriterStop,
         Match, CleanupFail, TimeoutExhausted, TimeoutRetry, wire
<1> QED
  BY <1>1, <1>2, BatchSteps

\* The writer starts no write of an id whose response was matched or whose
\* terminal is settled (flush_submit_resps cancels the queued retransmission).
THEOREM AnswerStopsResends == Safety => NoResendAfterAnswer
<1>1. ASSUME SettledInv, [Next]_vars, NEW i \in Ids, claims'[i] # claims[i]
      PROVE  i \notin remit /\ outcome[i] = "none" /\ lost[i] = "no"
  <2>1. TypeOK /\ FateInv /\ Accounted(i) /\ delivered[i] \in Nat
    BY <1>1 DEF SettledInv, AccountInv, TypeInv, TerminalAccounted, TypeOK, TypeFates
  <2>2. st[i] = "Queued"
    BY <1>1, <2>1, ClaimsMoveFromQueued
  <2>3. i \notin remit /\ delivered[i] = 0 /\ lost[i] = "no"
    BY <2>1, <2>2 DEF Accounted, Count, Live
  <2> QED
    BY <2>1, <2>3 DEF FateInv
<1>2. SettledInv /\ [Next]_vars
        => [\A i \in Ids : claims'[i] # claims[i] => i \notin remit /\ outcome[i] = "none" /\ lost[i] = "no"]_vars
  BY <1>1
<1> QED
  BY <1>2, SettledInvariant, PTL DEF Safety, NoResendAfterAnswer

-----------------------------------------------------------------------------
\* A set of holders gives its permits back at once, one each.
LEMMA PermitsReturn ==
    ASSUME TypeOK, WindowConserved, NEW S, S \subseteq Holders, Holders' = Holders \ S,
           permits' = permits + Cardinality(S)
    PROVE  WindowConserved'
<1>1. IsFiniteSet(Holders) /\ Cardinality(Holders) \in Nat /\ Cardinality(S) \in Nat
  BY FS_Subset, SizeOfIds, ConstantsAssumption DEF ConstantsAssumption, Holders
<1>2. Cardinality(Holders \ S) = Cardinality(Holders) - Cardinality(S)
  <2>1. Holders \cap S = S
    OBVIOUS
  <2> QED
    BY <2>1, <1>1, FS_Difference
<1>3. permits \in Int
  BY DEF TypeOK, TypeEntries
<1> QED
  BY <1>1, <1>2, <1>3 DEF WindowConserved

\* One of them does.
LEMMA PermitReturns ==
    ASSUME TypeOK, WindowConserved, NEW i, i \in Holders, Holders' = Holders \ {i}, permits' = permits + 1
    PROVE  WindowConserved'
<1>1. Cardinality({i}) = 1
  BY FS_Singleton
<1>2. permits' = permits + Cardinality({i}) /\ {i} \subseteq Holders
  BY <1>1
<1> QED
  BY <1>2, PermitsReturn

\* Every step moves permits and holders together.
LEMMA WindowStep ==
    ASSUME LedgerInv, WindowConserved, [Next]_vars PROVE WindowConserved'
<1>0. /\ TypeOK /\ permits \in Int
      /\ st \in [Ids -> Live \cup {"Responded", "absent"}]
      /\ sub \in [Ids -> {"new", "permit", "slot", "admitted", "refused"}]
      /\ wbatch \in SUBSET Key /\ tkeys \in SUBSET Key
      /\ \A i \in Ids : sub[i] # "admitted" => st[i] = "absent"
  BY LedgerTypes DEF LedgerInv, TypeInv, TypeOK, TypeEntries, Ledger
<1> USE DEF entries, Holders
<1>1. ASSUME Holders' = Holders, permits' = permits PROVE WindowConserved'
  BY <1>1 DEF WindowConserved
<1>2. ASSUME NEW i \in Ids, AcquirePermit(i) PROVE WindowConserved'
  <2>1. /\ permits > 0 /\ permits' = permits - 1 /\ sub[i] = "new"
        /\ sub' = [sub EXCEPT ![i] = "permit"] /\ st' = st
    BY <1>2 DEF AcquirePermit
  <2>2. i \notin Holders /\ Holders' = Holders \cup {i}
    BY <2>1, <1>0
  <2>3. IsFiniteSet(Holders) /\ Cardinality(Holders) \in Nat
    BY FS_Subset, SizeOfIds, ConstantsAssumption DEF ConstantsAssumption
  <2>4. Cardinality(Holders') = Cardinality(Holders) + 1
    BY <2>2, <2>3, FS_AddElement
  <2> QED
    BY <2>1, <2>3, <2>4, <1>0 DEF WindowConserved
<1>3. ASSUME NEW i \in Ids, ReserveSlot(i) \/ Admit(i) PROVE WindowConserved'
  <2>1. Holders' = Holders /\ permits' = permits
    BY <1>3, <1>0 DEF ReserveSlot, Admit
  <2> QED
    BY <2>1, <1>1
<1>4. ASSUME NEW i \in Ids, Abandon(i) \/ Refuse(i) PROVE WindowConserved'
  <2>1. CASE sub[i] \in {"permit", "slot"}
    <3>1. permits' = permits + 1 /\ sub' = [sub EXCEPT ![i] = "refused"] /\ st' = st
      BY <1>4, <2>1 DEF Abandon, Refuse
    <3>2. i \in Holders /\ Holders' = Holders \ {i}
      BY <3>1, <2>1, <1>0
    <3> QED
      BY <3>1, <3>2, <1>0, PermitReturns
  <2>2. CASE sub[i] \notin {"permit", "slot"}
    <3>1. permits' = permits /\ sub' = [sub EXCEPT ![i] = "refused"] /\ st' = st
      BY <1>4, <2>2, <1>0 DEF Abandon, Refuse
    <3>2. Holders' = Holders
      BY <3>1, <2>2, <1>0
    <3> QED
      BY <3>1, <3>2, <1>1
  <2> QED
    BY <2>1, <2>2
<1>5. ASSUME WriterClaim PROVE WindowConserved'
  <2>1. UNCHANGED <<sub, permits>>
    BY <1>5 DEF WriterClaim
  <2>2. Holders' = Holders
    BY <1>5, <2>1, <1>0, ClaimMoves
  <2> QED
    BY <2>1, <2>2, <1>1
<1>6. ASSUME WriterComplete PROVE WindowConserved'
  <2> DEFINE ids  == {k.id : k \in {b \in wbatch : att[b.id] = b.attempt}}
             gone == {i \in ids : st[i] = "Responded"}
  <2>1. /\ st' = [i \in Ids |-> IF i \in gone THEN "absent"
                               ELSE IF i \in ids /\ st[i] = "Writing" THEN "Awaiting"
                               ELSE st[i]]
        /\ permits' = permits + Cardinality(gone) /\ sub' = sub
    BY <1>6 DEF WriterComplete
  <2>2. gone \subseteq Ids /\ \A i \in gone : st[i] = "Responded"
    BY <1>0 DEF Key
  <2> HIDE DEF gone
  <2>3. gone \subseteq Holders /\ Holders' = Holders \ gone
    BY <2>1, <2>2, <1>0
  <2> QED
    BY <2>1, <2>3, <1>0, PermitsReturn
<1>7. ASSUME Match PROVE WindowConserved'
  <2> DEFINE handled == {i \in rbuf : st[i] \in Live}
             gone    == {i \in handled : st[i] # "Writing"}
  <2>1. /\ st' = [i \in Ids |-> IF i \in gone THEN "absent"
                               ELSE IF i \in handled THEN "Responded" ELSE st[i]]
        /\ permits' = permits + Cardinality(gone) /\ sub' = sub
    BY <1>7 DEF Match
  <2>2. gone \subseteq Ids /\ \A i \in handled : st[i] # "absent"
    BY <1>0 DEF TypeOK, TypeReader, Live
  <2>3. gone \subseteq handled
    OBVIOUS
  <2> HIDE DEF gone, handled
  <2>4. gone \subseteq Holders /\ Holders' = Holders \ gone
    BY <2>1, <2>2, <2>3, <1>0
  <2> QED
    BY <2>1, <2>4, <1>0, PermitsReturn
<1>8. ASSUME NEW k \in tkeys, TimeoutExhausted(k) PROVE WindowConserved'
  <2>1. st[k.id] = "Awaiting" /\ k.id \in Ids /\ sub' = sub
    BY <1>8, <1>0 DEF TimeoutExhausted, StillExpired, Key
  <2>2. CASE st' = [st EXCEPT ![k.id] = "absent"] /\ permits' = permits + 1
    <3>1. k.id \in Holders /\ Holders' = Holders \ {k.id}
      BY <2>1, <2>2, <1>0
    <3> QED
      BY <2>2, <3>1, <1>0, PermitReturns
  <2>3. CASE UNCHANGED <<st, permits>>
    BY <2>1, <2>3, <1>1
  <2> QED
    BY <2>2, <2>3, <1>8 DEF TimeoutExhausted
<1>9. ASSUME NEW k \in tkeys, TimeoutRetry(k) PROVE WindowConserved'
  <2>1. st[k.id] = "Awaiting" /\ UNCHANGED <<sub, permits>> /\ st' = [st EXCEPT ![k.id] = "Queued"]
    BY <1>9 DEF TimeoutRetry, StillExpired
  <2>2. Holders' = Holders
    BY <2>1, <1>0
  <2> QED
    BY <2>1, <2>2, <1>1
<1>10. ASSUME CleanupFail PROVE WindowConserved'
  <2> DEFINE gone == {i \in Ids : st[i] # "absent"}
  <2>1. st' = [i \in Ids |-> "absent"] /\ permits' = permits + Cardinality(gone) /\ sub' = sub
    BY <1>10 DEF CleanupFail
  <2>2. gone \subseteq Holders /\ Holders' = Holders \ gone
    BY <2>1, <1>0
  <2> QED
    BY <2>1, <2>2, <1>0, PermitsReturn
<1>11. CASE UNCHANGED <<sub, st, att, permits, wpc, wbatch, claims, wrote>>
  BY <1>11, <1>1
<1>12. WriterPick \/ WriterStop => UNCHANGED <<sub, st, permits>>
  BY DEF WriterPick, WriterStop
<1>13. ASSUME UNCHANGED <<sub, st, permits>> PROVE WindowConserved'
  BY <1>13, <1>1
<1> QED
  BY <1>2, <1>3, <1>4, <1>5, <1>6, <1>7, <1>8, <1>9, <1>10, <1>11, <1>12, <1>13, BatchSteps

\* No permit of window_semaphore is lost or returned twice, whatever the window.
THEOREM WindowIsConserved == Safety => []WindowConserved
<1>1. Init => WindowConserved
  <2> SUFFICES ASSUME Init PROVE WindowConserved
    OBVIOUS
  <2>1. Holders = {} /\ permits = Window
    BY DEF Init, Holders
  <2> QED
    BY <2>1, FS_EmptySet, ConstantsAssumption DEF WindowConserved, ConstantsAssumption
<1>2. LedgerInv /\ WindowConserved /\ [Next]_vars => WindowConserved'
  BY WindowStep
<1> QED
  BY <1>1, <1>2, LedgerInvariant, PTL DEF Safety

-----------------------------------------------------------------------------
\* Which steps touch the queue, the marker and the writer.
LEMMA QueueSteps ==
    ASSUME [Next]_vars
    PROVE  \/ \E i \in Ids : Admit(i)
           \/ WriterPick \/ WriterClaim \/ WriterComplete \/ WriterStop \/ Match \/ CleanupFail
           \/ \E k \in tkeys : TimeoutExhausted(k) \/ TimeoutRetry(k)
           \/ CloseCall \/ CloseSendMarker
           \/ /\ UNCHANGED <<st, att, queue, wpc, wbatch, wmark, marker>>
              /\ gpc' = gpc \/ (gpc # "idle" /\ gpc' \notin {"idle", "marker"})
<1> DEFINE Same  == UNCHANGED <<st, att, queue, wpc, wbatch, wmark, marker>>
           Later == gpc' = gpc \/ (gpc # "idle" /\ gpc' \notin {"idle", "marker"})
<1> USE DEF conn, entries, writer, reader, timer, fates, wire, closer
<1>1. \A i \in Ids : AcquirePermit(i) \/ ReserveSlot(i) \/ Abandon(i) \/ Refuse(i) \/ EmitResp(i) \/ Decode(i)
                        => Same /\ Later
  BY DEF AcquirePermit, ReserveSlot, Abandon, Refuse, EmitResp, Decode
<1>2. PeerTerminateAnswered \/ PeerTerminate \/ DeliverOverflow \/ ReaderStop => Same /\ Later
  BY DEF PeerTerminateAnswered, PeerTerminate, DeliverOverflow, ReaderStop
<1>3. TimerTick \/ TimerScan \/ TimerRest => Same /\ Later
  BY DEF TimerTick, TimerScan, TimerRest
<1>4. \A k \in tkeys : TimeoutSkip(k) \/ TimeoutStop(k) => Same /\ Later
  BY DEF TimeoutSkip, TimeoutStop
<1>5. Backpressure \/ Overload => Same /\ Later
  BY DEF Backpressure, Overload, BackpressureClose, OverloadStart, OverloadSeal, OverloadFinish
<1>6. CloseDrained \/ CloseSeal \/ CloseFinish \/ CloseReap \/ OtherFinish => Same /\ Later
  BY DEF CloseDrained, CloseSeal, CloseFinish, CloseReap, OtherFinish
<1>7. CleanupClear \/ CleanupSend \/ CleanupClose => Same /\ Later
  BY DEF CleanupClear, CleanupSend, CleanupClose
<1>8. UNCHANGED vars => Same /\ Later
  BY DEF vars
<1> HIDE DEF Same, Later
<1>9. CASE Next
  <2>1. (\E i \in Ids : Caller(i)) \/ Writer \/ Reader \/ Peer \/ Timeouts
        \/ Backpressure \/ Overload \/ CloseCall \/ Close \/ OtherFinish \/ Cleanup
    BY <1>9 DEF Next
  <2> QED
    BY <2>1, <1>1, <1>2, <1>3, <1>4, <1>5, <1>6, <1>7
       DEF Same, Later, Caller, Writer, Reader, Peer, Timeouts, Close, Cleanup
<1> QED
  BY <1>8, <1>9 DEF Same, Later

\* A connection never returns to Open, and a drain that ended never resumes.
LEMMA CanSubmitEnds ==
    ASSUME [Next]_vars
    PROVE  (CanSubmit' => CanSubmit) /\ (phase' = "Open" => phase = "Open")
<1> DEFINE Ends == (CanSubmit' => CanSubmit) /\ (phase' = "Open" => phase = "Open")
<1> USE DEF CanSubmit
<1>1. Finish => Ends
  BY DEF Finish, conn
<1>2. CloseWithoutDrain => Ends
  BY DEF CloseWithoutDrain
<1>3. UNCHANGED conn => Ends
  BY DEF conn
<1>4. AckMarker => Ends
  BY DEF AckMarker
<1>5. CloseCall \/ CloseDrained \/ Cleanup => Ends
  BY DEF CloseCall, CloseDrained, Cleanup, CleanupClear, CleanupFail, CleanupSend, CleanupClose
<1>6. WriterClaim => Ends
  BY <1>4 DEF WriterClaim
<1> HIDE DEF Ends
<1>7. \A i \in Ids : Caller(i) => Ends
  BY <1>1, <1>3 DEF Caller, AcquirePermit, ReserveSlot, Abandon, Admit, Refuse
<1>8. Writer => Ends
  BY <1>1, <1>3, <1>4, <1>6 DEF Writer, WriterPick, WriterComplete, WriterStop
<1>9. Reader \/ Peer => Ends
  BY <1>1, <1>2, <1>3 DEF Reader, Peer, Match, EmitResp, PeerTerminateAnswered, Decode, PeerTerminate,
     DeliverOverflow, ReaderStop
<1>10. \A k \in tkeys : TimeoutExhausted(k) => Ends
  BY <1>1, <1>3 DEF TimeoutExhausted, conn
<1>11. Timeouts => Ends
  BY <1>1, <1>3, <1>10 DEF Timeouts, TimerTick, TimerScan, TimerRest, TimeoutRetry, TimeoutSkip, TimeoutStop
<1>12. Backpressure \/ Overload => Ends
  BY <1>1, <1>2, <1>3 DEF Backpressure, Overload, BackpressureClose, OverloadStart, OverloadSeal, OverloadFinish
<1>13. Close \/ OtherFinish => Ends
  BY <1>1, <1>3, <1>5 DEF Close, CloseSendMarker, CloseSeal, CloseFinish, CloseReap, OtherFinish
<1>14. UNCHANGED vars => Ends
  BY <1>3 DEF vars
<1> QED
  BY <1>5, <1>7, <1>8, <1>9, <1>11, <1>12, <1>13, <1>14 DEF Next, Ends

\* A frame of the queue is told from the marker by its fields.
LEMMA KeyIsNotMarker == \A i, n : [id |-> i, attempt |-> n] # Marker
<1>1. ASSUME NEW i, NEW n, [id |-> i, attempt |-> n] = Marker PROVE FALSE
  <2>1. DOMAIN [id |-> i, attempt |-> n] = DOMAIN Marker
    BY <1>1
  <2>2. "marker" \in DOMAIN Marker /\ "marker" \notin DOMAIN [id |-> i, attempt |-> n]
    BY DEF Marker
  <2> QED
    BY <2>1, <2>2
<1> QED
  BY <1>1

KeyOf(i)   == [id |-> i, attempt |-> att[i]]
InQueue(x) == \E n \in 1 .. Len(queue) : queue[n] = x

\* An attempt the writer has begun is in the batch it writes, answered or not.
Busy(i) == st[i] \in {"Writing", "Responded"} =>
               wpc = "done" \/ (wpc = "write" /\ KeyOf(i) \in wbatch)

\* While SUBMITs may be sent, a queued entry has its frame in the channel or in
\* the writer's hand.
Waiting(i) == CanSubmit /\ st[i] = "Queued" =>
                  InQueue(KeyOf(i)) \/ (wpc = "pick" /\ KeyOf(i) \in wbatch) \/ wpc = "done"

\* close() sends its marker after the last admission: nothing follows it.
CloseOrder == /\ gpc # "idle" \/ wmark \/ marker # "none" => phase # "Open"
              /\ gpc \in {"idle", "marker"} => ~wmark /\ ~InQueue(Marker)
              /\ \A n \in 1 .. Len(queue) : queue[n] = Marker => n = Len(queue)
              /\ wmark => queue = <<>>

MarkerInv == /\ TypeInv /\ CloseOrder /\ MarkerMeansWritten
             /\ \A i \in Ids : Busy(i) /\ Waiting(i)

\* What the channel holds after a send.
LEMMA SendKeeps ==
    ASSUME TypeOK, NEW x \in Key \cup {Marker}, queue' = Append(queue, x)
    PROVE  /\ Len(queue') = Len(queue) + 1 /\ queue'[Len(queue) + 1] = x
           /\ \A n \in 1 .. Len(queue) : queue'[n] = queue[n]
           /\ \A y : InQueue(y)' <=> InQueue(y) \/ y = x
<1>1. queue \in Seq(Key \cup {Marker}) /\ Len(queue) \in Nat
  BY DEF TypeOK, TypeQueue
<1>2. /\ Len(queue') = Len(queue) + 1 /\ queue'[Len(queue) + 1] = x
      /\ \A n \in 1 .. Len(queue) : queue'[n] = queue[n]
  BY <1>1
<1> QED
  BY <1>1, <1>2 DEF InQueue

\* What a receive takes out of it.
LEMMA ReceiveTakes ==
    ASSUME TypeOK, queue # <<>>, queue' = Tail(queue)
    PROVE  /\ Len(queue') = Len(queue) - 1 /\ Len(queue) > 0 /\ Head(queue) = queue[1]
           /\ \A n \in 1 .. Len(queue') : queue'[n] = queue[n + 1]
           /\ \A y : InQueue(y) <=> InQueue(y)' \/ y = Head(queue)
<1>1. queue \in Seq(Key \cup {Marker}) /\ Len(queue) \in Nat
  BY DEF TypeOK, TypeQueue
<1>2. /\ Len(queue') = Len(queue) - 1 /\ Len(queue) > 0 /\ Head(queue) = queue[1]
      /\ \A n \in 1 .. Len(queue') : queue'[n] = queue[n + 1]
  BY <1>1
<1>3. ASSUME NEW y PROVE InQueue(y) => InQueue(y)' \/ y = Head(queue)
  <2> SUFFICES ASSUME NEW n \in 1 .. Len(queue), queue[n] = y, n # 1 PROVE InQueue(y)'
    BY <1>2 DEF InQueue
  <2>1. n - 1 \in 1 .. Len(queue') /\ queue'[n - 1] = y
    BY <1>1, <1>2
  <2> QED
    BY <2>1 DEF InQueue
<1>4. ASSUME NEW y PROVE InQueue(y)' => InQueue(y)
  <2> SUFFICES ASSUME NEW n \in 1 .. Len(queue'), queue'[n] = y PROVE InQueue(y)
    BY DEF InQueue
  <2>1. n + 1 \in 1 .. Len(queue) /\ queue[n + 1] = y
    BY <1>1, <1>2
  <2> QED
    BY <2>1 DEF InQueue
<1>5. InQueue(Head(queue))
  BY <1>1, <1>2 DEF InQueue
<1> QED
  BY <1>2, <1>3, <1>4, <1>5

\* The frame an admission or a retry sends is the current attempt of its id,
\* and it is sent while the connection is Open.
LEMMA FramesSent ==
    ASSUME TypeInv, [Next]_vars, NEW i \in Ids,
           Admit(i) \/ \E k \in tkeys : k.id = i /\ TimeoutRetry(k)
    PROVE  /\ phase = "Open" /\ att'[i] \in 1..RetryCount
           /\ queue' = Append(queue, [id |-> i, attempt |-> att'[i]])
           /\ st' = [st EXCEPT ![i] = "Queued"]
           /\ \A j \in Ids : j # i => att'[j] = att[j]
           /\ UNCHANGED <<wpc, wbatch, wmark, gpc, marker, phase, drain>>
<1>1. TypeOK /\ att \in [Ids -> 0..RetryCount] /\ RetryCount \in Nat \ {0} /\ tkeys \in SUBSET Key
  BY LedgerTypes DEF TypeInv
<1>2. CASE Admit(i)
  BY <1>2, <1>1 DEF Admit, writer, closer, conn
<1>3. ASSUME NEW k \in tkeys, k.id = i, TimeoutRetry(k) PROVE
           /\ phase = "Open" /\ att'[i] \in 1..RetryCount
           /\ queue' = Append(queue, [id |-> i, attempt |-> att'[i]])
           /\ st' = [st EXCEPT ![i] = "Queued"]
           /\ \A j \in Ids : j # i => att'[j] = att[j]
           /\ UNCHANGED <<wpc, wbatch, wmark, gpc, marker, phase, drain>>
  <2>1. k.attempt \in 1..RetryCount
    BY <1>1 DEF Key
  <2> QED
    BY <1>3, <1>1, <2>1 DEF TimeoutRetry, writer, closer, conn
<1> QED
  BY <1>2, <1>3

\* Every step keeps the marker behind the last frame.
LEMMA CloseOrderStep ==
    ASSUME MarkerInv, [Next]_vars PROVE CloseOrder'
<1>0. /\ TypeInv /\ TypeOK /\ CloseOrder /\ queue \in Seq(Key \cup {Marker}) /\ Len(queue) \in Nat
      /\ wmark \in BOOLEAN
  BY DEF MarkerInv, TypeInv, TypeOK, TypeQueue, TypeWriter
<1>00. phase' = "Open" => phase = "Open"
  BY CanSubmitEnds
<1> USE DEF CloseOrder
<1>1. ASSUME UNCHANGED <<queue, wmark, marker>>, gpc' = gpc \/ (gpc # "idle" /\ gpc' \notin {"idle", "marker"})
      PROVE  CloseOrder'
  BY <1>0, <1>00, <1>1 DEF InQueue
<1>2. ASSUME NEW i \in Ids, Admit(i) \/ \E k \in tkeys : k.id = i /\ TimeoutRetry(k) PROVE CloseOrder'
  <2> DEFINE key == [id |-> i, attempt |-> att'[i]]
  <2>1. /\ phase = "Open" /\ key \in Key /\ queue' = Append(queue, key)
        /\ UNCHANGED <<wmark, gpc, marker, phase>>
    BY <1>0, <1>2, FramesSent DEF Key
  <2>2. key # Marker
    BY KeyIsNotMarker
  <2> HIDE DEF key
  <2>3. gpc = "idle" /\ ~wmark /\ marker = "none" /\ ~InQueue(Marker)
    BY <2>1, <1>0
  <2>4. ~InQueue(Marker)'
    BY <2>1, <2>2, <2>3, <1>0, SendKeeps
  <2> QED
    BY <2>1, <2>3, <2>4 DEF InQueue
<1>3. ASSUME WriterPick PROVE CloseOrder'
  <2>1. queue # <<>> /\ queue' = Tail(queue) /\ ~wmark /\ UNCHANGED <<gpc, marker, phase>>
        /\ (wmark' => Head(queue) = Marker) /\ wmark' \in BOOLEAN
    BY <1>3, <1>0 DEF WriterPick, closer, conn
  <2>2. /\ Len(queue') = Len(queue) - 1 /\ Len(queue) > 0 /\ Head(queue) = queue[1]
        /\ \A n \in 1 .. Len(queue') : queue'[n] = queue[n + 1]
        /\ \A y : InQueue(y) <=> InQueue(y)' \/ y = Head(queue)
    BY <2>1, <1>0, ReceiveTakes
  <2>3. queue' \in Seq(Key \cup {Marker})
    BY <2>1, <1>0
  <2>4. wmark' => queue' = <<>> /\ InQueue(Marker)
    <3>1. SUFFICES ASSUME wmark' PROVE queue' = <<>> /\ InQueue(Marker)
      OBVIOUS
    <3>2. Head(queue) = Marker
      BY <3>1, <2>1
    <3>3. 1 \in 1 .. Len(queue) /\ queue[1] = Marker
      BY <3>2, <2>2, <1>0
    <3>4. Len(queue) = 1
      BY <3>3, <1>0
    <3>5. queue' = <<>>
      BY <3>4, <2>2, <2>3
    <3> QED
      BY <3>2, <3>5, <2>2
  <2>5. \A n \in 1 .. Len(queue') : queue'[n] = Marker => n = Len(queue')
    BY <2>2, <1>0
  <2> QED
    BY <2>1, <2>2, <2>4, <2>5, <1>0
<1>4. ASSUME AckMarker, UNCHANGED queue PROVE CloseOrder'
  BY <1>4, <1>0, <1>00 DEF AckMarker, InQueue
<1>5. ASSUME WriterClaim PROVE CloseOrder'
  <2>1. queue' = queue /\ (AckMarker \/ UNCHANGED <<wmark, marker, gpc>>)
    BY <1>5 DEF WriterClaim
  <2> QED
    BY <2>1, <1>1, <1>4
<1>6. ASSUME WriterComplete PROVE CloseOrder'
  BY <1>6, <1>4 DEF WriterComplete
<1>7. ASSUME WriterStop PROVE CloseOrder'
  <2>1. wmark' = FALSE /\ UNCHANGED <<queue, marker, gpc>>
    BY <1>7 DEF WriterStop, closer
  <2> QED
    BY <2>1, <1>0, <1>00 DEF InQueue
<1>8. ASSUME CloseCall PROVE CloseOrder'
  <2>1. phase' # "Open" /\ gpc = "idle" /\ UNCHANGED <<queue, marker, wmark>>
    BY <1>8 DEF CloseCall, writer
  <2> QED
    BY <2>1, <1>0 DEF InQueue
<1>9. ASSUME CloseSendMarker PROVE CloseOrder'
  <2>1. gpc = "marker" /\ gpc' = "ack" /\ queue' = Append(queue, Marker) /\ UNCHANGED <<marker, wmark>>
    BY <1>9 DEF CloseSendMarker, writer
  <2>2. /\ Len(queue') = Len(queue) + 1 /\ \A n \in 1 .. Len(queue) : queue'[n] = queue[n]
    BY <2>1, <1>0, SendKeeps
  <2> QED
    BY <2>1, <2>2, <1>0, <1>00 DEF InQueue
<1>10. Match \/ CleanupFail \/ (\E k \in tkeys : TimeoutExhausted(k)) => UNCHANGED <<queue, wmark, marker, gpc>>
  BY DEF Match, CleanupFail, TimeoutExhausted, writer, closer
<1>11. \A k \in tkeys : TimeoutRetry(k) => k.id \in Ids
  BY <1>0 DEF TypeOK, TypeTimer, Key
<1> QED
  BY <1>1, <1>2, <1>3, <1>5, <1>6, <1>7, <1>8, <1>9, <1>10, <1>11, QueueSteps

\* Where entries move: what each step does to Busy and Waiting of one id.
LEMMA BatchStep ==
    ASSUME MarkerInv, [Next]_vars, NEW i \in Ids PROVE Busy(i)' /\ Waiting(i)'
<1>0. /\ TypeInv /\ TypeOK /\ CloseOrder /\ Busy(i) /\ Waiting(i) /\ wmark \in BOOLEAN
      /\ st \in [Ids -> Live \cup {"Responded", "absent"}] /\ att \in [Ids -> 0..RetryCount]
      /\ wpc \in {"pick", "write", "done"} /\ wbatch \in SUBSET Key /\ tkeys \in SUBSET Key
      /\ (CanSubmit' => CanSubmit)
  BY LedgerTypes, CanSubmitEnds DEF MarkerInv, TypeInv, TypeOK, TypeWriter
<1>00. \A k \in Key, j \in Ids : k.id = j /\ att[j] = k.attempt => k = KeyOf(j)
  BY DEF Key, KeyOf
<1> USE DEF Busy, Waiting
<1>1. ASSUME UNCHANGED <<st, att, queue, wpc, wbatch>> PROVE Busy(i)' /\ Waiting(i)'
  BY <1>0, <1>1 DEF KeyOf, InQueue
<1>2. ASSUME NEW j \in Ids, Admit(j) \/ \E k \in tkeys : k.id = j /\ TimeoutRetry(k)
      PROVE  Busy(i)' /\ Waiting(i)'
  <2>1. /\ att'[j] \in 1..RetryCount /\ queue' = Append(queue, [id |-> j, attempt |-> att'[j]])
        /\ st' = [st EXCEPT ![j] = "Queued"] /\ UNCHANGED <<wpc, wbatch>>
        /\ \A h \in Ids : h # j => att'[h] = att[h]
    BY <1>0, <1>2, FramesSent
  <2>2. \A y : InQueue(y)' <=> InQueue(y) \/ y = [id |-> j, attempt |-> att'[j]]
    <3>1. [id |-> j, attempt |-> att'[j]] \in Key
      BY <2>1 DEF Key
    <3> QED
      BY <2>1, <3>1, <1>0, SendKeeps
  <2>3. CASE i = j
    BY <2>1, <2>2, <2>3, <1>0 DEF KeyOf
  <2>4. CASE i # j
    <3>1. st'[i] = st[i] /\ KeyOf(i)' = KeyOf(i)
      BY <2>1, <2>4, <1>0 DEF KeyOf
    <3> QED
      BY <3>1, <2>1, <2>2, <1>0
  <2> QED
    BY <2>3, <2>4
<1>3. ASSUME WriterPick PROVE Busy(i)' /\ Waiting(i)'
  <2>1. /\ queue # <<>> /\ queue' = Tail(queue) /\ UNCHANGED <<st, att, wpc>> /\ wpc = "pick"
        /\ Head(queue) = Marker \/ wbatch' = wbatch \cup {Head(queue)}
        /\ wbatch \subseteq wbatch'
    BY <1>3 DEF WriterPick, entries
  <2>2. \A y : InQueue(y) => InQueue(y)' \/ y = Head(queue)
    BY <2>1, <1>0, ReceiveTakes
  <2>3. KeyOf(i)' = KeyOf(i) /\ KeyOf(i) # Marker
    BY <2>1, KeyIsNotMarker DEF KeyOf
  <2> QED
    BY <2>1, <2>2, <2>3, <1>0
<1>4. ASSUME WriterClaim PROVE Busy(i)' /\ Waiting(i)'
  <2> DEFINE claimed == {k \in wbatch : Claimable(k)}
             ids     == {k.id : k \in claimed}
  <2>1. /\ wpc = "pick" /\ wbatch' = claimed /\ UNCHANGED <<att, queue>>
        /\ st' = [h \in Ids |-> IF h \in ids THEN "Writing" ELSE st[h]]
        /\ wpc' = "write" \/ (claimed = {} /\ wpc' = wpc)
    BY <1>4 DEF WriterClaim
  <2>2. KeyOf(i)' = KeyOf(i) /\ \A y : InQueue(y)' <=> InQueue(y)
    BY <2>1 DEF KeyOf, InQueue
  <2>3. CASE i \in ids
    <3>1. PICK k \in claimed : k.id = i
      BY <2>3
    <3>2. k = KeyOf(i)
      BY <3>1, <1>0, <1>00 DEF Claimable
    <3> HIDE DEF ids, claimed
    <3> QED
      BY <3>1, <3>2, <2>1, <2>2, <2>3
  <2>4. CASE i \notin ids
    <3>1. CanSubmit /\ st[i] = "Queued" => KeyOf(i) \notin wbatch
      <4> SUFFICES ASSUME CanSubmit, st[i] = "Queued", KeyOf(i) \in wbatch PROVE FALSE
        OBVIOUS
      <4>1. KeyOf(i) \in claimed /\ KeyOf(i).id = i
        BY DEF Claimable, KeyOf
      <4> QED
        BY <4>1, <2>4
    <3> HIDE DEF ids, claimed
    <3> QED
      BY <3>1, <2>1, <2>2, <2>4, <1>0
  <2> QED
    BY <2>3, <2>4
<1>5. ASSUME WriterComplete PROVE Busy(i)' /\ Waiting(i)'
  <2> DEFINE ids == {k.id : k \in {b \in wbatch : att[b.id] = b.attempt}}
  <2>1. /\ wpc = "write" /\ UNCHANGED <<att, queue>>
        /\ st' = [h \in Ids |-> IF h \in {g \in ids : st[g] = "Responded"} THEN "absent"
                               ELSE IF h \in ids /\ st[h] = "Writing" THEN "Awaiting"
                               ELSE st[h]]
    BY <1>5 DEF WriterComplete, entries
  <2>2. KeyOf(i)' = KeyOf(i) /\ \A y : InQueue(y)' <=> InQueue(y)
    BY <2>1 DEF KeyOf, InQueue
  <2>3. KeyOf(i) \in wbatch => i \in ids
    <3>1. KeyOf(i).id = i /\ att[KeyOf(i).id] = KeyOf(i).attempt
      BY DEF KeyOf
    <3> QED
      BY <3>1
  <2> HIDE DEF ids
  <2>4. st'[i] \notin {"Writing", "Responded"} /\ (st'[i] = "Queued" => st[i] = "Queued")
    BY <2>1, <2>3, <1>0
  <2> QED
    BY <2>1, <2>2, <2>4, <1>0
<1>6. ASSUME WriterStop PROVE Busy(i)' /\ Waiting(i)'
  BY <1>6 DEF WriterStop
<1>7. ASSUME Match \/ CleanupFail \/ \E k \in tkeys : TimeoutExhausted(k) PROVE Busy(i)' /\ Waiting(i)'
  <2>1. UNCHANGED <<att, queue, wpc, wbatch>>
    BY <1>7 DEF Match, CleanupFail, TimeoutExhausted, writer
  <2>2. KeyOf(i)' = KeyOf(i) /\ \A y : InQueue(y)' <=> InQueue(y)
    BY <2>1 DEF KeyOf, InQueue
  <2>3. st'[i] \in {st[i], "absent"} \/ (st[i] = "Writing" /\ st'[i] = "Responded")
    <3>1. Match => st'[i] \in {st[i], "absent"} \/ (st[i] = "Writing" /\ st'[i] = "Responded")
      BY DEF Match
    <3>2. CleanupFail => st'[i] = "absent"
      BY DEF CleanupFail
    <3>3. \A k \in tkeys : TimeoutExhausted(k) => st'[i] \in {st[i], "absent"}
      BY <1>0 DEF TimeoutExhausted
    <3> QED
      BY <1>7, <3>1, <3>2, <3>3
  <2> QED
    BY <2>1, <2>2, <2>3, <1>0
<1>8. CloseCall => UNCHANGED <<st, att, queue, wpc, wbatch>>
  BY DEF CloseCall, entries, writer
<1>9. ASSUME CloseSendMarker PROVE Busy(i)' /\ Waiting(i)'
  <2>1. UNCHANGED <<st, att, wpc, wbatch>> /\ queue' = Append(queue, Marker)
    BY <1>9 DEF CloseSendMarker, entries, writer
  <2>2. KeyOf(i)' = KeyOf(i) /\ \A y : InQueue(y) => InQueue(y)'
    BY <2>1, <1>0, SendKeeps DEF KeyOf
  <2> QED
    BY <2>1, <2>2, <1>0
<1>10. \A k \in tkeys : k.id \in Ids
  BY <1>0 DEF Key
<1> QED
  BY <1>1, <1>2, <1>3, <1>4, <1>5, <1>6, <1>7, <1>8, <1>9, <1>10, QueueSteps

\* The writer acknowledges the marker only with every frame before it behind it.
LEMMA MarkerStep ==
    ASSUME MarkerInv, [Next]_vars PROVE MarkerMeansWritten'
<1>0. /\ TypeInv /\ TypeOK /\ CloseOrder /\ MarkerMeansWritten /\ (\A i \in Ids : Busy(i) /\ Waiting(i))
      /\ st \in [Ids -> Live \cup {"Responded", "absent"}]
      /\ wbatch \in SUBSET Key /\ tkeys \in SUBSET Key
      /\ queue \in Seq(Key \cup {Marker})
  BY LedgerTypes DEF MarkerInv, TypeInv, TypeOK, TypeQueue
<1>00. \A i \in Ids : Busy(i)' /\ Waiting(i)'
  BY BatchStep
<1> SUFFICES ASSUME marker' = "clean", NEW i \in Ids, st'[i] \in {"Queued", "Writing", "Responded"} PROVE FALSE
  BY DEF MarkerMeansWritten
<1>1. CASE marker' # marker
  <2>1. AckMarker /\ wmark /\ CanSubmit /\ wpc' = "pick" /\ queue' = queue
        /\ (WriterClaim \/ WriterComplete)
    <3>1. WriterClaim \/ WriterComplete
      <4>1. \/ \E j \in Ids : Admit(j)
            \/ WriterPick \/ WriterStop \/ Match \/ CleanupFail
            \/ \E k \in tkeys : TimeoutExhausted(k) \/ TimeoutRetry(k)
            \/ CloseCall \/ CloseSendMarker
            => UNCHANGED marker
        BY DEF Admit, WriterPick, WriterStop, Match, CleanupFail, TimeoutExhausted, TimeoutRetry,
               CloseCall, CloseSendMarker, closer
      <4> QED
        BY <4>1, <1>1, QueueSteps
    <3>2. AckMarker /\ wpc' = "pick" /\ queue' = queue
      BY <3>1, <1>1 DEF WriterClaim, WriterComplete
    <3>3. wmark /\ CanSubmit
      BY <3>2, <1>1 DEF AckMarker, CanSubmit
    <3> QED
      BY <3>1, <3>2, <3>3
  <2>2. queue = <<>> /\ \A y : ~InQueue(y)
    BY <2>1, <1>0 DEF CloseOrder, InQueue
  <2>3. st'[i] = "Queued"
    BY <2>1, <1>00 DEF Busy
  <2>4. CASE WriterClaim
    <3> DEFINE claimed == {k \in wbatch : Claimable(k)}
    <3>1. wpc = "pick" /\ claimed = {} /\ st' = [h \in Ids |-> IF h \in {k.id : k \in claimed} THEN "Writing" ELSE st[h]]
      BY <2>1, <2>4 DEF WriterClaim
    <3>2. st[i] = "Queued"
      BY <3>1, <2>3
    <3>3. KeyOf(i) \in wbatch
      BY <3>1, <3>2, <2>1, <2>2, <1>0 DEF Waiting
    <3>4. KeyOf(i) \in claimed
      BY <3>2, <3>3, <2>1 DEF Claimable, KeyOf
    <3> QED
      BY <3>1, <3>4
  <2>5. CASE WriterComplete
    <3>1. wpc = "write" /\ st[i] = "Queued"
      BY <2>3, <2>5, <1>0, CompleteMoves DEF WriterComplete
    <3> QED
      BY <3>1, <2>1, <2>2, <1>0 DEF Waiting
  <2> QED
    BY <2>1, <2>4, <2>5
<1>2. CASE marker' = marker
  <2>1. phase # "Open" /\ st[i] \notin {"Queued", "Writing", "Responded"}
    BY <1>0, <1>2 DEF CloseOrder, MarkerMeansWritten
  <2>2. \A j \in Ids : ~Admit(j)
    BY <2>1 DEF Admit
  <2>3. \A k \in tkeys : ~TimeoutRetry(k)
    BY <2>1 DEF TimeoutRetry
  <2>4. ASSUME NEW k \in tkeys, TimeoutExhausted(k) PROVE FALSE
    BY <2>4, <2>1, <1>0 DEF TimeoutExhausted
  <2>5. ~WriterClaim
    BY <2>1, <1>0, ClaimMoves
  <2>6. ~WriterComplete
    BY <2>1, <1>0, CompleteMoves
  <2>7. ~Match /\ ~CleanupFail
    BY <2>1, <1>0 DEF Match, CleanupFail
  <2>8. ~ UNCHANGED st
    BY <2>1
  <2>9. ~(WriterPick \/ WriterStop \/ CloseCall \/ CloseSendMarker)
    BY <2>8 DEF WriterPick, WriterStop, CloseCall, CloseSendMarker, entries
  <2> QED
    BY <2>2, <2>3, <2>4, <2>5, <2>6, <2>7, <2>8, <2>9, QueueSteps
<1> QED
  BY <1>1, <1>2

\* The marker's inductive invariant.
LEMMA MarkerInvariant == Safety => []MarkerInv
<1>1. Init => MarkerInv
  <2> SUFFICES ASSUME Init PROVE MarkerInv
    OBVIOUS
  <2>1. TypeInv
    BY AccountInit DEF AccountInv
  <2>2. CloseOrder /\ MarkerMeansWritten
    BY DEF Init, CloseOrder, MarkerMeansWritten, InQueue
  <2>3. \A i \in Ids : Busy(i) /\ Waiting(i)
    BY DEF Init, Busy, Waiting
  <2> QED
    BY <2>1, <2>2, <2>3 DEF MarkerInv
<1>2. MarkerInv /\ [Next]_vars => MarkerInv'
  <2> SUFFICES ASSUME MarkerInv, [Next]_vars PROVE MarkerInv'
    OBVIOUS
  <2>1. TypeInv'
    BY TypeStep, AttemptedStep DEF MarkerInv, TypeInv
  <2> QED
    BY <2>1, CloseOrderStep, MarkerStep, BatchStep DEF MarkerInv
<1> QED
  BY <1>1, <1>2, PTL DEF Safety

\* A drain marker acknowledged while the drain is on: every SUBMIT queued before
\* it was written or answered (writer_task, pending_marker).
THEOREM CleanMarkerMeansWritten == Safety => []MarkerMeansWritten
BY MarkerInvariant, PTL DEF MarkerInv

-----------------------------------------------------------------------------
\* Refinement: what the caller can observe moves as SubmitOutcome allows.

\* The guards of fateOf exclude one another in a reachable state, so the order
\* in which they are read does not matter.
FateIs == \A i \in Ids :
    fateOf[i] = IF sub[i] # "admitted" THEN "none"
                ELSE IF outcome[i] # "none" THEN outcome[i]
                ELSE IF lost[i] # "no" THEN "lost" ELSE "accepted"

\* An id that was not admitted has no terminal, and a terminal is delivered or
\* lost, never both.
LEMMA TerminalsExclude ==
    ASSUME SettledInv, NEW i \in Ids
    PROVE  /\ sub[i] # "admitted" => outcome[i] = "none" /\ lost[i] = "no"
           /\ outcome[i] # "none" => lost[i] = "no"
           /\ outcome[i] \in {"none", "resp", "timeout", "dropped"}
<1>1. Accounted(i) /\ FateInv /\ delivered[i] \in Nat /\ outcome[i] \in {"none", "resp", "timeout", "dropped"}
  BY DEF SettledInv, AccountInv, TypeInv, TerminalAccounted, TypeOK, TypeFates
<1>2. outcome[i] = "none" <=> delivered[i] = 0
  BY <1>1 DEF FateInv
<1> QED
  BY <1>1, <1>2 DEF Accounted, Count

\* So fateOf reads as a chain of conditions.
LEMMA FateOf == SettledInv => FateIs
<1> SUFFICES ASSUME SettledInv, NEW i \in Ids
             PROVE  fateOf[i] = IF sub[i] # "admitted" THEN "none"
                                ELSE IF outcome[i] # "none" THEN outcome[i]
                                ELSE IF lost[i] # "no" THEN "lost" ELSE "accepted"
  BY DEF FateIs
<1> QED
  BY TerminalsExclude DEF fateOf

\* An id that waits for its terminal, in whatever hands, has the fate accepted.
LEMMA OwedIsAccepted ==
    ASSUME SettledInv, NEW i \in Ids, st[i] \in Live \/ i \in remit \/ i \in dropList
    PROVE  sub[i] = "admitted" /\ outcome[i] = "none" /\ lost[i] = "no"
<1>1. Accounted(i) /\ FateInv /\ delivered[i] \in Nat
  BY DEF SettledInv, AccountInv, TypeInv, TerminalAccounted, TypeOK, TypeFates
<1>2. sub[i] = "admitted" /\ delivered[i] = 0 /\ lost[i] = "no"
  BY <1>1 DEF Accounted, Count
<1> QED
  BY <1>1, <1>2 DEF FateInv

\* Publishing the terminals of owed ids, or giving them up, concludes them.
LEMMA PublishConcludes ==
    ASSUME FateIs, FateIs', NEW S \in SUBSET Ids, UNCHANGED sub,
           \A i \in S : sub[i] = "admitted" /\ outcome[i] = "none" /\ lost[i] = "no",
           NEW kind \in {"resp", "timeout", "dropped"}, Publish(S, kind)
    PROVE  Outcome!Next
<1>1. \A i \in S : fateOf[i] = "accepted"
  BY DEF FateIs
<1>2. \A i \in Ids : fateOf'[i] = IF i \in S THEN kind ELSE fateOf[i]
  BY DEF FateIs, Publish
<1>3. fateOf' = [i \in Ids |-> fateOf'[i]]
  BY DEF fateOf
<1>4. fateOf' = [i \in Ids |-> IF i \in S THEN kind ELSE fateOf[i]]
  BY <1>2, <1>3
<1>5. Outcome!Conclude(S, kind)
  BY <1>1, <1>4 DEF Outcome!Conclude
<1> QED
  BY <1>5 DEF Outcome!Next, Outcome!Final, Outcome!Terminals

\* The same for terminals that are given up and counted as dropped.
LEMMA GiveUpConcludes ==
    ASSUME FateIs, FateIs', NEW S \in SUBSET Ids, UNCHANGED sub,
           \A i \in S : sub[i] = "admitted" /\ outcome[i] = "none" /\ lost[i] = "no",
           NEW why, why # "no", GiveUp(S, why)
    PROVE  Outcome!Next
<1>1. \A i \in S : fateOf[i] = "accepted"
  BY DEF FateIs
<1>2. \A i \in Ids : fateOf'[i] = IF i \in S THEN "lost" ELSE fateOf[i]
  BY DEF FateIs, GiveUp
<1>3. fateOf' = [i \in Ids |-> fateOf'[i]]
  BY DEF fateOf
<1>4. fateOf' = [i \in Ids |-> IF i \in S THEN "lost" ELSE fateOf[i]]
  BY <1>2, <1>3
<1>5. Outcome!Conclude(S, "lost")
  BY <1>1, <1>4 DEF Outcome!Conclude
<1> QED
  BY <1>5 DEF Outcome!Next, Outcome!Final

\* Every step of the pipeline is a step of the abstract lifecycle or a stutter.
LEMMA OutcomeStep == SettledInv /\ FateIs /\ FateIs' /\ [Next]_vars => [Outcome!Next]_fateOf
<1> SUFFICES ASSUME SettledInv, FateIs, FateIs', [Next]_vars PROVE Outcome!Next \/ UNCHANGED fateOf
  OBVIOUS
<1>0. /\ TypeOK /\ tkeys \in SUBSET Key /\ remit \in SUBSET Ids /\ dropList \in SUBSET Ids
      /\ sub \in [Ids -> {"new", "permit", "slot", "admitted", "refused"}]
  BY LedgerTypes DEF SettledInv, AccountInv, TypeInv, TypeOK, TypeReader, TypeConn
<1>1. ASSUME UNCHANGED <<sub, outcome, lost>> PROVE UNCHANGED fateOf
  BY <1>1 DEF fateOf
<1>2. ASSUME NEW j \in Ids, AcquirePermit(j) \/ ReserveSlot(j) \/ Abandon(j) \/ Refuse(j)
      PROVE  UNCHANGED fateOf
  <2>1. UNCHANGED <<outcome, lost>> /\ sub[j] # "admitted"
        /\ \E v \in {"permit", "slot", "refused"} : sub' = [sub EXCEPT ![j] = v]
    BY <1>2, <1>0 DEF AcquirePermit, ReserveSlot, Abandon, Refuse, fates
  <2>2. \A i \in Ids : (sub'[i] = "admitted") <=> (sub[i] = "admitted")
    BY <2>1, <1>0
  <2> QED
    BY <2>1, <2>2 DEF fateOf
<1>3. ASSUME NEW j \in Ids, Admit(j) PROVE Outcome!Next
  <2>1. sub[j] = "slot" /\ sub' = [sub EXCEPT ![j] = "admitted"] /\ UNCHANGED <<outcome, lost>>
    BY <1>3 DEF Admit, fates
  <2>2. outcome[j] = "none" /\ lost[j] = "no" /\ fateOf[j] = "none"
    BY <2>1, TerminalsExclude DEF FateIs
  <2>3. \A i \in Ids : fateOf'[i] = IF i = j THEN "accepted" ELSE fateOf[i]
    BY <2>1, <2>2, <1>0 DEF FateIs
  <2>4. fateOf = [i \in Ids |-> fateOf[i]] /\ fateOf' = [i \in Ids |-> fateOf'[i]]
    BY DEF fateOf
  <2>5. fateOf' = [fateOf EXCEPT ![j] = "accepted"]
    BY <2>3, <2>4
  <2> QED
    BY <2>2, <2>5 DEF Outcome!Next, Outcome!Accept
<1>4. ASSUME NEW j \in Ids, EmitResp(j) PROVE Outcome!Next
  <2>1. j \in remit /\ UNCHANGED sub
        /\ (Publish({j}, "resp") \/ \E why \in {"overflow", "refused"} : GiveUp({j}, why))
    BY <1>4 DEF EmitResp
  <2>2. \A i \in {j} : sub[i] = "admitted" /\ outcome[i] = "none" /\ lost[i] = "no"
    BY <2>1, OwedIsAccepted
  <2>3. Publish({j}, "resp") => Outcome!Next
    BY <2>1, <2>2, PublishConcludes
  <2>4. \A why \in {"overflow", "refused"} : GiveUp({j}, why) => Outcome!Next
    BY <2>1, <2>2, GiveUpConcludes
  <2> QED
    BY <2>1, <2>3, <2>4
<1>5. ASSUME NEW k \in tkeys, TimeoutExhausted(k) PROVE Outcome!Next \/ UNCHANGED fateOf
  <2>1. /\ k.id \in Ids /\ st[k.id] \in Live /\ UNCHANGED sub
        /\ Publish({k.id}, "timeout") \/ UNCHANGED <<outcome, lost>>
    BY <1>5, <1>0 DEF TimeoutExhausted, StillExpired, Key, Live, fates
  <2>2. \A i \in {k.id} : sub[i] = "admitted" /\ outcome[i] = "none" /\ lost[i] = "no"
    BY <2>1, OwedIsAccepted
  <2>3. Publish({k.id}, "timeout") => Outcome!Next
    BY <2>1, <2>2, PublishConcludes
  <2> QED
    BY <2>1, <2>3, <1>1
<1>6. ASSUME CleanupSend PROVE Outcome!Next
  <2>1. PICK S \in SUBSET dropList : Publish(S, "dropped") \/ GiveUp(S, "budget")
    BY <1>6 DEF CleanupSend
  <2>2. S \in SUBSET Ids /\ UNCHANGED sub
        /\ \A i \in S : sub[i] = "admitted" /\ outcome[i] = "none" /\ lost[i] = "no"
    BY <2>1, <1>0, <1>6, OwedIsAccepted DEF CleanupSend
  <2>3. Publish(S, "dropped") => Outcome!Next
    BY <2>2, PublishConcludes
  <2>4. GiveUp(S, "budget") => Outcome!Next
    BY <2>2, GiveUpConcludes
  <2> QED
    BY <2>1, <2>3, <2>4
<1>7. WriterClaim \/ WriterComplete \/ Match \/ CleanupFail \/ (\E k \in tkeys : TimeoutRetry(k))
        => UNCHANGED <<sub, outcome, lost>>
  BY DEF WriterClaim, WriterComplete, Match, CleanupFail, TimeoutRetry, fates
<1> QED
  BY <1>1, <1>2, <1>3, <1>4, <1>5, <1>6, <1>7, EntrySteps

\* What the caller of submit() can observe is the safety part of SubmitOutcome:
\* one acceptance, one conclusion, nothing after it.
THEOREM ObservableLifecycle == Safety => Outcome!Safety
<1>1. Init => Outcome!Init
  BY DEF Init, Outcome!Init, fateOf
<1>2. SettledInv /\ FateIs /\ FateIs' /\ [Next]_vars => [Outcome!Next]_fateOf
  BY OutcomeStep
<1>3. SettledInv => FateIs
  BY FateOf
<1> QED
  BY <1>1, <1>2, <1>3, SettledInvariant, PTL DEF Safety, Outcome!Safety
-----------------------------------------------------------------------------
\* ConnectionMetrics: the counters of SubmitMetrics, beside the same steps.

\* The ids that are under way, and the ids that were torn down.
Under == {i \in Ids : Unfinished(i)}
Down  == {i \in Ids : Torn(i)}

\* What was admitted and not answered and has not timed out is in one of them.
Balance == admitted = responses + timeouts + Cardinality(Under) + Cardinality(Down)

\* The inductive invariant behind the counters.
MetricsInv == /\ SettledInv /\ admitted \in Nat /\ responses \in Nat /\ timeouts \in Nat
              /\ Balance /\ DropsCounted

\* Balance is what the run checks.
LEMMA BalanceIs == Balance <=> CountersBalance
BY DEF Balance, CountersBalance, Under, Down, Having

\* Counting adds nothing to the pipeline's steps.
LEMMA CountedIsNext == [NextMetrics]_<<vars, counters>> => [Next]_vars
<1>1. \A i \in Ids : CountAdmit(i) \/ CountResp(i) => Next
  BY DEF CountAdmit, CountResp, Next, Caller, Reader
<1>2. \A k \in tkeys : CountTimeout(k) => Next
  BY DEF CountTimeout, Next, Timeouts
<1>3. CountCleanup => Next
  BY DEF CountCleanup, Next, Cleanup
<1>4. Uncounted => Next
  <2>1. ASSUME NEW i \in Ids, AcquirePermit(i) \/ ReserveSlot(i) \/ Abandon(i) \/ Refuse(i) PROVE Next
    BY <2>1 DEF Next, Caller
  <2>2. ASSUME NEW k \in tkeys, TimeoutRetry(k) \/ TimeoutSkip(k) \/ TimeoutStop(k) PROVE Next
    BY <2>2 DEF Next, Timeouts
  <2> QED
    BY <2>1, <2>2 DEF Uncounted, Next, Reader, Timeouts, Cleanup
<1> QED
  BY <1>1, <1>2, <1>3, <1>4 DEF NextMetrics

\* Which of the steps that are not counted touch the entries; none settles a fate.
LEMMA UncountedSteps ==
    ASSUME Uncounted
    PROVE  /\ UNCHANGED <<outcome, delivered, lost>>
           /\ \/ UNCHANGED <<st, remit, dropList>>
              \/ WriterClaim \/ WriterComplete \/ Match \/ CleanupFail
              \/ \E k \in tkeys : TimeoutRetry(k)
<1> DEFINE Fates == UNCHANGED <<outcome, delivered, lost>>
           Same  == Fates /\ UNCHANGED <<st, remit, dropList>>
<1> USE DEF conn, entries, reader, fates
<1>1. \A i \in Ids : AcquirePermit(i) \/ ReserveSlot(i) \/ Abandon(i) \/ Refuse(i) => Same
  BY DEF AcquirePermit, ReserveSlot, Abandon, Refuse, Finish
<1>2. WriterPick \/ WriterStop \/ PeerTerminateAnswered => Same
  BY DEF WriterPick, WriterStop, PeerTerminateAnswered, Finish
<1>3. Peer => Same
  BY DEF Peer, Decode, PeerTerminate, DeliverOverflow, ReaderStop, Finish, CloseWithoutDrain
<1>4. TimerTick \/ TimerScan \/ TimerRest => Same
  BY DEF TimerTick, TimerScan, TimerRest
<1>5. \A k \in tkeys : TimeoutSkip(k) \/ TimeoutStop(k) => Same
  BY DEF TimeoutSkip, TimeoutStop, Finish
<1>6. Backpressure \/ Overload => Same
  BY DEF Backpressure, Overload, BackpressureClose, OverloadStart, OverloadSeal, OverloadFinish, Finish, CloseWithoutDrain
<1>7. CloseCall \/ Close \/ OtherFinish => Same
  BY DEF CloseCall, Close, CloseSendMarker, CloseDrained, CloseSeal, CloseFinish, CloseReap, OtherFinish, Finish
<1>8. CleanupClear \/ CleanupClose => Same
  BY DEF CleanupClear, CleanupClose
<1>9. WriterClaim \/ WriterComplete \/ Match \/ CleanupFail \/ (\E k \in tkeys : TimeoutRetry(k)) => Fates
  BY DEF WriterClaim, WriterComplete, Match, CleanupFail, TimeoutRetry
<1> HIDE DEF Fates
<1> QED
  BY <1>1, <1>2, <1>3, <1>4, <1>5, <1>6, <1>7, <1>8, <1>9 DEF Uncounted, Writer, Fates

\* Admission of events, once lost, does not come back.
LEMMA AdmissionLost == [Next]_vars /\ adm \notin Accepts => adm' \notin Accepts
<1> SUFFICES ASSUME [Next]_vars, adm \notin Accepts PROVE adm' \notin Accepts
  OBVIOUS
<1> USE DEF Accepts, events
<1>1. (\E i \in Ids : Caller(i)) \/ Writer => adm' \notin Accepts
  BY DEF Caller, AcquirePermit, ReserveSlot, Abandon, Admit, Refuse, Writer, WriterPick, WriterClaim, WriterComplete, WriterStop
<1>2. Reader \/ Peer => adm' \notin Accepts
  BY DEF Reader, Match, EmitResp, PeerTerminateAnswered, Peer, Decode, PeerTerminate, DeliverOverflow, ReaderStop,
         Emit, BeginEventDrain
<1>3. Timeouts => adm' \notin Accepts
  BY DEF Timeouts, TimerTick, TimerScan, TimerRest, TimeoutExhausted, TimeoutRetry, TimeoutSkip, TimeoutStop, Emit
<1>4. Backpressure \/ Overload => adm' \notin Accepts
  BY DEF Backpressure, Overload, BackpressureClose, OverloadStart, OverloadSeal, OverloadFinish, Seal
<1>5. CloseCall \/ Close \/ OtherFinish => adm' \notin Accepts
  BY DEF CloseCall, BeginEventDrain, Close, CloseSendMarker, CloseDrained, CloseSeal, CloseFinish, CloseReap, OtherFinish, Seal
<1>6. Cleanup => adm' \notin Accepts
  BY DEF Cleanup, CleanupClear, CleanupFail, CleanupSend, CleanupClose
<1>7. UNCHANGED vars => adm' \notin Accepts
  BY DEF vars
<1> QED
  BY <1>1, <1>2, <1>3, <1>4, <1>5, <1>6, <1>7 DEF Next

\* The two sets are finite.
LEMMA CountedSets ==
    /\ IsFiniteSet(Under) /\ IsFiniteSet(Down)
    /\ Cardinality(Under) \in Nat /\ Cardinality(Down) \in Nat
<1>1. Under \subseteq Ids /\ Down \subseteq Ids
  BY DEF Under, Down
<1> QED
  BY <1>1, SizeOfIds, FS_Subset, ConstantsAssumption DEF ConstantsAssumption

\* An id that is owed its terminal is owed it by one hand, and has no fate yet.
LEMMA OwedOnce ==
    ASSUME SettledInv, NEW i \in Ids, Unfinished(i)
    PROVE  /\ sub[i] = "admitted" /\ delivered[i] = 0 /\ outcome[i] = "none" /\ lost[i] = "no"
           /\ i \in remit => st[i] \notin Live /\ i \notin dropList
           /\ i \in dropList => st[i] \notin Live /\ i \notin remit
           /\ st[i] \in Live => i \notin remit /\ i \notin dropList
<1>1. Accounted(i) /\ FateInv /\ delivered[i] \in Nat
  BY DEF SettledInv, AccountInv, TypeInv, TerminalAccounted, TypeOK, TypeFates
<1>2. sub[i] = "admitted" /\ outcome[i] = "none" /\ lost[i] = "no"
  BY OwedIsAccepted DEF Unfinished
<1>3. delivered[i] = 0
  BY <1>1, <1>2 DEF FateInv
<1> QED
  BY <1>1, <1>2, <1>3 DEF Accounted, Count, Unfinished

\* How a step that is not counted moves the terminals that are owed: from hand to
\* hand only.
LEMMA UncountedKeeps ==
    ASSUME SettledInv, Uncounted
    PROVE  Under' = Under /\ Down' = Down
<1>0. /\ TypeOK /\ CleanupOnce
      /\ st \in [Ids -> Live \cup {"Responded", "absent"}]
      /\ remit \in SUBSET Ids /\ dropList \in SUBSET Ids /\ tkeys \in SUBSET Key
  BY DEF SettledInv, AccountInv, TypeInv, TypeOK, TypeEntries, TypeReader, TypeConn, TypeTimer
<1>1. Down' = Down
  BY UncountedSteps DEF Down, Torn
<1>2. ASSUME NEW i \in Ids PROVE Unfinished(i)' <=> Unfinished(i)
  <2> USE DEF Unfinished, Live
  <2>1. CASE UNCHANGED <<st, remit, dropList>>
    BY <2>1
  <2>2. CASE WriterClaim
    <3>1. UNCHANGED <<remit, dropList>>
      BY <2>2 DEF WriterClaim, AckMarker, reader
    <3> QED
      BY <2>2, <3>1, <1>0, ClaimMoves
  <2>3. CASE WriterComplete
    <3>1. UNCHANGED <<remit, dropList>>
      BY <2>3 DEF WriterComplete, AckMarker, reader
    <3> QED
      BY <2>3, <3>1, <1>0, CompleteMoves
  <2>4. CASE Match
    <3>1. UNCHANGED dropList /\ remit = {}
      BY <2>4 DEF Match, conn
    <3>2. (i \in remit') <=> (i \in rbuf /\ st[i] \in Live)
      BY <2>4 DEF Match
    <3>3. st'[i] = IF i \in rbuf /\ st[i] \in Live
                   THEN IF st[i] = "Writing" THEN "Responded" ELSE "absent" ELSE st[i]
      BY <2>4 DEF Match
    <3> QED
      BY <3>1, <3>2, <3>3
  <2>5. CASE CleanupFail
    <3>1. UNCHANGED remit /\ dropList = {}
      BY <2>5, <1>0 DEF CleanupFail, CleanupOnce, reader
    <3>2. /\ st'[i] = "absent"
          /\ (i \in dropList') <=> (st[i] # "absent" /\ st[i] # "Responded")
      BY <2>5 DEF CleanupFail
    <3> QED
      BY <3>1, <3>2, <1>0
  <2>6. ASSUME NEW k \in tkeys, TimeoutRetry(k) PROVE Unfinished(i)' <=> Unfinished(i)
    <3>1. /\ UNCHANGED <<remit, dropList>>
          /\ st[k.id] = "Awaiting" /\ st' = [st EXCEPT ![k.id] = "Queued"]
      BY <2>6 DEF TimeoutRetry, StillExpired, conn, reader
    <3> QED
      BY <3>1, <1>0
  <2> QED
    BY <2>1, <2>2, <2>3, <2>4, <2>5, <2>6, UncountedSteps
<1>3. Under' = Under
  BY <1>2 DEF Under
<1> QED
  BY <1>1, <1>3

\* What the counted steps do to the owed and the torn down ids.
LEMMA AdmitMoves ==
    ASSUME SettledInv, NEW j \in Ids, CountAdmit(j)
    PROVE  j \notin Under /\ Under' = Under \cup {j} /\ Down' = Down
<1>1. /\ sub[j] = "slot" /\ st' = [st EXCEPT ![j] = "Queued"]
      /\ UNCHANGED <<remit, dropList, outcome, lost>>
  BY DEF CountAdmit, Admit, conn, reader, fates
<1>2. st \in [Ids -> Live \cup {"Responded", "absent"}]
  BY DEF SettledInv, AccountInv, TypeInv, TypeOK, TypeEntries
<1>3. ~Unfinished(j)
  BY <1>1, OwedOnce
<1>4. \A i \in Ids : Unfinished(i)' <=> Unfinished(i) \/ i = j
  BY <1>1, <1>2 DEF Unfinished, Live
<1> QED
  BY <1>1, <1>3, <1>4 DEF Under, Down, Torn

\* A response concludes its id, delivered or not.
LEMMA RespMoves ==
    ASSUME SettledInv, NEW j \in Ids, CountResp(j)
    PROVE  j \in Under /\ Under' = Under \ {j} /\ Down' = Down
<1>1. /\ j \in remit /\ remit' = remit \ {j} /\ UNCHANGED <<st, dropList>>
      /\ Publish({j}, "resp") \/ \E why \in {"overflow", "refused"} : GiveUp({j}, why)
  BY DEF CountResp, EmitResp, conn, entries
<1>2. j \in Under /\ st[j] \notin Live /\ j \notin dropList /\ outcome[j] = "none" /\ lost[j] = "no"
  BY <1>1, OwedOnce DEF Under, Unfinished
<1>3. \A i \in Ids : Unfinished(i)' <=> Unfinished(i) /\ i # j
  BY <1>1, <1>2 DEF Unfinished
<1>4. \A i \in Ids : Torn(i)' <=> Torn(i)
  BY <1>1, <1>2 DEF Torn, Publish, GiveUp
<1> QED
  BY <1>2, <1>3, <1>4 DEF Under, Down

\* So does a timeout, unless its event is refused: then the entry stays.
LEMMA TimeoutMoves ==
    ASSUME SettledInv, NEW k \in tkeys, CountTimeout(k)
    PROVE  /\ k.id \in Under /\ Down' = Down
           /\ \/ /\ Emit(TRUE) /\ Publish({k.id}, "timeout")
                 /\ timeouts' = timeouts + 1 /\ dropped' = dropped /\ Under' = Under \ {k.id}
              \/ /\ Emit(FALSE) /\ UNCHANGED <<outcome, delivered, lost>>
                 /\ timeouts' = timeouts /\ dropped' = dropped \cup {k.id} /\ Under' = Under
<1>0. /\ tkeys \in SUBSET Key /\ st \in [Ids -> Live \cup {"Responded", "absent"}]
  BY DEF SettledInv, AccountInv, TypeInv, TypeOK, TypeTimer, TypeEntries
<1>1. k.id \in Ids /\ st[k.id] = "Awaiting" /\ UNCHANGED <<remit, dropList>>
  BY <1>0 DEF CountTimeout, TimeoutExhausted, StillExpired, Key, Finish, conn, reader
<1>2. /\ k.id \in Under /\ k.id \notin remit /\ k.id \notin dropList
      /\ outcome[k.id] = "none" /\ lost[k.id] = "no"
  BY <1>1, OwedOnce DEF Under, Unfinished, Live
<1>3. CASE Emit(TRUE) /\ Publish({k.id}, "timeout") /\ st' = [st EXCEPT ![k.id] = "absent"]
  <2>1. timeouts' = timeouts + 1 /\ dropped' = dropped
    BY <1>0, <1>1, <1>3 DEF CountTimeout
  <2>2. \A i \in Ids : Unfinished(i)' <=> Unfinished(i) /\ i # k.id
    BY <1>0, <1>1, <1>2, <1>3 DEF Unfinished, Live
  <2>3. \A i \in Ids : Torn(i)' <=> Torn(i)
    BY <1>2, <1>3 DEF Torn, Publish
  <2> QED
    BY <1>2, <1>3, <2>1, <2>2, <2>3 DEF Under, Down
<1>4. CASE Emit(FALSE) /\ UNCHANGED <<st, outcome, delivered, lost>>
  <2>1. timeouts' = timeouts /\ dropped' = dropped \cup {k.id}
    BY <1>1, <1>4 DEF CountTimeout, Drop
  <2> QED
    BY <1>1, <1>2, <1>4, <2>1 DEF Under, Down, Unfinished, Torn
<1> QED
  BY <1>3, <1>4 DEF CountTimeout, TimeoutExhausted, fates

\* A chunk that teardown reports, or gives up, moves from one set to the other.
LEMMA CleanupMoves ==
    ASSUME SettledInv, CountCleanup
    PROVE  \E chunk : /\ chunk \subseteq Under /\ chunk \cap Down = {}
                      /\ Under' = Under \ chunk /\ Down' = Down \cup chunk
                      /\ Publish(chunk, "dropped") \/ GiveUp(chunk, "budget")
<1>1. PICK chunk \in SUBSET dropList :
        /\ dropList' = dropList \ chunk
        /\ Publish(chunk, "dropped") \/ GiveUp(chunk, "budget")
  BY DEF CountCleanup, CleanupSend
<1>2. UNCHANGED <<st, remit>> /\ dropList \in SUBSET Ids
  BY DEF CountCleanup, CleanupSend, entries, reader, SettledInv, AccountInv, TypeInv, TypeOK, TypeConn
<1>3. \A i \in chunk : /\ i \in Under /\ st[i] \notin Live /\ i \notin remit
                       /\ outcome[i] = "none" /\ lost[i] = "no"
  BY <1>1, <1>2, OwedOnce DEF Under, Unfinished
<1>4. \A i \in Ids : Unfinished(i)' <=> Unfinished(i) /\ i \notin chunk
  BY <1>1, <1>2, <1>3 DEF Unfinished
<1>5. \A i \in Ids : Torn(i)' <=> Torn(i) \/ i \in chunk
  BY <1>1, <1>3 DEF Torn, Publish, GiveUp
<1>6. chunk \cap Down = {} /\ chunk \subseteq Under
  BY <1>3 DEF Down, Torn
<1>7. Under' = Under \ chunk /\ Down' = Down \cup chunk
  BY <1>1, <1>2, <1>4, <1>5 DEF Under, Down
<1> QED
  BY <1>1, <1>6, <1>7

\* Every step keeps the counters in balance.
LEMMA BalanceStep ==
    ASSUME MetricsInv, NextMetrics
    PROVE  admitted' \in Nat /\ responses' \in Nat /\ timeouts' \in Nat /\ Balance'
<1>0. /\ SettledInv /\ Balance /\ admitted \in Nat /\ responses \in Nat /\ timeouts \in Nat
      /\ IsFiniteSet(Under) /\ IsFiniteSet(Down)
      /\ Cardinality(Under) \in Nat /\ Cardinality(Down) \in Nat
  BY CountedSets DEF MetricsInv
<1> USE DEF Balance
<1>1. ASSUME NEW j \in Ids, CountAdmit(j) PROVE admitted' \in Nat /\ responses' \in Nat /\ timeouts' \in Nat /\ Balance'
  <2>1. Cardinality(Under') = Cardinality(Under) + 1 /\ Down' = Down
    BY <1>0, <1>1, AdmitMoves, FS_AddElement
  <2>2. admitted' = admitted + 1 /\ UNCHANGED <<responses, timeouts>>
    BY <1>1 DEF CountAdmit
  <2> QED
    BY <1>0, <2>1, <2>2
<1>2. ASSUME NEW j \in Ids, CountResp(j) PROVE admitted' \in Nat /\ responses' \in Nat /\ timeouts' \in Nat /\ Balance'
  <2>1. j \in Under /\ Under' = Under \ {j} /\ Down' = Down
    BY <1>0, <1>2, RespMoves
  <2>2. Cardinality(Under') = Cardinality(Under) - 1
    BY <1>0, <2>1, FS_RemoveElement
  <2>3. responses' = responses + 1 /\ UNCHANGED <<admitted, timeouts>>
    BY <1>2 DEF CountResp
  <2> QED
    BY <1>0, <2>1, <2>2, <2>3
<1>3. ASSUME NEW k \in tkeys, CountTimeout(k) PROVE admitted' \in Nat /\ responses' \in Nat /\ timeouts' \in Nat /\ Balance'
  <2>1. /\ k.id \in Under /\ Down' = Down
        /\ \/ timeouts' = timeouts + 1 /\ Under' = Under \ {k.id}
           \/ timeouts' = timeouts /\ Under' = Under
    BY <1>0, <1>3, TimeoutMoves
  <2>2. UNCHANGED <<admitted, responses>>
    BY <1>3 DEF CountTimeout
  <2>3. Cardinality(Under \ {k.id}) = Cardinality(Under) - 1
    BY <1>0, <2>1, FS_RemoveElement
  <2> QED
    BY <1>0, <2>1, <2>2, <2>3
<1>4. ASSUME CountCleanup PROVE admitted' \in Nat /\ responses' \in Nat /\ timeouts' \in Nat /\ Balance'
  <2>1. PICK chunk : /\ chunk \subseteq Under /\ chunk \cap Down = {}
                     /\ Under' = Under \ chunk /\ Down' = Down \cup chunk
    BY <1>0, <1>4, CleanupMoves
  <2>2. IsFiniteSet(chunk) /\ Down \cap chunk = {} /\ Under \cap chunk = chunk
    BY <1>0, <2>1, FS_Subset
  <2>3. Cardinality(chunk) \in Nat /\ Cardinality(Down \cap chunk) = 0
    BY <2>2, FS_CardinalityType, FS_EmptySet
  <2>4. Cardinality(Under') = Cardinality(Under) - Cardinality(chunk)
    BY <1>0, <2>1, <2>2, FS_Difference
  <2>5. Cardinality(Down') = Cardinality(Down) + Cardinality(chunk)
    <3>1. Cardinality(Down \cup chunk) = Cardinality(Down) + Cardinality(chunk) - Cardinality(Down \cap chunk)
      BY <1>0, <2>2, FS_Union
    <3> QED
      BY <1>0, <2>1, <2>3, <3>1
  <2>6. UNCHANGED <<admitted, responses, timeouts>>
    BY <1>4 DEF CountCleanup
  <2> QED
    BY <1>0, <2>3, <2>4, <2>5, <2>6
<1>5. ASSUME Uncounted, UNCHANGED counters
      PROVE  admitted' \in Nat /\ responses' \in Nat /\ timeouts' \in Nat /\ Balance'
  BY <1>0, <1>5, UncountedKeeps DEF counters
<1> QED
  BY <1>1, <1>2, <1>3, <1>4, <1>5 DEF MetricsInv, NextMetrics

\* Every step counts the terminals it gives up, and no other that will arrive.
LEMMA DropsStep ==
    ASSUME MetricsInv, NextMetrics PROVE DropsCounted'
<1>0. /\ SettledInv /\ DropsCounted /\ TypeFates
  BY DEF MetricsInv, SettledInv, AccountInv, TypeInv, TypeOK
<1>1. adm \notin Accepts => adm' \notin Accepts
  BY AdmissionLost, CountedIsNext
<1>2. \A i \in Under : lost[i] = "no" /\ delivered[i] = 0 /\ outcome[i] = "none"
  BY <1>0, OwedOnce DEF Under
\* The three ways in which a step settles the fates of owed ids.
<1>3. ASSUME NEW S, S \subseteq Under, NEW why \in {"overflow", "refused", "budget"}, GiveUp(S, why), Drop(NewlyLost)
      PROVE  DropsCounted'
  BY <1>0, <1>1, <1>2, <1>3 DEF DropsCounted, GiveUp, Drop, NewlyLost, Under, TypeFates
<1>4. ASSUME NEW S, S \subseteq Under, NEW kind, Publish(S, kind), dropped' = dropped, kind = "dropped" \/ adm \in Accepts
      PROVE  DropsCounted'
  BY <1>0, <1>1, <1>2, <1>4 DEF DropsCounted, Publish, Under, TypeFates
<1>5. ASSUME UNCHANGED <<outcome, delivered, lost, dropped>> PROVE DropsCounted'
  BY <1>0, <1>1, <1>5 DEF DropsCounted
<1>6. ASSUME NEW S, NEW kind, Publish(S, kind), Drop(NewlyLost) PROVE dropped' = dropped
  BY <1>6 DEF Publish, Drop, NewlyLost
<1>7. ASSUME NEW j \in Ids, CountResp(j) PROVE DropsCounted'
  <2>1. {j} \subseteq Under /\ Drop(NewlyLost)
    BY <1>0, <1>7, RespMoves DEF CountResp
  <2>2. \/ adm \in Accepts /\ Publish({j}, "resp")
        \/ \E why \in {"overflow", "refused"} : GiveUp({j}, why)
    BY <1>7 DEF CountResp, EmitResp, Emit
  <2> QED
    BY <1>3, <1>4, <1>6, <2>1, <2>2
<1>8. ASSUME NEW k \in tkeys, CountTimeout(k) PROVE DropsCounted'
  <2>1. {k.id} \subseteq Under
    BY <1>0, <1>8, TimeoutMoves
  <2>2. CASE Emit(TRUE) /\ Publish({k.id}, "timeout") /\ dropped' = dropped
    <3>1. adm \in Accepts
      BY <2>2 DEF Emit
    <3> QED
      BY <1>4, <2>1, <2>2, <3>1
  <2>3. CASE Emit(FALSE) /\ UNCHANGED <<outcome, delivered, lost>> /\ dropped' = dropped \cup {k.id}
    <3>1. adm' \notin Accepts
      BY <2>3 DEF Emit, Accepts, events
    <3> QED
      BY <1>0, <1>2, <2>1, <2>3, <3>1 DEF DropsCounted
  <2> QED
    BY <1>0, <1>8, <2>2, <2>3, TimeoutMoves
<1>9. ASSUME CountCleanup PROVE DropsCounted'
  <2>1. PICK chunk : chunk \subseteq Under /\ (Publish(chunk, "dropped") \/ GiveUp(chunk, "budget"))
    BY <1>0, <1>9, CleanupMoves
  <2>2. Drop(NewlyLost)
    BY <1>9 DEF CountCleanup
  <2> QED
    BY <1>3, <1>4, <1>6, <2>1, <2>2
<1>10. ASSUME NEW j \in Ids, CountAdmit(j) PROVE DropsCounted'
  BY <1>5, <1>10 DEF CountAdmit, Admit, fates
<1>11. ASSUME Uncounted, UNCHANGED counters PROVE DropsCounted'
  BY <1>5, <1>11, UncountedSteps DEF counters
<1> QED
  BY <1>7, <1>8, <1>9, <1>10, <1>11 DEF NextMetrics

\* It is an invariant of the counted pipeline.
LEMMA MetricsInvariant == SpecMetrics => []MetricsInv
<1>1. InitMetrics => MetricsInv
  <2> SUFFICES ASSUME InitMetrics PROVE MetricsInv
    OBVIOUS
  <2>1. Init /\ admitted = 0 /\ responses = 0 /\ timeouts = 0 /\ dropped = {}
    BY DEF InitMetrics
  <2>2. SettledInv
    BY <2>1, AccountInit DEF SettledInv, FateInv, DrainedForGood, Init
  <2>3. Under = {} /\ Down = {}
    BY <2>1 DEF Init, Under, Down, Unfinished, Torn, Live
  <2>4. Balance
    BY <2>1, <2>3, FS_EmptySet DEF Balance
  <2>5. DropsCounted
    BY <2>1 DEF Init, DropsCounted
  <2> QED
    BY <2>1, <2>2, <2>4, <2>5 DEF MetricsInv
<1>2. MetricsInv /\ [NextMetrics]_<<vars, counters>> => MetricsInv'
  <2> SUFFICES ASSUME MetricsInv, [NextMetrics]_<<vars, counters>> PROVE MetricsInv'
    OBVIOUS
  <2>1. SettledInv'
    BY CountedIsNext, AccountStep, FateStep, DrainedStep DEF SettledInv, MetricsInv
  <2>2. CASE NextMetrics
    BY <2>1, <2>2, BalanceStep, DropsStep DEF MetricsInv
  <2>3. CASE UNCHANGED <<vars, counters>>
    <3>1. UNCHANGED <<st, remit, dropList, outcome, delivered, lost, adm, admitted, responses, timeouts, dropped>>
      BY <2>3 DEF vars, conn, entries, reader, fates, events, counters
    <3>2. Balance' /\ DropsCounted'
      BY <3>1 DEF MetricsInv, Balance, DropsCounted, Under, Down, Unfinished, Torn
    <3> QED
      BY <2>1, <3>1, <3>2 DEF MetricsInv
  <2> QED
    BY <2>2, <2>3
<1> QED
  BY <1>1, <1>2, PTL DEF SpecMetrics

\* CountersTrue: what metrics() reports of SUBMITs adds up after every step, and
\* events_dropped misses no terminal the consumer never gets
\* (ConnectionMetrics, connection.rs).
THEOREM CountersAreTrue == SpecMetrics => []CountersTrue
<1>1. MetricsInv => CountersTrue
  BY BalanceIs DEF MetricsInv, CountersTrue
<1> QED
  BY <1>1, MetricsInvariant, PTL
=============================================================================
