# A TLA+ development of cmppprotocol

cmppprotocol is an asynchronous Rust client for CMPP, the protocol Chinese SMS gateways speak. One
`CmppConnection` owns a TCP stream and a handful of tokio tasks. Its documentation makes strong
promises about SUBMIT: an id that `submit()` returned ends in exactly one of `SubmitResp`,
`SubmitTimeout` and `SubmitDropped`, whatever the peer, the network, the consumer of the events and
the callers of `close()` do. Nearly all of the program's difficulty is in `src/src/connection.rs`, in
how those tasks share one map, two queues and one event stream. That is what this project models.

All line numbers below are lines of `src/src/connection.rs` unless another file is named.

## 1. Inventory

### Components

| Component | State | Operations | Where it is hard |
|---|---|---|---|
| SUBMIT pipeline | `pending_submits` (id → attempt, state), `window_semaphore`, the submit queue, the batch in the writer's hand | `submit`/`send_submit` (1905), `claim_submit_attempts` (1019), `complete_submit_attempts` (1089), `flush_submit_resps` (3014), the scan of `timeout_task` (3251), `fail_all_pending` (943) | six tasks work on one entry; a response can arrive before, during and after a write, a retransmission and the teardown |
| Sequence registry | `next_automatic`, `automatic_used_through`, `reserved`, the range table `retired` | `reserve_next` (428), `reserve_batch` (465), `release` (505), `retire` (513), `Drop` of a lease (606) | ids of a fixed width, manual batches that wrap, ranges that merge, a table with a limit |
| Event delivery | event admission state, spool, `EventDepth`, tickets, dispatcher, public channel | `emit_event` (1232), `reserve_deferred_event` (1186), `event_dispatcher_task` (2343), `close_event_spool` (1361), overload and backpressure close (1316, 1337) | a consumer that is slow, silent or gone; order, counting and the end of the stream under teardown |
| UDH reference pool | per bucket an `active` and a `cooling` bitmap and a heap of deadlines; process wide | `try_acquire` (290), `release` (329), `mark_exposed` (352) | several locks held together, clocks read before locks, release bucket by bucket |
| Closing a connection | `ConnectionPhase`, `drain_submits_on_close`, `close_complete_tx`, the list of background tasks | `close` (1992), `graceful_close_task` (2073), `reap_background_tasks` (2149), `finish` (1418), the TERMINATE handshake | four ways to begin a close, a driver that may be on a dead runtime |
| Heartbeat | `heartbeat_pending`, the control queue | `heartbeat_task` (3072), `claim_heartbeat_attempt` (1121), `complete_heartbeat_attempt` (1147), first half of the `timeout_task` loop (3161) | a response races the retransmission of the same frame, or the decision to give up |
| Writer scheduling | control queue, submit queue, `control_burst` | select and batching in `writer_task` (2539-2740) | priorities without starvation, the budget of a DELIVER_RESP |
| `submit()` call | permits, leases and a slot in the hands of a future | `submit` (1809), `send_submit` (1905) | segments that fail half way, a future dropped at an await |
| Content plan | none | `encoding.rs`, `submit.rs` | segment limits, surrogate pairs |
| Frame codec and PDUs | the decode buffer | `codec.rs`, `pdu.rs` | partial frames, length limits, counts inside a body |
| Connect handshake | the read buffer it hands over | `connect_with_udh_reference_cooldown` (1529) | bytes that arrive with CONNECT_RESP |
| Metrics | seven counters | `metrics` (864) and where they are counted | counters moved by several tasks, one derived from the window |
| Configuration, errors | none | `config.rs`, `error.rs` | little |

### Interactions

* A caller of `submit()` takes a window permit, then a sequence id from the registry, then a slot of
  the submit queue, and only then, under the `pending_submits` lock and the `submit_admission` lock,
  inserts the entry and sends the frame. For a long message it holds a UDH lease for the whole time.
* The writer takes frames from both queues, claims the SUBMITs under the pending lock (`Queued` to
  `Writing`), writes the batch, and completes it (`Writing` to `AwaitingResponse`).
* The reader matches responses in one lock and emits their events outside it. A match during the write
  leaves the entry behind as `RespondedWhileWriting`; the writer removes it.
* The timeout task takes a snapshot of expired attempts and looks at each again under the lock.
* `finish()` moves the phase to `Closed` once and spawns a detached task that drains the pending map,
  offers one `SubmitDropped` for each id, closes the spool with a `Terminal` item, and completes.
* Every event goes through the spool. When it is full, or the consumer stalls the dispatcher for longer
  than the backpressure budget, the connection is closed.

### Correctness, component by component

* **SUBMIT pipeline**: exactly one terminal for each accepted id, or it is counted; no attempt is
  written twice; `SubmitTimeout` tells the truth about its attempts; an answer stops the
  retransmission; window permits neither leak nor multiply; nothing outlives teardown; a drained
  close really drained; a closed connection is cleaned up.
* **Sequence registry**: one live lease per id; an id that was on the wire is never issued again; the
  range table stays compact and its shortcuts are exact.
* **Event delivery**: order kept; losses counted once; `Disconnected` last and never crowded out; a
  DELIVER is shown only after its response was written; the backlog is bounded; the dispatcher ends.
* **UDH pool**: a reference is exclusive in every bucket of its domain; cooldowns are respected;
  nothing leaks; callers never deadlock.
* **Heartbeat**: one outstanding at a time; a connection is given up only for a heartbeat that was
  really written `retry_count` times and not answered; an answered one is not sent again; a silent
  peer is noticed.
* **Closing**: `close()` returns, whichever runtime is gone; it reports only what was cleaned up; crossing
  TERMINATEs are answered; a regular close is not reported as a disconnection; the event stream ends.
* **Writer scheduling**: neither queue starves; no DELIVER_RESP is written after its budget.
* **`submit()`**: the caller is told exactly what was queued, and everything else goes back.
* **Content plan**: the segments fit, are as few as possible and reassemble to the text.
* **Frames and PDUs**: no byte is lost however the stream is cut; frames are handled once, in order; what is
  encoded decodes to the same; a body of the wrong length is refused.
* **Metrics**: the counters balance, and no lost terminal is missed.

`PROJECT.json` lists the hazards behind these, each at the line where it bites, with the properties
that watch it.

## 2. Modules

| Module | Models |
|---|---|
| `SubmitOutcome` | abstract: what `submit()` promises for an id, from acceptance to one final outcome |
| `SubmitPipeline` | the life of a SUBMIT in all six tasks; implements `SubmitOutcome` |
| `SequenceRegistry` | `SequenceRegistry` and `SequenceLease` |
| `EventDelivery` | spool, dispatcher, admission and event teardown |
| `UdhReferencePool` | `UdhReferencePool` and `UdhReferenceLease` |
| `Heartbeat` | `heartbeat_pending` and the four tasks that work on it |
| `ConnectionClose` | `close()`, driver, reaper, takeover, TERMINATE handshakes, lost runtimes |
| `WriterScheduling` | `writer_task` as a scheduler of two queues |
| `SubmitCall` | `submit()` and `send_submit` with all they hold |
| `ContentPlan` | `prepare_submit_content`, the segments and their decoding |
| `FrameStream` | `CmppFrameCodec`, the login and the read loop |
| `PduFormat`, `PduCodec` | the fields of every PDU; encoding and decoding of its body |
| `SubmitMetrics` | `ConnectionMetrics`, composed with `SubmitPipeline` |
| `MC*` | instances for TLC; `MCSequenceRegistry` also has the loop of `reserve_next` as a recursive operator, `MCCodecs` the three modules of the data path side by side |
| `SubmitPipelineProofs`, `SequenceRegistryProofs`, `EventDeliveryProofs`, `UdhReferencePoolProofs`, `ConnectionCloseProofs`, `SubmitCallProofs` | theorems about a module and their proofs; the first is also about `SubmitMetrics` |
| `WriterProofs` | theorems about the writer's two schedules, `Heartbeat` and `WriterScheduling` |
| `CodecProofs` | theorems about the data path, `FrameStream`, `ContentPlan` and `PduCodec`, and lemmas about folds |

The modules meet at narrow interfaces. `SubmitPipeline` sees event delivery only through the outcome
of `emit_event`: accepted, accepted or rejected with an overflow, or refused; `EventDelivery` sees the
pipeline as a source of events and of a set of ids owed a `SubmitDropped`. `SubmitPipeline` gives each
id one life; that this is so is what `SequenceRegistry` shows. `SubmitCall` treats the registry, the UDH
pool and the fate of an entry as choices, each of which is the subject of a module of its own.
`SubmitMetrics` EXTENDS `SubmitPipeline` and conjoins the counting to its actions.

Definitions named as mutants (each has a comment "Mutant of ...") are deliberately wrong variants of
one definition; no specification uses them. They serve to show that every property can fail: with the
mutant in place of the original, TLC finds the property violated.

### SubmitPipeline

`st[i]` is the state of the entry of `i` in `pending_submits` (`Responded` is
`RespondedWhileWriting`), `att[i]` its attempt. One action is one critical section or one step between
two awaits:

| Code | Actions |
|---|---|
| `send_submit` | `AcquirePermit`, `ReserveSlot`, `Admit`, `Refuse`, `Abandon` (an error, or the caller drops the future) |
| `writer_task` | `WriterPick` (one frame into the batch), `WriterClaim`, `WriterComplete`, `WriterStop` |
| `reader_task`, `flush_submit_resps` | `Decode`, `Match` (under the lock), `EmitResp` (after it, one event), `PeerTerminate`, `PeerTerminateAnswered`, `DeliverOverflow`, `ReaderStop` |
| `timeout_task` | `TimerTick`, `TimerScan`, `TimeoutExhausted`, `TimeoutRetry`, `TimeoutSkip`, `TimeoutStop`, `TimerRest` |
| overload, backpressure close | `Backpressure`, `BackpressureClose`, `OverloadStart`, `OverloadSeal`, `OverloadFinish` |
| `close`, `graceful_close_task` | `CloseCall`, `CloseSendMarker`, `CloseDrained`, `CloseSeal`, `CloseFinish`, `CloseReap` |
| `finish` and its cleanup | `Finish` (part of many actions), `OtherFinish`, `CleanupClear`, `CleanupFail`, `CleanupSend`, `CleanupClose` |

Abstractions. Time is a choice: an attempt in `AwaitingResponse` may expire whenever a scan looks. The
`submission_id` of keys is left out because an id has one life. One segment is one SUBMIT. Control
frames that share a batch are visible only in that an empty claim may still be written
(`WriterClaim`). `outcome`, `delivered`, `lost`, `claims`, `wrote` and `resps` are history.

### SequenceRegistry

Ids are `0 .. N-1`, so both kinds of arithmetic are visible: `reserve_batch` wraps, `reserve_next` and
the merging of ranges stop at the largest id. `retired` is the `BTreeMap` as a function from starts to
ends; `used = AutoStart - 1` stands for `None`. `reserve_next` is one step that says where its loop
ends; `ReserveNextIsLoop` compares it with the loop in every reachable state. `Expose` is the moment a
frame with the id is queued, at which a manual id is retired; `Conclude` and `ConcludeTimedOut` are the
removal of the entry. `open` turns FALSE where a caller must finish the connection; nothing is exposed
afterwards, as admission looks at the phase.

### EventDelivery

Every event is emitted at most once: `Directs` (SubmitResp, SubmitTimeout), `Delivers` (published when
their response is written) and `Owed` (what `fail_all_pending` owes). `Admit` is the decision both
`emit_event` and `reserve_deferred_event` make under the admission lock, with the rule that the event
that finds no capacity still gets one try. `Depth` is the weight `EventDepthPermit`s hold: the events
in the spool, in the dispatcher's hand and in a batch under a retry, and the `Terminal` item. The dispatcher's wait for a ticket, its two-slot
rule for ordinary events (so that `Disconnected` always has one), and its switch to discarding are
`AwaitTicket`, `Forward` and `Discard`. The order of a `SubmitDropped` batch is any order, as it comes
from a `HashMap`. The reader may still reserve after the phase is `Closed`. The fallback's own
`fail_all_pending` is left out of `ReapFallback`: it runs only after the first one drained the map.
`silent` is history: events lost without being counted.

### UdhReferencePool

`Start` reads the clock and fixes the sorted buckets; `Lock` takes the next one; `Pick` is everything
between the last lock and the unlocks, with the purge; `BeginRelease` reads the clock and the exposure;
`ReleaseBucket` is one bucket. The hash of an address to a bucket is any set of buckets; the heap is a
set, as only its expired part is ever taken. The branch for a deadline that overflows `Instant` is left
out: validation bounds the cooldown by 24 hours.

### Heartbeat

`pend[b]` and `att[b]` are the entry of the `b`-th heartbeat in `heartbeat_pending`. Each heartbeat has a
sequence id of its own, which is why `heartbeat_id` is redundant. `HeartbeatTick` looks at the map and
takes an id, `HeartbeatQueue` has the slot of the control queue and looks again under both locks (no other
task inserts, so only the phase can have changed),
`HeartbeatStop` is every other way out. The writer's `WriterPick` is `claim_heartbeat_attempt`;
`WriterCheck` is the second look at the phase a few lines later (2658), which can drop a claimed frame;
`WriterComplete` is `complete_heartbeat_attempt` after `write_all`. `Answer` is the peer and the reader's
removal together: an answer may be read before the writer's task resumes from the write.
`TimeoutScan`, `TimeoutExhausted`, `TimeoutRetry`, `TimeoutFinish` and `TimeoutStop` are the heartbeat half
of one turn of `timeout_task`. `QueueOther` stands for the reader's responses to the peer, which share the
control queue and can fill it. `claims`, `wrote` and `answered` are history.

### ConnectionClose

`cpc` is where each caller of `close()` is; `tpc` and `home` are the step and the runtime of the tasks: the
driver of the first call, the cleanup `finish()` spawns, and one takeover task per caller. `FinishAs` is
`finish()`: only the first call has an effect, and its cleanup is spawned on the runtime of whoever called.
`LoseRuntime` drops every task of a runtime at its await, with the guard of a takeover, and every caller on
it. `Close`, `CallerWait` and `CallerTakeover` are `close()`; `Driver*` is `graceful_close_task`; `Reap*`,
`FailDrain`, `FailPublish`, `Cleaned` and `FallbackTimeout` are `reap_background_tasks` and the cleanup,
which share `fail_all_pending`. Writer and reader keep the two frames of the handshake. Timers are choices,
except that a task that is ready runs before a timer of seconds ends (`ReapCleanup`). `Outside` switches the
environment of an instance on: an answer of the peer, I/O errors, an early end of the stream, an exhausted
registry, an overload, the drop of the last handle. `causes`, `wire`, `silent` and `gaveUp` are history.

### WriterScheduling

Frames carry their kind and the rest of their budget. `ServeSubmit` is the choice the biased select makes;
it is the same for the first frame of a batch and for the ones taken with `try_recv`. `TakeControl` has the
three fates of a control frame; `WriterSend` is the end of the harvest with the claim of SUBMITs, any of which
may have become unwanted; `WriterDone`, `WriterTimeout` and `WriterError` end the write. `Tick` passes time
only while the writer waits, and not past a timer that is due. `passed`, `last` and `late` are history.

### SubmitCall

One call goes through `Start`, `AwaitBatch`, `AcquireReference`, `ReserveIds`, then per segment `AwaitWindow`,
`TakeId`, `AwaitSlot` and `Admit`, and drops its locals, the youngest first, in `DropLeases`, `Unreference`
and `Unbatch`. `Cancel` drops the future at each of its three awaits. An id is the pair of call and segment.
`receiver` is whether the writer's task still holds the receiving end of the queue. `WriterGone` is the loss of the
connection's runtime while calls of other runtimes go on: the tasks are dropped, nobody changes the phase
(`WorkerGuard` only counts), and the frames in the queue are lost. `reserve_owned` then fails although the phase is
Open (1949-1951), and the call ends with `PartialSubmit` without finishing the connection. A loss after the phase has
changed makes no difference to a call and is left out. A call on the lost runtime is dropped at its await, which is
`Cancel`. `Conclude` stays possible after a loss (a task may finish its last step, and teardown follows a `close()`)
but is no longer certain.

### ContentPlan, FrameStream, PduFormat, PduCodec

These are mostly operators. `ContentPlan` keeps of a character its size in UTF-8 and its UTF-16 units, and has
both loops of `prepare_submit_content`, the one that counts and the one that cuts, as separate folds.
`FrameStream` makes a byte its position in the stream; the peer's frames, the place where its bytes end and
how reads cut them are choices. `PduCodec` works on real bytes: `Layout` (in `PduFormat`) lists each PDU's fields in
order, and `EncodeBody` and `DecodeBody` interpret it, with octet strings cut at their width and stripped on reading.
The code points are ASCII and `Wide`, which has two bytes in UTF-8, so a string can be cut within a character; characters of three and four bytes are left out.

### SubmitMetrics

`CountAdmit`, `CountResp`, `CountTimeout` and `CountCleanup` are actions of `SubmitPipeline` together with
what they count; `Uncounted` is all the others. `dropped` is the set of ids an event counted in
`events_dropped` was about: which id was counted matters to the properties, how often does not.

## 3. Runs

| Run | States | Instance | Checks |
|---|---|---|---|
| `SubmitOne` | 450k | 1 id, 2 attempts, 1 response, queue 1; with the counters of `SubmitMetrics` | `AttemptsExact`, `CountersTrue`, `NoResendAfterAnswer`, `ImplementsOutcome` (with liveness), `CloseCompletes` |
| `SubmitTwo` | 2.4M | 2 ids, window 2, write batch 2, teardown batch 1, 1 attempt | `TerminalAccounted`, `WindowConserved`, `DrainedForGood`, `MarkerMeansWritten` |
| `SubmitLoss` | violation | 1 id | `LossOnlyAsDocumented`: the finding of section 4 |
| `SequenceRegistry` | 239k | 6 ids, batches up to 3, 2 ranges | `IdsGuarded`, `TableExact`, `NeverReissued`, `ReserveNextIsLoop` |
| `Events` | 1.5M | 2 direct, 1 DELIVER, 1 owed, spool 1, channel 2 | `InOrder`, `OverloadBounded`, `DisconnectedLast`, `DeliverSafe`, `DispatcherExits` |
| `Udh` | 162k | 2 callers, 2 buckets, 2 references, cooldown 1 | `PoolExact`, `CooldownRespected`, `CallersProceed` |
| `Heartbeat` | 169k | 3 heartbeats, 3 attempts, queue 2, 2 other frames | `OneOutstanding`, `AnswerHonoured`, `SilenceDetected` |
| `CloseHandshake` | 413k | 1 caller, 1 runtime, 1 TERMINATE of the peer, an answer, an early end, an overload | `NormalEnd`, `HandshakeSafe`, `HandshakeEnds` |
| `CloseReturn` | 299k | 2 callers on 2 runtimes, the connection's mortal, 1 pending id; handles dropped, no sequence id, I/O errors | `TakeoverSound`, `CloseReturns` |
| `Writer` | 2.8M | burst 2, batch of 3 frames or 4 bytes, budget 2, queues of 1 and 2 | `BatchFair`, `BudgetHonest`, `NoStarvation` |
| `Call` | 664k | 3 calls of 2, 1 and 3 segments, the first two manual; window 2, queue, batches and references 1; the writer may be lost | `CallerTold`, `ResourcesExact`, `ReferenceGuarded`, `CallsReturn` |
| `Codecs` | 232k | streams of up to 5 frames with every cut; all messages of 7 characters, of 20 if ASCII; every PDU, one field at a time around its limits | `StreamKept`, `ReaderEnds`, `PlanExact`, `PduExact` |

`MCCodecs` extends the three modules of the data path: a behaviour moves one of them and leaves the variables of the
other two as they are.

### What the properties say

Several are conjunctions of named parts, each with a comment of its own in the module:

* `AttemptsExact`: no attempt is claimed or written twice (`ClaimedOnce`), and `SubmitTimeout` comes after
  `retry_count` complete writes (`TimeoutAfterAllWrites`).
* `CountersTrue`: admitted SUBMITs are the sum of those answered, timed out, dropped and unfinished
  (`CountersBalance`), and every lost terminal is counted (`DropsCounted`).
* `IdsGuarded`: an id has one lease (`SoleHolder`), what is leased stays reserved or remembered (`LeaseProtected`), and so
  does what was on the wire (`ExposedRemembered`).
* `TableExact`: no two ranges overlap or touch, and the nearest range to the left decides membership.
* `InOrder`: spool, dispatcher and public channel, read from one end to the other, hold the accepted events in the
  order of their acceptance (`NothingOvertakes`), and an event that is in none of them was counted as dropped
  or entered behind `Terminal` (`NothingVanishes`).
* `OverloadBounded`: the backlog never exceeds the capacity by more than the one event that overflowed it
  (`BacklogBounded`), and each event given up is counted once (`DroppedOnce`).
* `DeliverSafe`: a DELIVER is shown only after its response was written, and nothing enters an admission sealed
  as idle.
* `PoolExact`: a reference has one holder in every bucket, `active` is exactly what is held, and what cools has a
  deadline.
* `AnswerHonoured`: the connection is given up only for a heartbeat whose last attempt was written and whose answer was
  not processed (`ExhaustedUnanswered`), and an answered heartbeat is not sent again (`NoResendAfterAnswer`).
* `HandshakeSafe`: the peer's TERMINATE is answered before the connection closes (`PeerAnswered`), the local one
  leaves no entry behind (`TerminateReleased`) and is not sent after that answer
  (`NoTerminateAfterAnswer`). `HandshakeEnds`: the peer's TERMINATE ends the connection
  (`TerminateEnds`), and then reader and writer end (`WorkersEnd`).
* `TakeoverSound`: one takeover at a time, and `close_complete` only of a connection that was cleaned up.
* `BatchFair`: a SUBMIT is passed by at most `CONTROL_BURST_LIMIT` control frames, across batches, and batches keep
  their limits. `BudgetHonest`: no DELIVER_RESP is on its way to the socket after its budget, and
  reader and writer report `Timeout` only if one ran out (an idle read, 2985, reports it too and is no
  part of this module; an exhausted heartbeat reports `Closed`, 3247). `NoStarvation`: both queues are served.
* `CallerTold`: a result names exactly the segments queued (`ReportExact`), and a partial one means that the connection
  has left Open or has lost its writer (`PartialMeansDown`), so that no further segment can reach the peer.
  `ResourcesExact`: permits and ids are in one place each. `ReferenceGuarded`: a reference stays taken while a
  segment is pending and cools down afterwards if it was on the wire. `CallsReturn`: a call ends; the exception,
  `Stranded`, is one that waits for a permit on a connection that lost its tasks and was not closed yet.
* `StreamKept`: no byte lost (`BytesKept`), frames once and in order (`InOrder`), no response stranded while the
  reader waits (`WaitsStarved`), the end reported for what it is (`EndJustified`). `ReaderEnds`: the reader ends. `PlanExact`: the segments reassemble, fit, are counted right and
  are as few as possible. `PduExact`: a round trip, exact length hints, and no damaged body accepted.

### Why the bounds are enough

* Two attempts are needed for a retransmission to race the answer to the first attempt; a third repeats the
  same transitions. Two ids are needed
  for a batch, a window and a `SubmitDropped` batch with more than one member; ids interact through
  the queue, the batch and the permits only, so the second run has one attempt per id.
* `QueueCap` is 2 (1 in `SubmitOne`), so a full queue blocks callers, the marker and retries. `MaxResp`
  bounds the responses of the peer and is the only bound that is not a constant of the code. One response
  in `SubmitOne` can come after any attempt and after the retransmission was queued.
* Six ids with two below `AutoStart` let a manual batch wrap around the end, span the start of the
  automatic ids, and leave gaps on both sides; with two ranges the table overflows.
* A spool of capacity 1 (3 items with its two extra slots) is full after one event, the second overflows it and
  the third is refused; a channel of 2 has room for one ordinary event and the slot kept for `Disconnected`.
  That the teardown budget runs out between two batches is a case of `SubmitTwo`.
* Two buckets and two references give overlapping domains, equal domains and an exhausted domain;
  `MaxTime` 1 with cooldown 1 lets a reference expire, and be sought by a caller whose clock is older than
  its locks.
* Three attempts give a heartbeat a first, a middle and a last one; three heartbeats let one be answered,
  one be dropped by a close and one be exhausted. A queue of 2 is filled by two other
  frames. `MaxBeats` and `MaxOther` bound the length of a behaviour and are no constants of the
  code.
* Closing: two runtimes are needed for a caller to outlive the tasks of another; the one that may be lost has the
  driver, reader, writer and a caller on it, and each can be lost at every step. One TERMINATE of the peer crosses the local one in all orders; a second is
  answered by the same steps. One id is enough to be lost, as ids are told one by one.
* Writer: a burst of 2 in batches of up to 3 makes a burst span batches; a byte limit of 4 with SUBMITs of 2
  is passed by a last frame; a budget of 2 runs out in the reader's hand, in the queue and in the write.
* Calls: a window of 2 for six segments makes every call wait, and the call of three segments outgrows it; one manual batch, one queue slot and one
  reference make the calls compete for each.
* Content: the limits are scaled from 134 and 140 bytes to 6 and 8, so that seven characters of mixed widths
  need up to three segments and more than three, and each width meets each remainder. ASCII messages of
  `MaxAscii` exceed the limit too.
* Frames: a header of 2 bytes can be cut inside; the lengths 2 and 4 are the limits, 1 and 5 just outside;
  responses land in batches of 2, so five frames fill a batch, start another and interrupt it.
* PDUs: strings shorter than, equal to and longer than their field, with a two-byte character across its end
  and blanks at either end; 0, 1, 255 and 256 destinations or bytes of content; bodies shortened by 1 to 60
  bytes, which passes the counted fields.

Symmetry over ids is used in `SubmitTwo`, which checks invariants only: no action orders them.
`CHECK_DEADLOCK FALSE` everywhere because a connection that is closed and cleaned up, a registry whose
ids are used up, a pool at the last instant, a connection after its last heartbeat, a stream that was read
and a message that was built do stop.

### Fairness

Tokio polls a task that can go on, so each task's own steps are weakly fair. Every wait inside these
tasks has a timer (`response_timeout`, the backpressure and the teardown budgets), or ends when the
phase changes; that is why the writer, the reader's handling of what it decoded, the timeout task, the
overload task, the close driver and the cleanup are fair. Callers between two awaits of `submit()` owe
nothing, except that a caller with a queue slot goes on to its admission, which has no await. The peer
owes nothing; neither does the consumer, who may stop reading or drop the receiver, nor anybody to call
`close()`. For the heartbeats the writer and the timeout task are fair
and the heartbeat task, the peer and the other control frames are not. In the UDH pool strong fairness on a caller's next lock stands for parking_lot, whose
mutexes are eventually fair.

In `ConnectionClose` the tasks of a running runtime are fair and a lost runtime is not (its tasks have no steps);
nobody has to call `close()`, and the peer need not answer. In `WriterScheduling` only the writer is fair:
`write_all` returns, fails, or is ended by the timer around it. In `SubmitCall` the calls and the writer are
fair, and so is the end of each entry while the connection is Open and its tasks run, because a response or the last
timeout concludes it, which `ImplementsOutcome` shows. Once the runtime is lost nothing concludes an entry until
somebody calls `close()`, which nobody has to. In `FrameStream` a read returns bytes, the end of the stream, or its timeout.

## 4. Findings

**A response can cost its id the terminal event** (`SubmitLoss`). `flush_submit_resps` removes the
entry under the lock and emits afterwards (3058). While `close()` is draining, the event admission may
be sealed in between (2305-2321, 1288-1314). `emit_event` then refuses, and `fail_all_pending` no
longer finds the entry. The documentation of `Event::SubmitDropped` (98-100) allows a loss for
backpressure, a dropped receiver or an exhausted teardown budget; none of these holds. The loss is
counted in `events_dropped`. `TerminalAccounted` states what the code does guarantee.

### What the code does not guarantee

Five statements of the documentation are defined in the modules, marked as not true of the code, and are not
among the runs. TLC refutes each on the instance named.

* `EveryLossCounted` (`EventDelivery`, with one event of each kind). When the cleanup takes longer than
  `response_timeout` (1 s is legal, the teardown budget is 5 s), `reap_background_tasks` closes the
  spool (2205) while the first cleanup still retries its batch; the batch can enter behind `Terminal`,
  and the dispatcher stops there (2435). `ConnectionMetrics::events_dropped` (134) is documented to count
  every event dropped before it reached the consumer.
* `NoSilentId` (`ConnectionClose`, the instance of `CloseReturn` with `Mortal = {r2}`). `finish()` spawns its cleanup
  on the runtime of its caller (1449). If that runtime is shut down before the cleanup ran, the fallback of
  `reap_background_tasks` runs `fail_all_pending` inside `timeout(response_timeout)` (2201). It empties the map
  first and then waits for room in the spool for up to 5 s; with a smaller `response_timeout` it is cancelled
  there, and the ids it had taken are neither reported nor counted, although the comment at 936-942 says that
  each gets a `SubmitDropped` or is counted.
* `StreamEnds` (same instance). There `close_event_spool` was not reached either, and `close_complete` is sent all
  the same (2213): `close()` returns and the dispatcher waits for ever. The repository's README (line 125)
  promises that the stream ends after `close()`. Both need a caller on a second runtime, the loss of that
  runtime, and a consumer that keeps the spool full.
* `InFlightAsDocumented` (`SubmitMetrics`, the instance of `SubmitOne`). `submits_in_flight` is computed from the
  window's free permits (873). A caller that waits for a queue slot holds one before the admission, and an entry
  answered during its write keeps one after its terminal; the documentation (138) says admitted and not concluded.
* `PartialMeansClosed` (`SubmitCall`, the instance of `Call`). The documentation of `Error::PartialSubmit`
  (error.rs:49, and its text at 54) says that the connection was closed during the call. A caller on another
  runtime than the one `connect()` was called on can outlive the connection's tasks. Its `reserve_owned` fails, the
  phase is still Open, and `send_submit` returns `ChannelClosed`, which `submit()` wraps in `PartialSubmit` after an
  earlier segment was queued, without calling `finish()` (1949-1951; the other two places that return `ChannelClosed`,
  1930 and 1969, call it first). `is_closed()` goes on answering false, no `Disconnected` is sent, and every later
  call fails in the same way or, if pending entries hold the whole window, waits, until someone calls `close()` or
  drops the last handle. What holds is `PartialMeansDown`.

## 5. Proofs

`tlapm` checks these for every value of the constants that satisfies the assumption of the module:

* `ConstantsAssumption` (pipeline): finitely many ids; window, attempts, queue and batches of at least 1;
* `RegistryAssumption`: `0 < AutoStart < N`, batch and table of at least 1;
* `DeliveryAssumption`: finite sets of events without a member in common, `Bye` in none of them, a spool and a
  teardown batch of at least 1, and a public channel of at least 2 (one slot is kept for `Disconnected`);
* `PoolAssumption`: finitely many callers and buckets, at least one reference, any cooldowns;
* `HeartbeatAssumption`: at least one attempt and one queue slot;
* `CloseAssumption`: finitely many callers and ids, each caller on some runtime, the connection on one of them;
  which runtimes may be lost and what the environment does is arbitrary;
* `SchedulingAssumption`: burst, batch limits, budget and queues of at least 1;
* `CallAssumption`: finitely many calls of at least one segment; window, manual batches and queue of at least 1;
* `StreamAssumption`: a header of at least one byte, a maximum of at least a header, and any set of streams in which
  a frame has at least its header, and claims its size or a length out of bounds (what the peer calls the frame
  then is arbitrary);
* `PlanAssumption`: a segment holds at least the widest character (4 bytes; 134 in the code), the user data header at
  least one byte, and at least one segment and one destination are allowed;
* `SamplesAssumption`: a PDU to send has the fields of its kind, each a value its Rust type can hold (`FieldValues`: any
  byte, strings and contents of any length over the code points of the module), and a damaged body is at least one
  byte shorter.

| Theorem | States |
|---|---|
| `TypeCorrect` | `Safety => []TypeOK` for the pipeline |
| `EveryTerminalAccounted` | `Safety => []TerminalAccounted` |
| `AttemptsAreExact` | `Safety => []AttemptsExact` |
| `PendingStaysDrained` | `Safety => []DrainedForGood` |
| `AnswerStopsResends` | `Safety => NoResendAfterAnswer` (pipeline) |
| `WindowIsConserved` | `Safety => []WindowConserved` |
| `CleanMarkerMeansWritten` | `Safety => []MarkerMeansWritten` |
| `ObservableLifecycle` | `Safety => Outcome!Safety`: the pipeline implements `SubmitOutcome`, without its liveness |
| `CountersAreTrue` | `SpecMetrics => []CountersTrue` |
| `IdsAlwaysGuarded` | `Spec => []IdsGuarded` |
| `NearestRangeDecides` | `Spec => []ContainsExact` |
| `TableStaysExact` | `Spec => []TableExact` |
| `ExposedNeverReissued` | `Spec => NeverReissued` |
| `OneQueue` | `Safety => []InOrder` |
| `BacklogIsBounded` | `Safety => []OverloadBounded` |
| `DisconnectedComesLast` | `Safety => []DisconnectedLast` |
| `DeliversAreSafe` | `Safety => []DeliverSafe` |
| `PoolIsExact` | `Safety => []PoolExact` |
| `CooldownIsRespected` | `Safety => CooldownRespected` |
| `OneHeartbeatOutstanding` | `Safety => []OneOutstanding` |
| `AttemptsClaimedOnce` | `Safety => []ClaimedOnce` (heartbeats) |
| `GivenUpUnanswered` | `Safety => ExhaustedUnanswered` |
| `AnsweredNeverResent` | `Safety => NoResendAfterAnswer` (heartbeats) |
| `AnswersHonoured` | `Safety => AnswerHonoured` |
| `NoReasonWithoutCause` | `Spec => []NormalEnd` |
| `OneTakeover` | `Spec => []TakeoverSound` |
| `AnswerIsLast` | `Spec => NoTerminateAfterAnswer` |
| `CrossingsAnswered` | `Spec => HandshakeSafe` |
| `BatchesFair` | `Spec => []BatchFair` |
| `BudgetsHonest` | `Spec => []BudgetHonest` |
| `CallersTold` | `Spec => []CallerTold` |
| `ResourcesAreExact` | `Spec => []ResourcesExact` |
| `ReferencesGuarded` | `Spec => ReferenceGuarded` |
| `StreamSafe` | `Spec => []StreamKept` |
| `PlanIsExact` | `SpecPlan => []PlanExact` |
| `PduIsExact` | `SpecPdu => []PduExact` |

In each proof module one lemma says for each part of the invariant that every step keeps it, with one step per
action, and frame lemmas (`EntrySteps`, `ConnSteps`, `BatchSteps`, `QueueSteps`, `WorkersMoveNoTask`, ...) say once
which actions touch the variables a part reads.

**The pipeline.** `TerminalAccounted` is a sum of five counts per id. It is not inductive alone:
`fail_all_pending` puts entries into `dropList`, and would make a sum of two if it could run twice, or
if an entry could be admitted into a drop list. `CleanupOnce` says how far the cleanup is in terms of
the phase, and that `dropList` is empty outside of it. `Attempted` says that a live entry has an
attempt of at least 1, which the type of expired keys needs. `AccountInv == TypeInv /\ CleanupOnce /\
TerminalAccounted` is inductive. `EntrySteps` and `ConnSteps` reduce the forty actions to the few that
touch each conjunct. The others build on it:

* `LedgerInv` ties the state of an entry to its claims and writes (`Ledger`), and says that what the
  writer is writing was claimed for the current attempt (`InHand`); `AttemptsExact` is what it says of the timeout.
* `SettledInv` adds that an id has an outcome exactly when a terminal was delivered, and `DrainedForGood`. That
  invariant needs `EntersByAdmission`: the only way into the map is an admission, which looks at the phase. It also
  gives `NoResendAfterAnswer`: a write starts from `Queued` only, so the id is owed a terminal and has none.
* `WindowConserved` is inductive beside `LedgerInv`; whatever set of entries a step removes, it returns as many permits.
* `MarkerInv` follows the marker through the queue: the marker comes after the last admission and nothing follows it
  (`CloseOrder`); as long as SUBMITs may be sent, one that is queued has its frame in the channel or in the writer's
  hand (`Waiting`); and one that is being written is in the batch of the write (`Busy`).
* `ObservableLifecycle`: `FateOf` shows that the cases of `fateOf` exclude each other in every state of `SettledInv`;
  then a step that publishes or gives up a set of owed ids is one `Conclude` of `SubmitOutcome`, an admission is one
  `Accept`, and all others stutter.
* `MetricsInv` puts the counters beside `SettledInv`. `Balance` is a sum over two sets, the ids under way and the ids
  torn down; each counted step moves one id, or one chunk, out of the first (`RespMoves`, `TimeoutMoves`,
  `CleanupMoves`), and the steps that are not counted leave both as they are (`UncountedKeeps`). That a refused
  `SubmitTimeout` is the only thing counted too often rests on `AdmissionLost`: the spool does not accept again.

**The registry.** `RegistryInv == TypeOK /\ TableInv /\ LeaseInv`. `PrefixInv` (the prefix ends right
before `next_automatic`), `TableDisjoint` and `TableOutside` describe the table; `SoleHolder`,
`LeaseProtected`, `ExposedRemembered` and `AutomaticInPrefix` the leases. `LeaseProtected` makes
`SoleHolder` inductive: what is leased is reserved or remembered, and both reservations refuse such an
id. `AutomaticInPrefix` is what lets an automatic lease be released without being retired.
`InsertedShapes` and `InsertedTable` are the heart: the four cases of `insert_retired_sequence` keep
the ranges apart and add exactly one id; `WalkedTable` says the same of the trimming in `reserve_next`. That the
table never has more than `MaxRanges` ranges is a count over the same four cases, two of which merge.

**The events.** `IInv == TypeInv /\ Ends /\ OrderInv /\ LastInv /\ AckInv /\ BoundInv`. `Ends` relates the phase, the
admission and the `Terminal` item to the cleanup and the dispatcher. `OrderInv` is `InOrder` with `Ledger`: what is
still owed, in a batch under retry, or about to be emitted was neither accepted nor lost, so nothing is accepted twice.
`LastInv` says that until the dispatcher exits the public channel has a slot left and `Disconnected` is not in it, which
is the two-slot rule. `AckInv` says that what the dispatcher is about to forward has had its response written.
`BoundInv` says that while admission accepts, ordinary events fit the capacity; the one let in beyond it ends that.

**The UDH pool.** `PoolInv` is `PoolExact` with four parts. `Heap`: the deadline in a heap is the end of the cooldown
of a reference nobody holds, so there is one per reference. `Rested`: a reference neither held nor cooling has
rested. `Walks`: the clock a caller read lies in the past, which is what makes a purge with an old clock harmless.
`Leases`: what is held had rested when it was taken, and while a release is under way the deadlines it has
left are the ones it will leave in the other buckets. `CooldownRespected` follows: `Pick` takes a reference that is
neither held nor cooling after the purge.

**The heartbeats.** `BeatInv == TypeBeats /\ Fresh /\ OnlyLast /\ SlotEmpty /\ Ledger /\ HandInv /\
TimerInv`. `OnlyLast` (only the newest heartbeat is outstanding, and it is unanswered) gives
`OneOutstanding`, and needs `SlotEmpty` for the wait for a slot and `Fresh` for the entry that is about to
be made. `Ledger` ties the state of an entry to the number of claims and writes: queued, the current
attempt is unclaimed; writing, claimed and unwritten; awaiting, all are written. `HandInv` says that what the writer holds is
the current attempt, without which a completion could be credited to a later one.

**Closing.** `IInv` has ten parts. `Lone` (exactly one caller has a takeover that runs while `takeover_started` is set) and
`ReapInv` (reaping tasks run after `Closed` and report after a cleanup or its timeout) give `TakeoverSound`; both
survive the loss of a runtime because the guard of a lost takeover is dropped with it (`LossLeaves`). `TermInv` gives
`TerminateReleased`. For the answer to the peer, `WriterInv` follows a frame from the batch to the wire and to
the signal its sender waits for, `InboxInv` says where the peer's frames are and that it answers only a
TERMINATE that was written, and `EntryInv` that as long as the connection is not closed and no answer came, a local
TERMINATE anywhere on its way has its entry in `pending_terminate`. `CauseInv` says that whatever is left undone has a
cause: a failure, an overload, a caller that did not wait, or a connection already closed. `AnswerInv` holds the two
properties with what they need of the open connection. `Ender` lists who closes the connection
and with which reason; every way to `Closed` is one of its six lines.

**The writer.** `WriterInv` adds to the types what the properties rest on: `PassedInBurst` (the number of control
frames that passed a waiting SUBMIT is at most the burst counter, which is what carries `BatchFair` across batches),
`PickEmpty` (between batches nothing is in hand), `LeastInv` (the timer of a batch is the smallest rest of the
DELIVER_RESPs in it), `SubmitQueueInv` and `LateInv` (a DELIVER_RESP whose budget is used up, in hand, in the
queue or in the batch, has set `late`). `TickInv` is the long case: one tick ages every frame and the timer together.

**The calls.** `CallInv` is a type part and two parts per call. `Report` says that the segments queued are exactly
those before the one in work, that a result tells how far that was, and that a partial one was given when the
connection was down, which it stays; `Reference` that a long message has its lease
from before the loop until its locals and its entries are gone, and that it is marked as soon as a frame is queued.
The second half makes `NoEarlyReuse` follow: a lease that goes from held to free is released unmarked
(`FreedUnmarked`), hence nothing was queued with it. Most steps are covered by `Forward` and `Leaving`; `InsertInv` is
the one that queues a frame, `ReleaseReference` the one that lets a lease go. `ResourceInv` adds what the calls hold:
`Balance` is the sum of the window over its free permits, the callers that carry one and the entries; `Claims` says
which ids a call may have reserved at each step, that a manual id is reserved under a batch permit only, and that
after the leases are dropped entries and `retire()` alone keep any.

**Folds.** The data path is built from folds, and what a fold computes for every input is induction over data. The
library's induction theorems take an operator as a parameter, which the provers cannot instantiate; the theorems here
take the least counterexample of a *set* instead. `SetInduction` says that a set of naturals which has 0, and with
each number below a bound the next, has them all. A definition of the form `FoldLeft(step, base, t)` is unfolded once to
the function on sets of indices it is defined by; `RuleIsLoop` says that such a function is a loop over `0 .. Len(t)`.
Each fold of the modules then has a lemma that it ends where its loop ends (`WidthLoop`, `OffsetLoop`, `EncodeLoop`,
`CountingLoop`, `CuttingLoop`, `DecodeLoop`, `JoinLoop`, `JoinChain`, `ReadLoops`).

**The stream.** `StreamInv` is `StreamKept` with `NotBehind` (what was taken was received) and `Progress` (the reader has
handled or holds every frame it took but the CONNECT_RESP). Since a byte is its position, `BytesKept` says that the
buffer begins where the next frame begins, so `HeadOfBuffer` can say what the codec sees there: the frame's length if
four bytes of it are there, and never the length of another frame. `ReadStep` and `HeadSplits` are the two steps that
move the boundary; `StarveStep` rests on `NothingWhole`: a buffer without a frame has no whole one.

**The plan.** `PlanInv` says that the plan is the one of the text and that the SUBMITs are its first segments; the rest
is about operators. `CuttingLoop` keeps, at each character, that the ranges so far are consecutive, non-empty and fit
(`CutFurther`), and `LoopsAgree` runs the loop that counts beside the loop that cuts. `SliceIsStretch` says that the
offsets of a range lie on boundaries of characters, so that `segment()` never slices inside one; `DecodeEncode` is a
second loop: no surrogate pair is apart, hence decoding a segment gives its characters. `GreedyStaysAhead` is the
argument for the fewest segments: whatever way there is of cutting the text, the k-th cut of the loop is never before
the k-th of the other way.

**The bodies.** `PduInv` says that a body that was sent goes on as the encoded PDU does, as far as it goes
(`Follows`), and that it has another length exactly if it was damaged. The rest is about operators, in four steps.

1. A string (`StrRoundTrip`). `LastFits` finds the last character that fits the width as a whole; `PutShape` says that
   what is written are the bytes up to it, then NULs or half of the next character. Decoding whole characters gives
   them back (`LossyOfWritten`, by induction over the characters), the half is read as one replacement character,
   and since a blank is one byte in both, stripping the bytes is stripping the characters (`WrittenEnds`).
2. A field (`FieldReads`). Where a body goes on as a field was written, the field is read as what it keeps if all
   of it is there, with the nine bytes behind the destinations that `decode` insists on, and refused otherwise.
3. A body (`BodyExact`). `JoinLaid` says where each field is; `Tracks` is the loop of the reader: as long as nothing
   was refused it is at the end of a field and the fields so far are the written ones; and nothing is refused if the
   body is long enough (`RoomBehind`: after the destinations come at least the content's length and the reserved
   bytes). So a body that goes on as the encoded one is accepted exactly if it has its length.
4. The length (`HintIsLength`): the hint of each kind is the sum of what its fields take; with counts of at most 255
   the longest body, a SUBMIT of 5736 bytes, fits a frame.

**Only model-checked.** Liveness (`CloseCompletes`, `DispatcherExits`, `CallersProceed`, `SilenceDetected`,
`CloseReturns`, `HandshakeEnds`, `NoStarvation`, `CallsReturn`, `ReaderEnds`, and the liveness of `ImplementsOutcome`) is
out of the prover's reach. `ReserveNextIsLoop` compares with a RECURSIVE operator, with which the prover loses its SMT
backend. Every other property of a passing run is a theorem.

## 6. Not modelled

* GBK: this side decodes it by a lookup table of a library and never sends it.
* `DeliverReport::parse`, `msg_id_hex`, the MD5 authenticators: parsing of text, formatting and hashing without
  state. Whether an authenticator is right is an outcome in `FrameStream`.
* Configuration checks, error values, logging and its rate limits, the counters nobody reads back, benchmarks
  and tests: no state that another part depends on. What configuration validates appears as the assumptions on
  the constants.

## 7. Plan

A composition of `SubmitPipeline` and `EventDelivery` on one spool. `SubmitMetrics` covers the counter both
share; what is left is that the order of events in the spool is the order of the outcomes.
