----------------------- MODULE ConnectionCloseProofs -----------------------
(***************************************************************************)
(* Proofs about ConnectionClose, for any callers, runtimes and pending     *)
(* ids, and for every choice of what else may happen: crossing handshakes  *)
(* are answered and leave nothing behind, one takeover works at a time and *)
(* completion is reported of a cleaned up connection only, and a regular   *)
(* end has no reason.  They hold for Spec, whatever the scheduler does.    *)
(*                                                                         *)
(* The inductive invariant IInv has a part for the tasks (ReapInv,         *)
(* AbortInv, Lone, TermInv), for the writer (WriterInv), for the peer's    *)
(* frames and the entry that waits for them (InboxInv, EntryInv), and for  *)
(* what explains an end (CauseInv, AnswerInv).  Lemmas on what one step of *)
(* a caller, the driver, a task or a worker moves come first: DriverMoves, *)
(* TaskMoves, CallerMoves, WorkersMoveNoTask, LossEffect.                  *)
(***************************************************************************)
EXTENDS ConnectionClose, SequenceTheorems, FiniteSetTheorems, TLAPS

-----------------------------------------------------------------------------
\* Sequences of frames.

\* What is in a sequence of frames that was appended to, or left its first.
LEMMA FramesGrow ==
    ASSUME NEW s \in Seq(Frame), NEW f \in Frame
    PROVE  /\ Append(s, f) \in Seq(Frame) /\ Append(s, f) # <<>>
           /\ ToSet(Append(s, f)) = ToSet(s) \cup {f}
  <1>1. /\ Append(s, f) \in Seq(Frame) /\ Len(Append(s, f)) = Len(s) + 1
        /\ \A i \in 1 .. Len(s) : Append(s, f)[i] = s[i]
        /\ Append(s, f)[Len(s) + 1] = f
    OBVIOUS
  <1>2. DOMAIN Append(s, f) = 1 .. Len(s) + 1 /\ DOMAIN s = 1 .. Len(s) /\ Len(s) \in Nat
    BY <1>1
  <1>3. ToSet(Append(s, f)) = ToSet(s) \cup {f}
    BY <1>1, <1>2 DEF ToSet
  <1>4. Append(s, f) # <<>>
    <2>1. Len(<<>>) = 0 /\ Len(s) \in Nat
      OBVIOUS
    <2>2. Len(Append(s, f)) # 0
      BY <1>1, <2>1
    <2> QED  BY <2>1, <2>2
  <1> QED  BY <1>1, <1>3, <1>4

\* The first frame and the rest.
LEMMA FramesSplit ==
    ASSUME NEW s \in Seq(Frame), s # <<>>
    PROVE  /\ Head(s) \in Frame /\ Tail(s) \in Seq(Frame)
           /\ ToSet(s) = {Head(s)} \cup ToSet(Tail(s))
           /\ Len(s) = 1 => ToSet(Tail(s)) = {}
           /\ Len(s) # 1 => Tail(s) # <<>>
  <1>1. /\ Tail(s) \in Seq(Frame) /\ Len(Tail(s)) = Len(s) - 1 /\ Len(s) \in Nat \ {0}
        /\ DOMAIN s = 1 .. Len(s) /\ DOMAIN Tail(s) = 1 .. Len(s) - 1
        /\ \A i \in 1 .. Len(s) - 1 : Tail(s)[i] = s[i + 1]
        /\ Head(s) = s[1] /\ Head(s) \in Frame
    OBVIOUS
  <1>2. ASSUME NEW f PROVE f \in ToSet(s) <=> f = Head(s) \/ f \in ToSet(Tail(s))
    <2>1. f \in ToSet(Tail(s)) <=> \E i \in 1 .. Len(s) - 1 : f = s[i + 1]
      BY <1>1 DEF ToSet
    <2>2. f \in ToSet(s) <=> \E i \in 1 .. Len(s) : f = s[i]
      BY <1>1 DEF ToSet
    <2>3. \A i \in 1 .. Len(s) : i = 1 \/ (i - 1 \in 1 .. Len(s) - 1 /\ (i - 1) + 1 = i)
      BY <1>1
    <2>4. \A i \in 1 .. Len(s) - 1 : i + 1 \in 1 .. Len(s)
      BY <1>1
    <2>5. 1 \in 1 .. Len(s)
      BY <1>1
    <2> QED  BY <1>1, <2>1, <2>2, <2>3, <2>4, <2>5
  <1>3. Len(s) = 1 => ToSet(Tail(s)) = {}
    BY <1>1 DEF ToSet
  <1>4. Len(s) # 1 => Tail(s) # <<>>
    <2>1. Len(<<>>) = 0
      OBVIOUS
    <2> QED  BY <1>1, <2>1
  <1> QED  BY <1>1, <1>2, <1>3, <1>4

\* A batch written after what was written before.
LEMMA FramesJoin ==
    ASSUME NEW s \in Seq(Frame), NEW u \in Seq(Frame)
    PROVE  /\ s \o u \in Seq(Frame) /\ ToSet(s \o u) = ToSet(s) \cup ToSet(u)
           /\ \A i \in Len(s) + 1 .. Len(s \o u) : (s \o u)[i] \in ToSet(u)
  <1>1. /\ s \o u \in Seq(Frame) /\ Len(s \o u) = Len(s) + Len(u) /\ Len(s) \in Nat /\ Len(u) \in Nat
        /\ DOMAIN s = 1 .. Len(s) /\ DOMAIN u = 1 .. Len(u) /\ DOMAIN (s \o u) = 1 .. Len(s) + Len(u)
    OBVIOUS
  <1>2. \A i \in 1 .. Len(s) + Len(u) : (s \o u)[i] = IF i <= Len(s) THEN s[i] ELSE u[i - Len(s)]
    BY <1>1
  <1>3. \A i \in Len(s) + 1 .. Len(s) + Len(u) : (s \o u)[i] \in ToSet(u)
    <2> TAKE i \in Len(s) + 1 .. Len(s) + Len(u)
    <2>1. i - Len(s) \in 1 .. Len(u) /\ i \in 1 .. Len(s) + Len(u) /\ ~(i <= Len(s))
      BY <1>1
    <2>2. (s \o u)[i] = u[i - Len(s)]
      BY <1>2, <2>1
    <2> QED  BY <1>1, <2>1, <2>2 DEF ToSet
  <1>4. ToSet(s) \subseteq ToSet(s \o u)
    <2> SUFFICES ASSUME NEW i \in 1 .. Len(s) PROVE s[i] \in ToSet(s \o u)
      BY <1>1 DEF ToSet
    <2>1. i \in 1 .. Len(s) + Len(u) /\ (s \o u)[i] = s[i]
      BY <1>1, <1>2
    <2> QED  BY <1>1, <2>1 DEF ToSet
  <1>5. ToSet(u) \subseteq ToSet(s \o u)
    <2> SUFFICES ASSUME NEW i \in 1 .. Len(u) PROVE u[i] \in ToSet(s \o u)
      BY <1>1 DEF ToSet
    <2>1. Len(s) + i \in 1 .. Len(s) + Len(u) /\ ~(Len(s) + i <= Len(s)) /\ (Len(s) + i) - Len(s) = i
      BY <1>1
    <2>2. (s \o u)[Len(s) + i] = u[i]
      BY <1>2, <2>1
    <2> QED  BY <1>1, <2>1, <2>2 DEF ToSet
  <1>6. ToSet(s \o u) \subseteq ToSet(s) \cup ToSet(u)
    <2> SUFFICES ASSUME NEW i \in 1 .. Len(s) + Len(u) PROVE (s \o u)[i] \in ToSet(s) \cup ToSet(u)
      BY <1>1 DEF ToSet
    <2>1. CASE i <= Len(s)
      <3>1. i \in 1 .. Len(s) /\ (s \o u)[i] = s[i]
        BY <1>1, <1>2, <2>1
      <3> QED  BY <1>1, <3>1 DEF ToSet
    <2>2. CASE ~(i <= Len(s))
      <3>1. i \in Len(s) + 1 .. Len(s) + Len(u)
        BY <1>1, <2>2
      <3> QED  BY <1>3, <3>1
    <2> QED  BY <2>1, <2>2
  <1> QED  BY <1>1, <1>3, <1>4, <1>5, <1>6

\* A part of the control queue.
LEMMA FramesPart ==
    ASSUME NEW s \in Seq(Frame), NEW m \in Nat \ {0}, NEW n \in Nat, n <= Len(s)
    PROVE  SubSeq(s, m, n) \in Seq(Frame) /\ ToSet(SubSeq(s, m, n)) \subseteq ToSet(s)
  <1> DEFINE u == SubSeq(s, m, n)
             l == IF m <= n THEN n - m + 1 ELSE 0
  <1>1. /\ u \in Seq(Frame) /\ DOMAIN u = 1 .. l /\ l \in Nat
        /\ \A i \in 1 .. l : u[i] = s[m + i - 1]
    BY SubSeqProperties
  <1>2. \A i \in 1 .. l : m + i - 1 \in 1 .. Len(s)
    OBVIOUS
  <1>3. DOMAIN s = 1 .. Len(s)
    OBVIOUS
  <1> HIDE DEF u, l
  <1>4. u \in Seq(Frame) /\ ToSet(u) \subseteq ToSet(s)
    BY <1>1, <1>2, <1>3 DEF ToSet
  <1> QED  BY <1>4 DEF u

\* What is written of a harvested batch: all of it, or its responses.
LEMMA KeptFrames ==
    ASSUME NEW s \in Seq(Frame)
    PROVE  /\ Kept(s) \in Seq(Frame) /\ ToSet(Kept(s)) \subseteq ToSet(s)
           /\ respWritten => "TERM" \notin ToSet(Kept(s))
           /\ ~respWritten => Kept(s) = s
  <1>1. CASE ~respWritten
    BY <1>1 DEF Kept
  <1>2. CASE respWritten
    <2> DEFINE R == {j \in DOMAIN s : s[j] = "RESP"}
               n == Cardinality(R)
    <2>1. IsFiniteSet(R) /\ n \in Nat
      <3>1. DOMAIN s = 1 .. Len(s) /\ Len(s) \in Nat
        OBVIOUS
      <3>2. IsFiniteSet(1 .. Len(s))
        BY <3>1, FS_Interval
      <3>3. R \subseteq 1 .. Len(s)
        BY <3>1
      <3>4. IsFiniteSet(R)
        BY <3>2, <3>3, FS_Subset
      <3> QED  BY <3>4, FS_CardinalityType
    <2>2. n # 0 => "RESP" \in ToSet(s)
      <3> SUFFICES ASSUME n # 0 PROVE "RESP" \in ToSet(s)
        OBVIOUS
      <3>1. R # {}
        BY FS_EmptySet
      <3>2. PICK j \in DOMAIN s : s[j] = "RESP"
        BY <3>1
      <3> QED  BY <3>2 DEF ToSet
    <2>3. Kept(s) = [i \in 1 .. n |-> "RESP"]
      BY <1>2 DEF Kept
    <2> HIDE DEF n
    <2>4. Kept(s) \in Seq(Frame) /\ DOMAIN Kept(s) = 1 .. n /\ \A i \in 1 .. n : Kept(s)[i] = "RESP"
      <3>1. Kept(s) \in [1 .. n -> Frame]
        BY <2>3 DEF Frame
      <3>2. Kept(s) \in Seq(Frame)
        BY <2>1, <3>1, SeqDef
      <3> QED  BY <2>3, <3>2
    <2>5. ASSUME NEW f \in ToSet(Kept(s)) PROVE f = "RESP" /\ n # 0
      BY <2>1, <2>4, <2>5 DEF ToSet
    <2> QED  BY <1>2, <2>2, <2>4, <2>5
  <1> QED  BY <1>1, <1>2
-----------------------------------------------------------------------------
\* The inductive invariant.

\* TypeOK without its bound on the control queue, which is not needed.
Types ==
    /\ phase \in {"Open", "Closing", "Closed"}
    /\ reason \in {"unset", "None", "Terminated", "ChannelClosed", "Error"}
    /\ alive \subseteq Runtimes
    /\ cpc \in [Callers -> {"idle", "wait", "take", "retry", "done", "gone"}]
    /\ started \in BOOLEAN /\ takeover \in BOOLEAN
    /\ tpc \in [Tasks -> TaskSteps] /\ home \in [Tasks -> Runtimes]
    /\ hand \in [Tasks -> SUBSET Ids] /\ pending \subseteq Ids /\ silent \subseteq Ids
    /\ cleaned \in BOOLEAN /\ complete \in BOOLEAN /\ gaveUp \in BOOLEAN
    /\ term \in {"none", "set", "written"}
    /\ ctl \in Seq(Frame) /\ batch \in Seq(Frame) /\ wire \in Seq(Frame)
    /\ respSig \in {"none", "sent", "dropped"} /\ termSig \in {"none", "sent", "dropped"}
    /\ wpc \in {"pick", "write", "complete", "done"} /\ respWritten \in BOOLEAN
    /\ rpc \in {"read", "queue", "answer", "done"} /\ seen \in BOOLEAN /\ acked \in BOOLEAN
    /\ aborted \in BOOLEAN /\ overload \in BOOLEAN
    /\ inbox \in Seq(Frame) /\ eof \in {"open", "clean", "cut"}
    /\ terms \in 0 .. MaxTerm /\ answered \in BOOLEAN /\ causes \subseteq {"fault", "overload", "haste", "drop"}

\* Tasks that reap do so after Closed, and end after a cleanup or its timeout.
ReapInv ==
    /\ \A t \in Tasks : tpc[t] \in {"unpend", "cleanup", "fail", "publish", "end"} => phase = "Closed"
    /\ \A t \in Tasks : tpc[t] = "end" => cleaned \/ gaveUp
    /\ tpc[Cleanup] \in {"none", "fail", "publish", "done", "lost"}
    /\ CompleteMeansCleaned

\* The workers are aborted after Closed.
AbortInv == aborted => phase = "Closed"

\* One takeover while takeover_started, none otherwise.
Lone == IF takeover THEN \E c \in Callers : \A d \in Callers : tpc[d] \notin Ended <=> d = c
        ELSE \A c \in Callers : tpc[c] \in Ended

\* The entry in pending_terminate is there only while the driver may need it.
TermInv ==
    /\ ~started => tpc[Driver] = "none"
    /\ tpc[Driver] \in {"none", "drain", "closed", "cleanup", "fail", "publish", "end", "done"} => term = "none"

\* What the writer has on its way.
WriterInv ==
    /\ wpc \in {"write", "complete"} => batch # <<>>
    /\ wpc = "complete" => ToSet(batch) \subseteq ToSet(wire)
    /\ "RESP" \in ToSet(wire) => respWritten \/ (wpc = "complete" /\ "RESP" \in ToSet(batch)) \/ wpc = "done"
    /\ wpc = "write" /\ respWritten => "TERM" \notin ToSet(batch)
    /\ respSig = "sent" \/ respWritten => "RESP" \in ToSet(wire)

\* The peer's frames.
InboxInv ==
    /\ \A i \in 1 .. Len(inbox) : inbox[i] = "RESP" => i = Len(inbox) /\ answered
    /\ \A i \in 1 .. Len(inbox) : inbox[i] = "TERM" => terms > 0
    /\ seen => terms > 0
    /\ rpc \in {"queue", "answer"} => seen
    /\ acked => answered /\ inbox = <<>> /\ rpc \in {"read", "done"}
    /\ answered => "TERM" \in ToSet(wire)
    /\ answered /\ phase # "Closed" => acked \/ (inbox # <<>> /\ inbox[Len(inbox)] = "RESP")
    /\ eof # "open" => "fault" \in causes \/ (answered /\ eof = "clean")

\* An entry waits for the answer of every local TERMINATE on its way.
EntryInv ==
    phase # "Closed" /\ term = "none" /\ ~acked =>
        /\ tpc[Driver] \notin {"send", "written", "answer"}
        /\ "TERM" \notin ToSet(ctl) /\ "TERM" \notin ToSet(batch) /\ "TERM" \notin ToSet(wire)

\* Closed already, or somebody did not wait.
Late == phase = "Closed" \/ "haste" \in causes

\* What is left undone has a cause, or the connection is closed.
CauseInv ==
    /\ overload => "overload" \in causes
    /\ \A c \in Callers : cpc[c] \in {"take", "retry"} \/ tpc[c] # "none" => "haste" \in causes
    /\ wpc = "done" => Late
    /\ respSig = "dropped" => Late
    /\ termSig = "dropped" => Late \/ respWritten

\* The answer to the peer's TERMINATE, the reason, and what both rest on while
\* the connection is not closed.
AnswerInv ==
    /\ PeerAnswered /\ NormalEnd
    /\ phase # "Closed" /\ causes = {} =>
        /\ seen /\ rpc \notin {"queue", "answer"} => "RESP" \in ToSet(wire)
        /\ tpc[Driver] = "finish" => acked \/ "RESP" \in ToSet(wire)

IInv == Types /\ ReapInv /\ AbortInv /\ Lone /\ TermInv /\ WriterInv /\ InboxInv /\ EntryInv /\ CauseInv /\ AnswerInv
-----------------------------------------------------------------------------
\* The part of finish() that every caller of it shares.

\* Closed once the call returns, with a reason that does not change any more;
\* of the tasks only the caller moves, and the cleanup is started or lost.
LEMMA FinishEffect ==
    ASSUME NEW r, NEW rt, NEW t \in Tasks, NEW step,
           tpc \in [Tasks -> TaskSteps], FinishAs(r, rt, t, step)
    PROVE  /\ phase' = "Closed"
           /\ phase = "Closed" => reason' = reason
           /\ phase # "Closed" => reason' = Reason(r)
           /\ \A u \in Tasks : u # t /\ u # Cleanup => tpc'[u] = tpc[u]
           /\ t # Cleanup => tpc'[t] = step
           /\ tpc'[Cleanup] = tpc[Cleanup] \/ tpc'[Cleanup] \in {"fail", "lost"}
  <1>1. Cleanup \in Tasks
    BY DEF Tasks
  <1>2. CASE phase = "Closed"
    BY <1>1, <1>2 DEF FinishAs, ends
  <1>3. CASE phase # "Closed"
    BY <1>1, <1>3 DEF FinishAs
  <1> QED  BY <1>2, <1>3

\* The types of what it changes.
LEMMA FinishTypes ==
    ASSUME Types, NEW r \in {"None", "Terminated", "ChannelClosed", "Error"}, NEW rt \in Runtimes,
           NEW t \in Tasks, NEW step \in TaskSteps, FinishAs(r, rt, t, step)
    PROVE  /\ phase' \in {"Open", "Closing", "Closed"}
           /\ reason' \in {"unset", "None", "Terminated", "ChannelClosed", "Error"}
           /\ tpc' \in [Tasks -> TaskSteps] /\ home' \in [Tasks -> Runtimes]
  <1>1. /\ phase \in {"Open", "Closing", "Closed"} /\ tpc \in [Tasks -> TaskSteps] /\ home \in [Tasks -> Runtimes]
        /\ reason \in {"unset", "None", "Terminated", "ChannelClosed", "Error"}
    BY DEF Types
  <1>2. {"fail", "lost"} \subseteq TaskSteps
    BY DEF TaskSteps
  <1>3. CASE phase = "Closed"
    BY <1>1, <1>3 DEF FinishAs, ends
  <1>4. CASE phase # "Closed"
    <2>1. phase' = "Closed" /\ reason' \in {"unset", "None", "Terminated", "ChannelClosed", "Error"}
      BY <1>1, <1>4 DEF FinishAs, Reason
    <2>2. tpc' \in [Tasks -> TaskSteps] /\ home' \in [Tasks -> Runtimes]
      BY <1>1, <1>2, <1>4 DEF FinishAs
    <2> QED  BY <2>1, <2>2
  <1> QED  BY <1>3, <1>4

\* Who is who: tasks, the runtimes they start on, the three names apart.
LEMMA Names ==
    /\ Driver \in Tasks /\ Cleanup \in Tasks /\ Driver # Cleanup /\ Callers \subseteq Tasks
    /\ Driver \notin Callers /\ Cleanup \notin Callers
    /\ Main \in Runtimes /\ \A c \in Callers : HomeOf[c] \in Runtimes
    /\ MaxTerm \in Nat /\ "TERM" \in Frame /\ "RESP" \in Frame
  BY CloseAssumption DEF Tasks, Frame

-----------------------------------------------------------------------------
\* Types.

\* The connection in the beginning.
LEMMA InitTypes == Init => Types
  <1> SUFFICES ASSUME Init PROVE Types
    OBVIOUS
  <1>1. <<>> \in Seq(Frame)
    OBVIOUS
  <1>2. /\ tpc \in [Tasks -> TaskSteps] /\ home \in [Tasks -> Runtimes]
        /\ hand \in [Tasks -> SUBSET Ids] /\ cpc \in [Callers -> {"idle", "wait", "take", "retry", "done", "gone"}]
    BY Names DEF Init, TaskSteps
  <1>3. 0 \in 0 .. MaxTerm
    BY Names
  <1>4. /\ pending \subseteq Ids /\ silent \subseteq Ids /\ alive \subseteq Runtimes
        /\ ctl \in Seq(Frame) /\ batch \in Seq(Frame) /\ wire \in Seq(Frame) /\ inbox \in Seq(Frame)
        /\ terms \in 0 .. MaxTerm /\ causes \subseteq {"fault", "overload", "haste", "drop"}
    BY <1>1, <1>3 DEF Init
  <1> QED  BY <1>2, <1>4 DEF Init, Types

\* The callers' steps keep the types.
LEMMA CallerTypes ==
    ASSUME Types, NEW c \in Callers, Close(c) \/ CallerWait(c) \/ CallerTakeover(c)
    PROVE  Types'
  <1> USE DEF vars, ends, callers, steps, ids, outcome, writer, reader, peer
  <1>1. CASE Close(c)
    <2>1. /\ cpc' \in [Callers -> {"idle", "wait", "take", "retry", "done", "gone"}]
          /\ started' \in BOOLEAN /\ phase' \in {"Open", "Closing", "Closed"}
      BY <1>1 DEF Types, Close, BeginClosing
    <2>2. tpc' \in [Tasks -> TaskSteps] /\ home' \in [Tasks -> Runtimes]
      BY <1>1, Names DEF Types, Close, Go, TaskSteps
    <2> QED  BY <1>1, <2>1, <2>2 DEF Types, Close
  <1>2. CASE CallerWait(c)
    <2>1. /\ cpc' \in [Callers -> {"idle", "wait", "take", "retry", "done", "gone"}]
          /\ causes' \subseteq {"fault", "overload", "haste", "drop"}
      BY <1>2 DEF Types, CallerWait, Blame
    <2> QED  BY <1>2, <2>1 DEF Types, CallerWait
  <1>3. CASE CallerTakeover(c)
    <2>1. /\ cpc' \in [Callers -> {"idle", "wait", "take", "retry", "done", "gone"}] /\ takeover' \in BOOLEAN
      BY <1>3 DEF Types, CallerTakeover
    <2>2. tpc' \in [Tasks -> TaskSteps] /\ home' \in [Tasks -> Runtimes]
      BY <1>3, Names DEF Types, CallerTakeover, Go, TaskSteps
    <2> QED  BY <1>3, <2>1, <2>2 DEF Types, CallerTakeover
  <1> QED  BY <1>1, <1>2, <1>3

\* So do the driver's.
LEMMA DriverTypes == ASSUME Types, DriverStep PROVE Types'
  <1> USE DEF vars, ends, callers, steps, ids, outcome, writer, reader, peer
  <1>1. CASE DriverPend
    <2>1. /\ phase' \in {"Open", "Closing", "Closed"}
          /\ reason' \in {"unset", "None", "Terminated", "ChannelClosed", "Error"}
          /\ tpc' \in [Tasks -> TaskSteps] /\ home' \in [Tasks -> Runtimes]
      <3>1. CASE FinishAs("ChannelClosed", home[Driver], Driver, "closed")
        BY <3>1, FinishTypes, Names DEF Types, TaskSteps
      <3>2. CASE Go(Driver, "send") /\ UNCHANGED <<ends, home>>
        BY <3>2, Names DEF Types, TaskSteps, Go
      <3> QED  BY <1>1, <3>1, <3>2 DEF DriverPend
    <2>2. term' \in {"none", "set", "written"} /\ causes' \subseteq {"fault", "overload", "haste", "drop"}
      BY <1>1 DEF Types, DriverPend, Blame
    <2> QED  BY <1>1, <2>1, <2>2 DEF Types, DriverPend
  <1>2. CASE DriverSend
    <2>1. tpc' \in [Tasks -> TaskSteps]
      BY <1>2, Names DEF Types, DriverSend, Go, TaskSteps
    <2>2. ctl' \in Seq(Frame) /\ termSig' \in {"none", "sent", "dropped"}
      BY <1>2, FramesGrow, Names DEF Types, DriverSend
    <2> QED  BY <1>2, <2>1, <2>2 DEF Types, DriverSend
  <1>3. CASE DriverAwait
    <2>1. tpc' \in [Tasks -> TaskSteps]
      BY <1>3, Names DEF Types, DriverAwait, Go, TaskSteps
    <2> QED  BY <1>3, <2>1 DEF Types, DriverAwait
  <1>4. CASE DriverTimeout
    <2>1. tpc' \in [Tasks -> TaskSteps] /\ causes' \subseteq {"fault", "overload", "haste", "drop"}
      BY <1>4, Names DEF Types, DriverTimeout, Go, TaskSteps, Blame
    <2> QED  BY <1>4, <2>1 DEF Types, DriverTimeout
  <1>5. CASE DriverUnpend
    <2>1. tpc' \in [Tasks -> TaskSteps]
      BY <1>5, Names DEF Types, DriverUnpend, Go, TaskSteps
    <2> QED  BY <1>5, <2>1 DEF Types, DriverUnpend
  <1> QED  BY <1>1, <1>2, <1>3, <1>4, <1>5 DEF DriverStep

\* So do those of the tasks that finish, reap and clean up.
LEMMA TaskTypes == ASSUME Types, NEW t \in Tasks, TaskStep(t) PROVE Types'
  <1> USE DEF vars, ends, callers, steps, ids, outcome, writer, reader, peer
  <1>1. CASE TaskFinish(t)
    <2>1. /\ phase' \in {"Open", "Closing", "Closed"}
          /\ reason' \in {"unset", "None", "Terminated", "ChannelClosed", "Error"}
          /\ tpc' \in [Tasks -> TaskSteps] /\ home' \in [Tasks -> Runtimes]
      <3>1. home[t] \in Runtimes /\ (IF t = Driver THEN "unpend" ELSE "closed") \in TaskSteps
        BY DEF Types, TaskSteps
      <3> QED  BY <1>1, <3>1, FinishTypes DEF TaskFinish
    <2> QED  BY <1>1, <2>1 DEF Types, TaskFinish
  <1>2. CASE ReapClosed(t)
    <2>1. /\ phase' \in {"Open", "Closing", "Closed"}
          /\ reason' \in {"unset", "None", "Terminated", "ChannelClosed", "Error"}
          /\ tpc' \in [Tasks -> TaskSteps] /\ home' \in [Tasks -> Runtimes]
      <3>1. home[t] \in Runtimes /\ "cleanup" \in TaskSteps
        BY DEF Types, TaskSteps
      <3> QED  BY <1>2, <3>1, FinishTypes DEF ReapClosed
    <2>2. causes' \subseteq {"fault", "overload", "haste", "drop"}
      BY <1>2 DEF Types, ReapClosed, Blame
    <2> QED  BY <1>2, <2>1, <2>2 DEF Types, ReapClosed
  <1>3. CASE ReapCleanup(t)
    <2>1. tpc' \in [Tasks -> TaskSteps]
      BY <1>3 DEF Types, ReapCleanup, Go, TaskSteps
    <2> QED  BY <1>3, <2>1 DEF Types, ReapCleanup
  <1>4. CASE FailDrain(t)
    <2>1. tpc' \in [Tasks -> TaskSteps] /\ hand' \in [Tasks -> SUBSET Ids] /\ pending' \subseteq Ids
      BY <1>4 DEF Types, FailDrain, Go, TaskSteps
    <2> QED  BY <1>4, <2>1 DEF Types, FailDrain
  <1>5. CASE FailPublish(t)
    <2>1. hand' \in [Tasks -> SUBSET Ids]
      BY <1>5 DEF Types, FailPublish
    <2> QED  BY <1>5, <2>1 DEF Types, FailPublish
  <1>6. CASE Cleaned(t)
    <2>1. tpc' \in [Tasks -> TaskSteps]
      BY <1>6 DEF Types, Cleaned, Go, TaskSteps
    <2> QED  BY <1>6, <2>1 DEF Types, Cleaned
  <1>7. CASE FallbackTimeout(t)
    <2>1. tpc' \in [Tasks -> TaskSteps] /\ hand' \in [Tasks -> SUBSET Ids] /\ silent' \subseteq Ids
      BY <1>7 DEF Types, FallbackTimeout, Go, TaskSteps
    <2> QED  BY <1>7, <2>1 DEF Types, FallbackTimeout
  <1>8. CASE ReapEnd(t)
    <2>1. tpc' \in [Tasks -> TaskSteps] /\ takeover' \in BOOLEAN
      BY <1>8 DEF Types, ReapEnd, Go, TaskSteps
    <2> QED  BY <1>8, <2>1 DEF Types, ReapEnd
  <1> QED  BY <1>1, <1>2, <1>3, <1>4, <1>5, <1>6, <1>7, <1>8 DEF TaskStep

\* The frames the writer had when it goes are dropped.
LEMMA WriterGoneTypes ==
    ASSUME Types, WriterGone
    PROVE  /\ ctl' \in Seq(Frame) /\ batch' \in Seq(Frame) /\ wpc' \in {"pick", "write", "complete", "done"}
           /\ respSig' \in {"none", "sent", "dropped"} /\ termSig' \in {"none", "sent", "dropped"}
           /\ ctl' = <<>> /\ batch' = <<>> /\ wpc' = "done"
           /\ ToSet(ctl') = {} /\ ToSet(batch') = {}
  <1>1. <<>> \in Seq(Frame) /\ ToSet(<<>>) = {}
    BY DEF ToSet
  <1> QED  BY <1>1 DEF Types, WriterGone, Dropped

\* finish() of a worker.
LEMMA WorkerFinishTypes ==
    ASSUME Types, NEW r \in {"None", "Terminated", "ChannelClosed", "Error"}, Finish(r)
    PROVE  /\ phase' \in {"Open", "Closing", "Closed"}
           /\ reason' \in {"unset", "None", "Terminated", "ChannelClosed", "Error"}
           /\ tpc' \in [Tasks -> TaskSteps] /\ home' \in [Tasks -> Runtimes]
  <1>1. "none" \in TaskSteps
    BY DEF TaskSteps
  <1> QED  BY <1>1, FinishTypes, Names DEF Finish

\* So do the writer's.
LEMMA WriterTypes == ASSUME Types, WriterInv, WriterStep PROVE Types'
  <1> USE DEF vars, ends, callers, steps, ids, outcome, writer, reader, peer
  <1>1. CASE WriterPick
    <2> PICK k \in 1 .. Len(ctl) :
               /\ ctl' = SubSeq(ctl, k + 1, Len(ctl)) /\ batch' = Kept(SubSeq(ctl, 1, k))
               /\ wpc' = IF Kept(SubSeq(ctl, 1, k)) = <<>> THEN "pick" ELSE "write"
               /\ termSig' = IF Kept(SubSeq(ctl, 1, k)) # SubSeq(ctl, 1, k) THEN "dropped" ELSE termSig
      BY <1>1 DEF WriterPick
    <2>1. ctl \in Seq(Frame) /\ Len(ctl) \in Nat
      BY DEF Types
    <2>2. ctl' \in Seq(Frame) /\ SubSeq(ctl, 1, k) \in Seq(Frame)
      BY <2>1, FramesPart
    <2>3. batch' \in Seq(Frame)
      BY <2>2, KeptFrames
    <2>4. wpc' \in {"pick", "write", "complete", "done"} /\ termSig' \in {"none", "sent", "dropped"}
      BY DEF Types
    <2> QED  BY <1>1, <2>2, <2>3, <2>4 DEF Types, WriterPick
  <1>2. CASE WriterWrite
    <2>1. wire' \in Seq(Frame)
      BY <1>2, FramesJoin DEF Types, WriterWrite
    <2> QED  BY <1>2, <2>1 DEF Types, WriterWrite
  <1>3. CASE WriterComplete /\ batch # <<>>
    <2>1. batch' \in Seq(Frame)
      BY <1>3, FramesSplit DEF Types, WriterComplete
    <2>2. wpc' \in {"pick", "write", "complete", "done"}
      BY <1>3 DEF WriterComplete
    <2>3. /\ respWritten' \in BOOLEAN /\ term' \in {"none", "set", "written"}
          /\ respSig' \in {"none", "sent", "dropped"} /\ termSig' \in {"none", "sent", "dropped"}
      BY <1>3 DEF Types, WriterComplete
    <2> QED  BY <1>3, <2>1, <2>2, <2>3 DEF Types, WriterComplete
  <1>4. CASE WriterFail
    <2>1. causes' \subseteq {"fault", "overload", "haste", "drop"}
      BY <1>4 DEF Types, WriterFail, Blame
    <2> QED  BY <1>4, <2>1, WriterGoneTypes, WorkerFinishTypes DEF Types, WriterFail
  <1>5. CASE WriterStop
    BY <1>5, WriterGoneTypes DEF Types, WriterStop
  <1>6. WriterComplete => batch # <<>>
    BY DEF WriterInv, WriterComplete
  <1> QED  BY <1>1, <1>2, <1>3, <1>4, <1>5, <1>6 DEF WriterStep

\* So do the reader's.
LEMMA ReaderTypes == ASSUME Types, ReaderStep PROVE Types'
  <1> USE DEF vars, ends, callers, steps, ids, outcome, writer, reader, peer
  <1>1. CASE ReadTerminate
    <2>1. inbox' \in Seq(Frame)
      BY <1>1, FramesSplit DEF Types, ReadTerminate
    <2>2. phase' \in {"Open", "Closing", "Closed"}
      BY <1>1 DEF Types, ReadTerminate, BeginClosing
    <2> QED  BY <1>1, <2>1, <2>2 DEF Types, ReadTerminate
  <1>2. CASE ReaderQueue
    <2>1. ctl' \in Seq(Frame)
      BY <1>2, FramesGrow, Names DEF Types, ReaderQueue
    <2> QED  BY <1>2, <2>1 DEF Types, ReaderQueue
  <1>3. CASE ReaderContinue
    BY <1>3 DEF Types, ReaderContinue
  <1>4. CASE ReaderTerminated
    <2>1. causes' \subseteq {"fault", "overload", "haste", "drop"}
      BY <1>4 DEF Types, ReaderTerminated, Blame
    <2> QED  BY <1>4, <2>1, WorkerFinishTypes DEF Types, ReaderTerminated
  <1>5. CASE ReadTerminateResp
    <2>1. inbox' \in Seq(Frame)
      BY <1>5, FramesSplit DEF Types, ReadTerminateResp
    <2>2. acked' \in BOOLEAN
      BY <1>5 DEF Types, ReadTerminateResp
    <2> QED  BY <1>5, <2>1, <2>2 DEF Types, ReadTerminateResp
  <1>6. CASE ReadEof
    <2>1. CASE acked /\ eof = "clean"
      BY <1>6, <2>1 DEF Types, ReadEof
    <2>2. CASE ~(acked /\ eof = "clean")
      BY <1>6, <2>2, WorkerFinishTypes DEF Types, ReadEof
    <2> QED  BY <2>1, <2>2
  <1>7. CASE ReaderFail
    <2>1. causes' \subseteq {"fault", "overload", "haste", "drop"}
      BY <1>7 DEF Types, ReaderFail, Blame
    <2> QED  BY <1>7, <2>1, WorkerFinishTypes DEF Types, ReaderFail
  <1>8. CASE ReaderStop
    BY <1>8 DEF Types, ReaderStop
  <1> QED  BY <1>1, <1>2, <1>3, <1>4, <1>5, <1>6, <1>7, <1>8 DEF ReaderStep

\* So do the overload, the peer and the drop of the last handle.
LEMMA OutsideTypes ==
    ASSUME Types, DropLast \/ OverloadStart \/ OverloadFinish \/ PeerTerminate \/ PeerAnswer \/ PeerClose
    PROVE  Types'
  <1> USE DEF vars, ends, callers, steps, ids, outcome, writer, reader, peer
  <1>1. CASE DropLast
    <2> PICK rt \in alive \cup {Main} : FinishAs("None", rt, Cleanup, "none")
      BY <1>1 DEF DropLast
    <2>1. rt \in Runtimes /\ "none" \in TaskSteps
      BY Names DEF Types, TaskSteps
    <2>2. /\ phase' \in {"Open", "Closing", "Closed"}
          /\ reason' \in {"unset", "None", "Terminated", "ChannelClosed", "Error"}
          /\ tpc' \in [Tasks -> TaskSteps] /\ home' \in [Tasks -> Runtimes]
      BY <2>1, FinishTypes, Names
    <2>3. causes' \subseteq {"fault", "overload", "haste", "drop"}
      BY <1>1 DEF Types, DropLast, Blame
    <2> QED  BY <1>1, <2>2, <2>3 DEF Types, DropLast
  <1>2. CASE OverloadStart
    <2>1. /\ phase' \in {"Open", "Closing", "Closed"} /\ overload' \in BOOLEAN
          /\ causes' \subseteq {"fault", "overload", "haste", "drop"}
      BY <1>2 DEF Types, OverloadStart, BeginClosing, Blame
    <2> QED  BY <1>2, <2>1 DEF Types, OverloadStart
  <1>3. CASE OverloadFinish
    <2>1. Finish("ChannelClosed") /\ overload' \in BOOLEAN
      BY <1>3 DEF OverloadFinish
    <2>2. /\ phase' \in {"Open", "Closing", "Closed"}
          /\ reason' \in {"unset", "None", "Terminated", "ChannelClosed", "Error"}
          /\ tpc' \in [Tasks -> TaskSteps] /\ home' \in [Tasks -> Runtimes]
      BY <2>1, WorkerFinishTypes
    <2> QED  BY <1>3, <2>1, <2>2 DEF Types, OverloadFinish
  <1>4. CASE PeerTerminate
    <2>1. inbox' \in Seq(Frame)
      BY <1>4, FramesGrow, Names DEF Types, PeerTerminate
    <2>2. terms' \in 0 .. MaxTerm
      BY <1>4, Names DEF Types, PeerTerminate
    <2> QED  BY <1>4, <2>1, <2>2 DEF Types, PeerTerminate
  <1>5. CASE PeerAnswer
    <2>1. inbox' \in Seq(Frame)
      BY <1>5, FramesGrow, Names DEF Types, PeerAnswer
    <2> QED  BY <1>5, <2>1 DEF Types, PeerAnswer
  <1>6. CASE PeerClose
    <2>1. causes' \subseteq {"fault", "overload", "haste", "drop"}
      BY <1>6 DEF Types, PeerClose, Blame
    <2>2. eof' \in {"open", "clean", "cut"}
      BY <1>6 DEF PeerClose
    <2> QED  BY <1>6, <2>1, <2>2 DEF Types, PeerClose
  <1> QED  BY <1>1, <1>2, <1>3, <1>4, <1>5, <1>6

\* What the loss of a runtime does to the tasks.
LEMMA LossEffect ==
    ASSUME Types, NEW rt \in Runtimes, LoseRuntime(rt)
    PROVE  /\ \A t \in Tasks : tpc'[t] = tpc[t] \/ (tpc'[t] = "lost" /\ tpc[t] \notin Ended)
           /\ \A c \in Callers : cpc'[c] \in {cpc[c], "gone"}
           /\ takeover' = (takeover /\ \A c \in Callers : tpc'[c] = tpc[c])
           /\ causes' = causes \cup {"haste"}
           /\ WriterGone \/ UNCHANGED <<wpc, ctl, batch, respSig, termSig>>
           /\ rpc' \in {rpc, "done"} /\ (overload' => overload)
  <1> DEFINE gone == {t \in Tasks : home[t] = rt /\ tpc[t] \notin Ended}
  <1>1. /\ tpc' = [t \in Tasks |-> IF t \in gone THEN "lost" ELSE tpc[t]]
        /\ takeover' = (takeover /\ gone \cap Callers = {})
    BY DEF LoseRuntime
  <1>2. \A t \in gone : tpc[t] # "lost"
    BY DEF Ended
  <1>3. \A t \in Tasks : tpc'[t] = (IF t \in gone THEN "lost" ELSE tpc[t])
    BY <1>1
  <1>4. gone \cap Callers = {} <=> \A c \in Callers : tpc'[c] = tpc[c]
    BY <1>2, <1>3, Names
  <1>5. /\ \A c \in Callers : cpc'[c] \in {cpc[c], "gone"}
        /\ causes' = causes \cup {"haste"}
        /\ WriterGone \/ UNCHANGED <<wpc, ctl, batch, respSig, termSig>>
        /\ rpc' \in {rpc, "done"} /\ (overload' => overload)
    BY DEF LoseRuntime, Blame
  <1>6. \A t \in Tasks : tpc'[t] = tpc[t] \/ (tpc'[t] = "lost" /\ tpc[t] \notin Ended)
    BY <1>3
  <1> QED  BY <1>1, <1>4, <1>5, <1>6

\* The loss of a runtime keeps the types.
LEMMA LossTypes == ASSUME Types, NEW rt \in Runtimes, LoseRuntime(rt) PROVE Types'
  <1> USE DEF vars, ends, callers, steps, ids, outcome, writer, reader, peer
  <1>1. /\ tpc' \in [Tasks -> TaskSteps] /\ hand' \in [Tasks -> SUBSET Ids] /\ takeover' \in BOOLEAN
    BY DEF LoseRuntime, Types, TaskSteps
  <1>2. cpc' \in [Callers -> {"idle", "wait", "take", "retry", "done", "gone"}]
    BY DEF LoseRuntime, Types
  <1>3. alive' \subseteq Runtimes /\ causes' \subseteq {"fault", "overload", "haste", "drop"}
    BY DEF LoseRuntime, Types, Blame
  <1>4. /\ ctl' \in Seq(Frame) /\ batch' \in Seq(Frame) /\ wpc' \in {"pick", "write", "complete", "done"}
        /\ respSig' \in {"none", "sent", "dropped"} /\ termSig' \in {"none", "sent", "dropped"}
    BY WriterGoneTypes, LossEffect DEF Types
  <1>5. rpc' \in {"read", "queue", "answer", "done"} /\ overload' \in BOOLEAN
    BY DEF LoseRuntime, Types
  <1> QED  BY <1>1, <1>2, <1>3, <1>4, <1>5 DEF Types, LoseRuntime

\* Every step keeps the types.
LEMMA StepTypes == ASSUME Types, WriterInv, [Next]_vars PROVE Types'
  <1>1. CASE UNCHANGED vars
    BY <1>1 DEF Types, vars, ends, callers, steps, ids, outcome, writer, reader, peer
  <1>2. CASE Next
    BY <1>2, CallerTypes, DriverTypes, TaskTypes, WriterTypes, ReaderTypes, OutsideTypes, LossTypes DEF Next
  <1> QED  BY <1>1, <1>2

-----------------------------------------------------------------------------
\* Tasks: who reaps, who takes over, who holds an entry.

\* finish() called by a worker or by the drop of the last handle.
LEMMA WorkerFinishEffect ==
    ASSUME Types, NEW r, NEW rt, FinishAs(r, rt, Cleanup, "none")
    PROVE  /\ phase' = "Closed"
           /\ phase = "Closed" => reason' = reason
           /\ phase # "Closed" => reason' = Reason(r)
           /\ \A u \in Tasks : u # Cleanup => tpc'[u] = tpc[u]
           /\ tpc'[Cleanup] = tpc[Cleanup] \/ tpc'[Cleanup] \in {"fail", "lost"}
  <1>1. tpc \in [Tasks -> TaskSteps]
    BY DEF Types
  <1> QED  BY <1>1, FinishEffect, Names

\* What moves no task but the cleanup, and that only by ending the connection.
Unmoved ==
    /\ \A u \in Tasks : u # Cleanup => tpc'[u] = tpc[u]
    /\ tpc'[Cleanup] = tpc[Cleanup] \/ (phase' = "Closed" /\ tpc'[Cleanup] \in {"fail", "lost"})
    /\ phase = "Closed" => phase' = "Closed"
    /\ UNCHANGED <<takeover, started, cleaned, gaveUp, complete>>
    /\ term' = "none" \/ term # "none" \/ term' = term

\* The workers, the peer and the last handle move no task.
LEMMA WorkersMoveNoTask ==
    ASSUME Types, WriterStep \/ ReaderStep \/ DropLast \/ OverloadStart \/ OverloadFinish
                  \/ PeerTerminate \/ PeerAnswer \/ PeerClose
    PROVE  Unmoved
  <1> USE DEF Unmoved, ends, callers, steps, ids, outcome
  <1>1. CASE WriterPick \/ WriterWrite \/ WriterComplete \/ WriterStop
    <2>1. UNCHANGED <<phase, tpc, takeover, started, cleaned, gaveUp, complete>>
      BY <1>1 DEF WriterPick, WriterWrite, WriterComplete, WriterStop
    <2>2. term # "none" \/ term' = term
      BY <1>1 DEF WriterPick, WriterWrite, WriterComplete, WriterStop
    <2> QED  BY <2>1, <2>2
  <1>2. CASE WriterFail \/ ReaderTerminated \/ ReaderFail \/ OverloadFinish
    <2>1. /\ \E r \in {"Error", "Terminated", "ChannelClosed"} : FinishAs(r, Main, Cleanup, "none")
          /\ UNCHANGED <<takeover, started, cleaned, gaveUp, complete, term>>
      BY <1>2 DEF WriterFail, ReaderTerminated, ReaderFail, OverloadFinish, Finish
    <2> QED  BY <2>1, WorkerFinishEffect
  <1>3. CASE ReadEof
    <2>1. \/ FinishAs("Error", Main, Cleanup, "none")
          \/ UNCHANGED <<phase, tpc>>
      BY <1>3 DEF ReadEof, Finish
    <2>2. UNCHANGED <<takeover, started, cleaned, gaveUp, complete, term>>
      BY <1>3 DEF ReadEof
    <2> QED  BY <2>1, <2>2, WorkerFinishEffect
  <1>4. CASE DropLast
    <2>1. /\ \E rt \in alive \cup {Main} : FinishAs("None", rt, Cleanup, "none")
          /\ UNCHANGED <<takeover, started, cleaned, gaveUp, complete, term>>
      BY <1>4 DEF DropLast
    <2> QED  BY <2>1, WorkerFinishEffect
  <1>5. CASE ReadTerminate \/ ReaderQueue \/ ReaderContinue \/ ReadTerminateResp \/ ReaderStop
    <2>1. UNCHANGED <<tpc, takeover, started, cleaned, gaveUp, complete>> /\ (term' = "none" \/ term' = term)
      BY <1>5 DEF ReadTerminate, ReaderQueue, ReaderContinue, ReadTerminateResp, ReaderStop
    <2>2. phase = "Closed" => phase' = "Closed"
      BY <1>5 DEF ReadTerminate, ReaderQueue, ReaderContinue, ReadTerminateResp, ReaderStop
    <2> QED  BY <2>1, <2>2
  <1>6. CASE OverloadStart \/ PeerTerminate \/ PeerAnswer \/ PeerClose
    <2>1. /\ UNCHANGED <<tpc, takeover, started, cleaned, gaveUp, complete, term>>
          /\ phase = "Closed" => phase' = "Closed"
      BY <1>6 DEF OverloadStart, PeerTerminate, PeerAnswer, PeerClose
    <2> QED  BY <2>1
  <1> QED  BY <1>1, <1>2, <1>3, <1>4, <1>5, <1>6 DEF WriterStep, ReaderStep

\* A step of a caller or a task moves that one task alone ...
Moves(t, from, to) ==
    /\ tpc[t] \in from /\ tpc'[t] \in to
    /\ \A u \in Tasks : u # t => tpc'[u] = tpc[u]

\* ... or, if it calls finish(), may start the cleanup with it.
Closes(t, from, to) ==
    /\ phase' = "Closed" /\ t # Cleanup /\ tpc[t] \in from /\ tpc'[t] = to
    /\ \A u \in Tasks : u # t /\ u # Cleanup => tpc'[u] = tpc[u]
    /\ tpc'[Cleanup] = tpc[Cleanup] \/ tpc'[Cleanup] \in {"fail", "lost"}

\* The driver's own steps.
LEMMA DriverMoves ==
    ASSUME Types, DriverStep
    PROVE  /\ UNCHANGED <<takeover, started, cleaned, gaveUp, complete>>
           /\ phase = "Closed" => phase' = "Closed"
           /\ \/ Moves(Driver, {"drain"}, {"send"}) /\ term' = "set"
              \/ Closes(Driver, {"drain"}, "closed") /\ term' = term
              \/ Moves(Driver, {"send", "written", "answer"}, {"written", "answer", "finish"}) /\ term' = term
              \/ Moves(Driver, {"unpend"}, {"closed"}) /\ term' = "none"
  <1> USE Names DEF Types, ends, callers, steps, ids, outcome
  <1>1. CASE DriverPend
    <2>1. UNCHANGED <<takeover, started, cleaned, gaveUp, complete>> /\ tpc[Driver] = "drain"
      BY <1>1 DEF DriverPend
    <2>2. CASE term' = "set" /\ Go(Driver, "send") /\ UNCHANGED <<ends, home>>
      <3>1. Moves(Driver, {"drain"}, {"send"}) /\ phase' = phase
        BY <2>1, <2>2 DEF Moves, Go
      <3> QED  BY <2>1, <2>2, <3>1
    <2>3. CASE FinishAs("ChannelClosed", home[Driver], Driver, "closed") /\ term' = term
      <3>1. Closes(Driver, {"drain"}, "closed")
        <4>1. tpc \in [Tasks -> TaskSteps]
          OBVIOUS
        <4>2. /\ phase' = "Closed" /\ tpc'[Driver] = "closed"
              /\ \A u \in Tasks : u # Driver /\ u # Cleanup => tpc'[u] = tpc[u]
              /\ tpc'[Cleanup] = tpc[Cleanup] \/ tpc'[Cleanup] \in {"fail", "lost"}
          BY ONLY <2>3, <4>1, FinishEffect, Names
        <4> QED  BY <2>1, <4>2 DEF Closes
      <3> QED  BY <2>1, <2>3, <3>1 DEF Closes
    <2> QED  BY <1>1, <2>2, <2>3 DEF DriverPend
  <1>2. CASE DriverSend \/ DriverAwait \/ DriverTimeout
    <2>1. UNCHANGED <<takeover, started, cleaned, gaveUp, complete, phase, term>>
      BY <1>2 DEF DriverSend, DriverAwait, DriverTimeout
    <2>2. /\ tpc[Driver] \in {"send", "written", "answer"}
          /\ \E s \in {"written", "answer", "finish"} : Go(Driver, s)
      BY <1>2 DEF DriverSend, DriverAwait, DriverTimeout
    <2>3. Moves(Driver, {"send", "written", "answer"}, {"written", "answer", "finish"})
      BY <2>2 DEF Moves, Go
    <2> QED  BY <2>1, <2>3
  <1>3. CASE DriverUnpend
    <2>1. UNCHANGED <<takeover, started, cleaned, gaveUp, complete, phase>> /\ term' = "none"
      BY <1>3 DEF DriverUnpend
    <2>2. Moves(Driver, {"unpend"}, {"closed"})
      BY <1>3 DEF DriverUnpend, Moves, Go
    <2> QED  BY <2>1, <2>2
  <1> QED  BY <1>1, <1>2, <1>3 DEF DriverStep

\* The same of the tasks that finish, reap and clean up.
LEMMA TaskMoves ==
    ASSUME Types, ReapInv, NEW t \in Tasks, TaskStep(t)
    PROVE  /\ UNCHANGED started /\ (t # Driver /\ tpc'[t] = "done" /\ t # Cleanup => takeover' = FALSE)
           /\ (tpc'[t] # "done" \/ t \in {Driver, Cleanup} => takeover' = takeover)
           /\ phase = "Closed" => phase' = "Closed"
           /\ (cleaned => cleaned') /\ (gaveUp => gaveUp')
           /\ \/ Closes(t, {"finish"}, IF t = Driver THEN "unpend" ELSE "closed") /\ UNCHANGED <<term, complete>>
              \/ Closes(t, {"closed"}, "cleanup") /\ UNCHANGED <<term, complete>>
              \/ Moves(t, {"cleanup"}, {"fail"}) /\ t # Cleanup /\ UNCHANGED <<term, complete>>
              \/ Moves(t, {"cleanup"}, {"end"}) /\ t # Cleanup /\ cleaned /\ UNCHANGED <<term, complete>>
              \/ Moves(t, {"fail"}, {"publish"}) /\ UNCHANGED <<term, complete>>
              \/ Moves(t, {"publish"}, {"publish"}) /\ UNCHANGED <<term, complete>>
              \/ Moves(t, {"publish"}, {IF t = Cleanup THEN "done" ELSE "end"}) /\ cleaned' /\ term' = "none" /\ UNCHANGED complete
              \/ Moves(t, {"publish"}, {"end"}) /\ t # Cleanup /\ gaveUp' /\ UNCHANGED <<term, complete>>
              \/ Moves(t, {"end"}, {"done"}) /\ t # Cleanup /\ UNCHANGED term
  <1> USE DEF ends, callers, steps, ids, outcome
  <1>0. /\ tpc \in [Tasks -> TaskSteps] /\ tpc[Cleanup] \in {"none", "fail", "publish", "done", "lost"}
        /\ takeover \in BOOLEAN /\ cleaned \in BOOLEAN /\ gaveUp \in BOOLEAN
    BY DEF Types, ReapInv
  <1>1. CASE TaskFinish(t)
    <2>1. t # Cleanup /\ UNCHANGED <<takeover, started, cleaned, gaveUp, complete, term>>
      BY <1>0, <1>1 DEF TaskFinish
    <2> DEFINE s == IF t = Driver THEN "unpend" ELSE "closed"
    <2>2. FinishAs("None", home[t], t, s) /\ tpc[t] = "finish"
      BY <1>1 DEF TaskFinish
    <2>3. s # "done"
      OBVIOUS
    <2> HIDE DEF s
    <2>4. /\ phase' = "Closed" /\ tpc'[t] = s
          /\ \A u \in Tasks : u # t /\ u # Cleanup => tpc'[u] = tpc[u]
          /\ tpc'[Cleanup] = tpc[Cleanup] \/ tpc'[Cleanup] \in {"fail", "lost"}
      BY ONLY <1>0, <2>1, <2>2, FinishEffect, t \in Tasks
    <2>5. Closes(t, {"finish"}, s)
      BY <2>1, <2>2, <2>4 DEF Closes
    <2>6. Closes(t, {"finish"}, IF t = Driver THEN "unpend" ELSE "closed")
      BY <2>5 DEF s
    <2> QED  BY <2>1, <2>3, <2>4, <2>6
  <1>2. CASE ReapClosed(t)
    <2>1. t # Cleanup /\ UNCHANGED <<takeover, started, cleaned, gaveUp, complete, term>>
      BY <1>0, <1>2 DEF ReapClosed
    <2>2. FinishAs("None", home[t], t, "cleanup") /\ tpc[t] = "closed"
      BY <1>2 DEF ReapClosed
    <2>4. /\ phase' = "Closed" /\ tpc'[t] = "cleanup"
          /\ \A u \in Tasks : u # t /\ u # Cleanup => tpc'[u] = tpc[u]
          /\ tpc'[Cleanup] = tpc[Cleanup] \/ tpc'[Cleanup] \in {"fail", "lost"}
      BY ONLY <1>0, <2>1, <2>2, FinishEffect, t \in Tasks
    <2>5. Closes(t, {"closed"}, "cleanup")
      BY <2>1, <2>2, <2>4 DEF Closes
    <2> QED  BY <2>1, <2>4, <2>5
  <1>3. CASE ReapCleanup(t)
    <2>1. t # Cleanup /\ UNCHANGED <<takeover, started, cleaned, gaveUp, complete, term, phase>>
      BY <1>0, <1>3 DEF ReapCleanup
    <2>2. \/ Moves(t, {"cleanup"}, {"fail"}) /\ tpc'[t] = "fail"
          \/ Moves(t, {"cleanup"}, {"end"}) /\ cleaned /\ tpc'[t] = "end"
      BY <1>0, <1>3 DEF ReapCleanup, Moves, Go
    <2> QED  BY <2>1, <2>2
  <1>4. CASE FailDrain(t)
    <2>1. UNCHANGED <<takeover, started, cleaned, gaveUp, complete, term, phase>>
      BY <1>4 DEF FailDrain
    <2>2. Moves(t, {"fail"}, {"publish"}) /\ tpc'[t] = "publish"
      BY <1>0, <1>4 DEF FailDrain, Moves, Go
    <2> QED  BY <2>1, <2>2
  <1>5. CASE FailPublish(t)
    <2>1. UNCHANGED <<takeover, started, cleaned, gaveUp, complete, term, phase, tpc>> /\ tpc[t] = "publish"
      BY <1>5 DEF FailPublish
    <2>2. Moves(t, {"publish"}, {"publish"})
      BY <2>1 DEF Moves
    <2> QED  BY <2>1, <2>2
  <1>6. CASE Cleaned(t)
    <2>1. UNCHANGED <<takeover, started, gaveUp, complete, phase>> /\ cleaned' /\ term' = "none"
      BY <1>6 DEF Cleaned
    <2>2. /\ Moves(t, {"publish"}, {IF t = Cleanup THEN "done" ELSE "end"})
          /\ tpc'[t] = IF t = Cleanup THEN "done" ELSE "end"
      BY <1>0, <1>6 DEF Cleaned, Moves, Go
    <2> QED  BY <2>1, <2>2
  <1>7. CASE FallbackTimeout(t)
    <2>1. t # Cleanup /\ UNCHANGED <<takeover, started, cleaned, complete, term, phase>> /\ gaveUp'
      BY <1>7 DEF FallbackTimeout
    <2>2. Moves(t, {"publish"}, {"end"}) /\ tpc'[t] = "end"
      BY <1>0, <1>7 DEF FallbackTimeout, Moves, Go
    <2> QED  BY <2>1, <2>2
  <1>8. CASE ReapEnd(t)
    <2>1. t # Cleanup /\ UNCHANGED <<started, cleaned, gaveUp, term, phase>> /\ takeover' = (takeover /\ t = Driver)
      BY <1>0, <1>8 DEF ReapEnd
    <2>2. Moves(t, {"end"}, {"done"}) /\ tpc'[t] = "done"
      BY <1>0, <1>8 DEF ReapEnd, Moves, Go
    <2> QED  BY <1>0, <2>1, <2>2
  <1> QED  BY <1>1, <1>2, <1>3, <1>4, <1>5, <1>6, <1>7, <1>8 DEF TaskStep

\* The same of the callers: a first one starts the driver, one that found
\* no takeover under way starts its own.
LEMMA CallerMoves ==
    ASSUME Types, NEW c \in Callers, Close(c) \/ CallerWait(c) \/ CallerTakeover(c)
    PROVE  /\ UNCHANGED <<cleaned, gaveUp, complete, term>>
           /\ phase = "Closed" => phase' = "Closed"
           /\ \/ UNCHANGED <<tpc, takeover>> /\ (started => started')
              \/ Moves(Driver, TaskSteps, {"drain", "closed"}) /\ ~started /\ started' /\ UNCHANGED takeover
              \/ Moves(c, TaskSteps, {"finish"}) /\ ~takeover /\ takeover' /\ UNCHANGED started /\ cpc[c] = "take"
  <1> USE DEF ends, callers, steps, ids, outcome
  <1>0. tpc \in [Tasks -> TaskSteps] /\ takeover \in BOOLEAN /\ Driver \in Tasks /\ c \in Tasks
    BY Names DEF Types
  <1>1. CASE Close(c)
    <2>1. UNCHANGED <<cleaned, gaveUp, complete, term, takeover>> /\ (phase = "Closed" => phase' = "Closed")
      BY <1>1 DEF Close, BeginClosing
    <2>2. CASE started
      BY <1>1, <2>1, <2>2 DEF Close
    <2>3. CASE ~started
      <3>1. started' /\ \E s \in {"drain", "closed"} : Go(Driver, s)
        BY <1>1, <2>3 DEF Close
      <3>2. Moves(Driver, TaskSteps, {"drain", "closed"})
        BY <1>0, <3>1 DEF Moves, Go
      <3> QED  BY <2>1, <2>3, <3>1, <3>2
    <2> QED  BY <2>2, <2>3
  <1>2. CASE CallerWait(c)
    BY <1>2 DEF CallerWait
  <1>3. CASE CallerTakeover(c)
    <2>1. UNCHANGED <<cleaned, gaveUp, complete, term, started, phase>> /\ cpc[c] = "take"
      BY <1>3 DEF CallerTakeover
    <2>2. CASE UNCHANGED <<takeover, tpc>>
      BY <2>1, <2>2
    <2>3. CASE takeover' = TRUE /\ ~takeover /\ Go(c, "finish")
      <3>1. Moves(c, TaskSteps, {"finish"})
        BY <1>0, <2>3 DEF Moves, Go
      <3> QED  BY <2>1, <2>3, <3>1
    <2>4. CASE takeover' = TRUE /\ takeover /\ UNCHANGED tpc
      BY <1>0, <2>1, <2>4
    <2> QED  BY <1>0, <1>3, <2>2, <2>3, <2>4 DEF CallerTakeover
  <1> QED  BY <1>1, <1>2, <1>3

\* What the loss of a runtime leaves alone.
LEMMA LossLeaves ==
    ASSUME NEW rt \in Runtimes, LoseRuntime(rt)
    PROVE  UNCHANGED <<ends, started, pending, silent, outcome, term, respWritten, wire, seen, acked,
                       aborted, peer>>
  BY DEF LoseRuntime

-----------------------------------------------------------------------------
\* Reaping: after Closed, and complete only after a cleanup or its timeout.

\* It holds initially.
LEMMA InitReap == Init => ReapInv
  <1> SUFFICES ASSUME Init PROVE ReapInv
    OBVIOUS
  <1>1. \A t \in Tasks : tpc[t] = "none"
    BY DEF Init
  <1>2. complete = FALSE
    BY DEF Init
  <1> QED  BY <1>1, <1>2, Names DEF ReapInv, CompleteMeansCleaned

\* It is kept by every step.
LEMMA StepReap == ASSUME Types, ReapInv, Next PROVE ReapInv'
  <1> USE DEF ReapInv, CompleteMeansCleaned
  <1>1. ASSUME NEW c \in Callers, Close(c) \/ CallerWait(c) \/ CallerTakeover(c) PROVE ReapInv'
    <2>1. \/ UNCHANGED tpc
          \/ Moves(Driver, TaskSteps, {"drain", "closed"})
          \/ Moves(c, TaskSteps, {"finish"})
      BY <1>1, CallerMoves
    <2>2. UNCHANGED <<cleaned, gaveUp, complete>> /\ (phase = "Closed" => phase' = "Closed")
      BY <1>1, CallerMoves
    <2>3. \A t \in Tasks : tpc'[t] = tpc[t] \/ (t # Cleanup /\ tpc'[t] \in {"drain", "closed", "finish"})
      BY <2>1, Names DEF Moves
    <2> QED  BY <2>2, <2>3, Names
  <1>2. CASE DriverStep
    <2>1. UNCHANGED <<cleaned, gaveUp, complete>> /\ (phase = "Closed" => phase' = "Closed")
      BY <1>2, DriverMoves
    <2>2. \/ Moves(Driver, {"drain"}, {"send"})
          \/ Closes(Driver, {"drain"}, "closed")
          \/ Moves(Driver, {"send", "written", "answer"}, {"written", "answer", "finish"})
          \/ Moves(Driver, {"unpend"}, {"closed"})
      BY <1>2, DriverMoves
    <2>3. \A t \in Tasks :
             \/ tpc'[t] = tpc[t] \/ (t # Cleanup /\ tpc'[t] \in {"send", "written", "answer", "finish", "closed"})
             \/ t = Cleanup /\ tpc'[t] \in {"fail", "lost"} /\ phase' = "Closed"
      BY <2>2, Names DEF Moves, Closes
    <2> QED  BY <2>1, <2>3, Names
  <1>3. ASSUME NEW t \in Tasks, TaskStep(t) PROVE ReapInv'
    <2>1. (cleaned => cleaned') /\ (gaveUp => gaveUp') /\ (phase = "Closed" => phase' = "Closed")
      BY <1>3, TaskMoves
    <2>2. CASE Closes(t, {"finish"}, IF t = Driver THEN "unpend" ELSE "closed") /\ UNCHANGED complete
      <3>1. \A u \in Tasks :
               \/ tpc'[u] = tpc[u] \/ (u # Cleanup /\ tpc'[u] \in {"unpend", "closed"})
               \/ u = Cleanup /\ tpc'[u] \in {"fail", "lost"}
        BY <2>2, Names DEF Closes
      <3> QED  BY <2>1, <2>2, <3>1, Names DEF Closes
    <2>3. CASE Closes(t, {"closed"}, "cleanup") /\ UNCHANGED complete
      <3>1. \A u \in Tasks :
               \/ tpc'[u] = tpc[u] \/ (u # Cleanup /\ tpc'[u] = "cleanup")
               \/ u = Cleanup /\ tpc'[u] \in {"fail", "lost"}
        BY <2>3, Names DEF Closes
      <3> QED  BY <2>1, <2>3, <3>1, Names DEF Closes
    <2>4. CASE \/ Moves(t, {"cleanup"}, {"fail"}) /\ t # Cleanup /\ UNCHANGED complete
               \/ Moves(t, {"cleanup"}, {"end"}) /\ t # Cleanup /\ cleaned /\ UNCHANGED complete
               \/ Moves(t, {"fail"}, {"publish"}) /\ UNCHANGED complete
               \/ Moves(t, {"publish"}, {"publish"}) /\ UNCHANGED complete
               \/ Moves(t, {"publish"}, {IF t = Cleanup THEN "done" ELSE "end"}) /\ cleaned' /\ UNCHANGED complete
               \/ Moves(t, {"publish"}, {"end"}) /\ t # Cleanup /\ gaveUp' /\ UNCHANGED complete
      <3>1. phase = "Closed" /\ UNCHANGED complete
        BY <2>4 DEF Moves
      <3>2. \A u \in Tasks : tpc'[u] = tpc[u] \/ u = t
        BY <2>4 DEF Moves
      <3>3. tpc'[t] = "end" => cleaned' \/ gaveUp'
        BY <2>1, <2>4 DEF Moves
      <3>4. t = Cleanup => tpc'[t] \in {"publish", "done"}
        BY <2>4 DEF Moves
      <3>5. \A u \in Tasks : tpc'[u] = "end" => cleaned' \/ gaveUp'
        BY <2>1, <3>2, <3>3
      <3>6. tpc'[Cleanup] \in {"none", "fail", "publish", "done", "lost"}
        BY <3>2, <3>4, Names
      <3> QED  BY <2>1, <3>1, <3>5, <3>6
    <2>5. CASE Moves(t, {"end"}, {"done"}) /\ t # Cleanup
      <3>1. phase = "Closed" /\ (cleaned \/ gaveUp)
        BY <2>5 DEF Moves
      <3>2. tpc'[Cleanup] = tpc[Cleanup]
        BY <2>5, Names DEF Moves
      <3> QED  BY <2>1, <3>1, <3>2
    <2> QED  BY <1>3, <2>2, <2>3, <2>4, <2>5, TaskMoves
  <1>4. CASE WriterStep \/ ReaderStep \/ DropLast \/ OverloadStart \/ OverloadFinish
             \/ PeerTerminate \/ PeerAnswer \/ PeerClose
    <2>1. Unmoved
      BY <1>4, WorkersMoveNoTask
    <2>2. \A u \in Tasks : tpc'[u] = tpc[u] \/ (u = Cleanup /\ tpc'[u] \in {"fail", "lost"} /\ phase' = "Closed")
      BY <2>1 DEF Unmoved
    <2> QED  BY <2>1, <2>2, Names DEF Unmoved
  <1>5. ASSUME NEW rt \in Runtimes, LoseRuntime(rt) PROVE ReapInv'
    <2>1. \A t \in Tasks : tpc'[t] \in {tpc[t], "lost"}
      BY <1>5, LossEffect
    <2>2. UNCHANGED <<phase, cleaned, gaveUp, complete>>
      BY <1>5, LossLeaves DEF ends, outcome
    <2> QED  BY <2>1, <2>2, Names
  <1> QED  BY <1>1, <1>2, <1>3, <1>4, <1>5 DEF Next

-----------------------------------------------------------------------------
\* takeover_started is set exactly while one takeover runs.

\* In the beginning none does.
LEMMA InitLone == Init => Lone
  <1> SUFFICES ASSUME Init PROVE Lone
    OBVIOUS
  <1>1. takeover = FALSE /\ \A c \in Callers : tpc[c] = "none"
    BY Names DEF Init
  <1> QED  BY <1>1 DEF Lone, Ended

\* It does not change while no takeover begins or ends.
LEMMA LoneKept ==
    ASSUME Lone, takeover' = takeover, \A c \in Callers : (tpc'[c] \in Ended <=> tpc[c] \in Ended)
    PROVE  Lone'
  BY DEF Lone

\* Every step keeps it.
LEMMA StepLone == ASSUME Types, ReapInv, Lone, Next PROVE Lone'
  <1>1. ASSUME NEW c \in Callers, Close(c) \/ CallerWait(c) \/ CallerTakeover(c) PROVE Lone'
    <2>1. CASE UNCHANGED <<tpc, takeover>>
      BY <2>1, LoneKept
    <2>2. CASE Moves(Driver, TaskSteps, {"drain", "closed"}) /\ UNCHANGED takeover
      BY <2>2, LoneKept, Names DEF Moves
    <2>3. CASE Moves(c, TaskSteps, {"finish"}) /\ ~takeover /\ takeover'
      <3>1. \A d \in Callers : d # c => tpc'[d] = tpc[d] /\ tpc[d] \in Ended
        BY <2>3, Names DEF Moves, Lone
      <3>2. tpc'[c] \notin Ended
        BY <2>3 DEF Moves, Ended
      <3>3. \A d \in Callers : tpc'[d] \notin Ended <=> d = c
        BY <3>1, <3>2
      <3> QED  BY <2>3, <3>3 DEF Lone
    <2> QED  BY <1>1, <2>1, <2>2, <2>3, CallerMoves
  <1>2. CASE DriverStep
    <2>1. takeover' = takeover /\ \A c \in Callers : tpc'[c] = tpc[c]
      BY <1>2, DriverMoves, Names DEF Moves, Closes
    <2> QED  BY <2>1, LoneKept
  <1>3. ASSUME NEW t \in Tasks, TaskStep(t) PROVE Lone'
    <2>1. CASE t \notin Callers
      <3>1. t \in {Driver, Cleanup}
        BY <2>1 DEF Tasks
      <3>2. \A c \in Callers : tpc'[c] = tpc[c]
        BY <1>3, <2>1, TaskMoves, Names DEF Moves, Closes
      <3>3. takeover' = takeover
        BY <1>3, <3>1, TaskMoves
      <3> QED  BY <3>2, <3>3, LoneKept
    <2>2. CASE t \in Callers
      <3>1. t # Driver /\ t # Cleanup
        BY <2>2, Names
      <3>2. /\ \A c \in Callers : c # t => tpc'[c] = tpc[c]
            /\ tpc[t] \notin Ended
        BY <1>3, <3>1, TaskMoves, Names DEF Moves, Closes, Ended
      <3>3. CASE tpc'[t] = "done"
        <4>1. takeover' = FALSE
          BY <1>3, <3>1, <3>3, TaskMoves
        <4>2. takeover
          BY <2>2, <3>2 DEF Lone
        <4>3. \A c \in Callers : c # t => tpc[c] \in Ended
          BY <2>2, <3>2, <4>2 DEF Lone
        <4>4. \A c \in Callers : tpc'[c] \in Ended
          BY <3>2, <3>3, <4>3 DEF Ended
        <4> QED  BY <4>1, <4>4 DEF Lone
      <3>4. CASE tpc'[t] # "done"
        <4>1. takeover' = takeover
          BY <1>3, <3>4, TaskMoves
        <4>2. tpc'[t] \notin Ended
          BY <1>3, <3>1, <3>4, TaskMoves DEF Moves, Closes, Ended
        <4>3. \A c \in Callers : (tpc'[c] \in Ended <=> tpc[c] \in Ended)
          BY <3>2, <4>2
        <4> QED  BY <4>1, <4>3, LoneKept
      <3> QED  BY <3>3, <3>4
    <2> QED  BY <2>1, <2>2
  <1>4. CASE WriterStep \/ ReaderStep \/ DropLast \/ OverloadStart \/ OverloadFinish
             \/ PeerTerminate \/ PeerAnswer \/ PeerClose
    <2>1. Unmoved
      BY <1>4, WorkersMoveNoTask
    <2>2. takeover' = takeover /\ \A c \in Callers : tpc'[c] = tpc[c]
      BY <2>1, Names DEF Unmoved
    <2> QED  BY <2>2, LoneKept
  <1>5. ASSUME NEW rt \in Runtimes, LoseRuntime(rt) PROVE Lone'
    <2>1. /\ takeover' = (takeover /\ \A c \in Callers : tpc'[c] = tpc[c])
          /\ \A c \in Callers : tpc'[c] = tpc[c] \/ (tpc'[c] = "lost" /\ tpc[c] \notin Ended)
      BY <1>5, LossEffect, Names
    <2>2. takeover \in BOOLEAN
      BY DEF Types
    <2>3. CASE \A c \in Callers : tpc'[c] = tpc[c]
      BY <2>1, <2>2, <2>3, LoneKept
    <2>4. CASE \E c \in Callers : tpc'[c] # tpc[c]
      <3>1. PICK c \in Callers : tpc'[c] # tpc[c]
        BY <2>4
      <3>2. tpc'[c] = "lost" /\ tpc[c] \notin Ended
        BY <2>1, <3>1
      <3>3. takeover
        BY <3>2 DEF Lone
      <3>4. \A d \in Callers : d # c => tpc[d] \in Ended
        BY <3>2, <3>3 DEF Lone
      <3>5. \A d \in Callers : tpc'[d] \in Ended
        BY <2>1, <3>2, <3>4 DEF Ended
      <3>6. takeover' = FALSE
        BY <2>1, <2>4
      <3> QED  BY <3>5, <3>6 DEF Lone
    <2> QED  BY <2>3, <2>4
  <1> QED  BY <1>1, <1>2, <1>3, <1>4, <1>5 DEF Next

\* One takeover, or none.
LEMMA LoneCounts == ASSUME Types, Lone PROVE TakeoverExact
  <1> DEFINE R == {c \in Callers : tpc[c] \notin Ended}
  <1>1. CASE takeover
    <2>1. PICK c \in Callers : \A d \in Callers : tpc[d] \notin Ended <=> d = c
      BY <1>1 DEF Lone
    <2>2. R = {c}
      BY <2>1
    <2>3. Cardinality(R) = 1
      BY <2>2, FS_Singleton
    <2> QED  BY <1>1, <2>3 DEF TakeoverExact
  <1>2. CASE ~takeover
    <2>1. R = {}
      BY <1>2 DEF Lone
    <2>2. Cardinality(R) = 0
      BY <2>1, FS_EmptySet
    <2> QED  BY <1>2, <2>2 DEF TakeoverExact
  <1> QED  BY <1>1, <1>2

-----------------------------------------------------------------------------
\* The driver's entry in pending_terminate.

\* There is none in the beginning.
LEMMA InitTerm == Init => TermInv
  BY Names DEF Init, TermInv

\* Every step keeps it: whoever comes back to an entry-less step removed it.
LEMMA StepTerm == ASSUME Types, ReapInv, TermInv, Next PROVE TermInv'
  <1> USE DEF TermInv
  <1>1. ASSUME NEW c \in Callers, Close(c) \/ CallerWait(c) \/ CallerTakeover(c) PROVE TermInv'
    <2>1. started \in BOOLEAN /\ term' = term
      BY <1>1, CallerMoves DEF Types
    <2>2. CASE UNCHANGED tpc /\ (started => started')
      BY <2>1, <2>2
    <2>3. CASE Moves(Driver, TaskSteps, {"drain", "closed"}) /\ ~started /\ started'
      BY <2>1, <2>3
    <2>4. CASE Moves(c, TaskSteps, {"finish"}) /\ UNCHANGED started
      BY <2>1, <2>4, Names DEF Moves
    <2> QED  BY <1>1, <2>2, <2>3, <2>4, CallerMoves
  <1>2. CASE DriverStep
    <2>1. started' = started /\ started
      BY <1>2, DriverMoves DEF Moves, Closes, Types
    <2>2. CASE Moves(Driver, {"drain"}, {"send"})
      BY <2>1, <2>2 DEF Moves
    <2>3. CASE Closes(Driver, {"drain"}, "closed") /\ term' = term
      BY <2>1, <2>3 DEF Closes
    <2>4. CASE Moves(Driver, {"send", "written", "answer"}, {"written", "answer", "finish"})
      BY <2>1, <2>4 DEF Moves
    <2>5. CASE term' = "none"
      BY <2>1, <2>5
    <2> QED  BY <1>2, <2>2, <2>3, <2>4, <2>5, DriverMoves
  <1>3. ASSUME NEW t \in Tasks, TaskStep(t) PROVE TermInv'
    <2>1. started' = started /\ (term' = "none" \/ term' = term)
      BY <1>3, TaskMoves
    <2>2. CASE t # Driver
      <3>1. tpc'[Driver] = tpc[Driver]
        BY <1>3, <2>2, TaskMoves, Names DEF Moves, Closes
      <3> QED  BY <2>1, <3>1
    <2>3. CASE t = Driver
      <3>1. tpc[Driver] # "none"
        BY <1>3, <2>3, TaskMoves DEF Moves, Closes
      <3>2. \/ tpc[Driver] = "finish" /\ tpc'[Driver] = "unpend"
            \/ tpc[Driver] \in {"closed", "cleanup", "fail", "publish", "end"}
        BY <1>3, <2>3, TaskMoves DEF Moves, Closes
      <3> QED  BY <2>1, <3>1, <3>2
    <2> QED  BY <2>2, <2>3
  <1>4. CASE WriterStep \/ ReaderStep \/ DropLast \/ OverloadStart \/ OverloadFinish
             \/ PeerTerminate \/ PeerAnswer \/ PeerClose
    <2>1. Unmoved
      BY <1>4, WorkersMoveNoTask
    <2> QED  BY <2>1, Names DEF Unmoved
  <1>5. ASSUME NEW rt \in Runtimes, LoseRuntime(rt) PROVE TermInv'
    <2>1. UNCHANGED <<started, term>>
      BY <1>5, LossLeaves
    <2>2. tpc'[Driver] = tpc[Driver] \/ (tpc'[Driver] = "lost" /\ tpc[Driver] # "none")
      BY <1>5, LossEffect, Names DEF Ended
    <2> QED  BY <2>1, <2>2
  <1> QED  BY <1>1, <1>2, <1>3, <1>4, <1>5 DEF Next

-----------------------------------------------------------------------------
\* The writer: what was written, and what was completed.

\* Who is no worker leaves it alone.
LEMMA OthersLeaveWorkers ==
    /\ \A c \in Callers : Close(c) \/ CallerWait(c) \/ CallerTakeover(c) => UNCHANGED <<writer, reader, peer, overload>>
    /\ \A t \in Tasks : TaskStep(t) => UNCHANGED <<writer, reader, peer, overload>>
    /\ DropLast => UNCHANGED <<writer, reader, peer, overload>>
    /\ OverloadStart \/ OverloadFinish => UNCHANGED <<writer, reader, peer>>
    /\ PeerTerminate \/ PeerAnswer \/ PeerClose => UNCHANGED <<writer, reader, overload>>
    /\ DriverStep => UNCHANGED <<respSig, wpc, batch, respWritten, wire, reader, peer, overload>>
  <1> USE DEF writer
  <1>1. \A c \in Callers : Close(c) \/ CallerWait(c) \/ CallerTakeover(c) => UNCHANGED <<writer, reader, peer, overload>>
    BY DEF Close, CallerWait, CallerTakeover
  <1>2. \A t \in Tasks : TaskStep(t) => UNCHANGED <<writer, reader, peer, overload>>
    BY DEF TaskStep, TaskFinish, ReapClosed, ReapCleanup, FailDrain, FailPublish, Cleaned, FallbackTimeout, ReapEnd
  <1>3. DropLast => UNCHANGED <<writer, reader, peer, overload>>
    BY DEF DropLast
  <1>4. OverloadStart \/ OverloadFinish => UNCHANGED <<writer, reader, peer>>
    BY DEF OverloadStart, OverloadFinish
  <1>5. PeerTerminate \/ PeerAnswer \/ PeerClose => UNCHANGED <<writer, reader, overload>>
    BY DEF PeerTerminate, PeerAnswer, PeerClose
  <1>6. DriverStep => UNCHANGED <<respSig, wpc, batch, respWritten, wire, reader, peer, overload>>
    BY DEF DriverStep, DriverPend, DriverSend, DriverAwait, DriverTimeout, DriverUnpend
  <1> QED  BY <1>1, <1>2, <1>3, <1>4, <1>5, <1>6

\* Nor does the reader, but for the response it queues.
LEMMA ReaderLeavesWriter ==
    ASSUME ReaderStep
    PROVE  /\ UNCHANGED <<wpc, batch, respWritten, wire, termSig, overload>>
           /\ UNCHANGED <<respSig, ctl>> \/ (respSig' = "none" /\ ctl' = Append(ctl, "RESP"))
  BY DEF ReaderStep, ReadTerminate, ReaderQueue, ReaderContinue, ReaderTerminated, ReadTerminateResp,
         ReadEof, ReaderFail, ReaderStop, writer

\* In the beginning nothing is written.
LEMMA InitWriter == Init => WriterInv
  <1> SUFFICES ASSUME Init PROVE WriterInv
    OBVIOUS
  <1>1. ToSet(<<>>) = {}
    BY DEF ToSet
  <1> QED  BY <1>1 DEF Init, WriterInv

\* Every step keeps the writer's invariant.
LEMMA StepWriter == ASSUME Types, WriterInv, Next PROVE WriterInv'
  <1> USE DEF WriterInv
  <1>1. CASE UNCHANGED <<wpc, batch, respWritten, wire>> /\ respSig' \in {respSig, "none"}
    BY <1>1
  <1>2. CASE WriterPick
    <2> PICK k \in 1 .. Len(ctl) :
               /\ batch' = Kept(SubSeq(ctl, 1, k))
               /\ wpc' = IF Kept(SubSeq(ctl, 1, k)) = <<>> THEN "pick" ELSE "write"
      BY <1>2 DEF WriterPick
    <2>1. ctl \in Seq(Frame) /\ Len(ctl) \in Nat
      BY DEF Types
    <2>2. SubSeq(ctl, 1, k) \in Seq(Frame)
      BY <2>1, FramesPart
    <2>3. respWritten => "TERM" \notin ToSet(batch')
      BY <2>2, KeptFrames
    <2>4. UNCHANGED <<respSig, respWritten, wire>> /\ wpc = "pick"
      BY <1>2 DEF WriterPick
    <2>5. wpc' \in {"pick", "write"} /\ (wpc' = "write" => batch' # <<>>)
      OBVIOUS
    <2> QED  BY <2>3, <2>4, <2>5
  <1>3. CASE WriterWrite
    <2>1. wire' = wire \o batch /\ UNCHANGED <<batch, respWritten, respSig>> /\ wpc = "write" /\ wpc' = "complete"
      BY <1>3 DEF WriterWrite
    <2>2. ToSet(wire') = ToSet(wire) \cup ToSet(batch)
      BY <2>1, FramesJoin DEF Types
    <2> QED  BY <2>1, <2>2
  <1>4. CASE WriterComplete
    <2>1. /\ wpc = "complete" /\ batch' = Tail(batch) /\ UNCHANGED wire
          /\ wpc' = IF Len(batch) = 1 THEN "pick" ELSE "complete"
      BY <1>4 DEF WriterComplete
    <2>2. /\ Tail(batch) \in Seq(Frame) /\ ToSet(batch) = {Head(batch)} \cup ToSet(Tail(batch))
          /\ Len(batch) = 1 => ToSet(Tail(batch)) = {}
          /\ Len(batch) # 1 => Tail(batch) # <<>>
      BY <2>1, FramesSplit DEF Types
    <2>3. CASE Head(batch) = "RESP"
      <3>1. respWritten' = TRUE /\ "RESP" \in ToSet(wire)
        BY <1>4, <2>1, <2>2, <2>3 DEF WriterComplete
      <3> QED  BY <2>1, <2>2, <3>1
    <2>4. CASE Head(batch) # "RESP"
      <3>1. UNCHANGED <<respWritten, respSig>>
        BY <1>4, <2>4 DEF WriterComplete
      <3> QED  BY <2>1, <2>2, <2>4, <3>1
    <2> QED  BY <2>3, <2>4
  <1>5. ASSUME WriterGone, UNCHANGED <<respWritten, wire>> PROVE WriterInv'
    <2>1. wpc' = "done" /\ (respSig' = "sent" => respSig = "sent")
      BY <1>5 DEF WriterGone, Dropped
    <2> QED  BY <1>5, <2>1
  <1>6. CASE WriterFail \/ WriterStop
    BY <1>5, <1>6 DEF WriterFail, WriterStop
  <1>7. ASSUME NEW rt \in Runtimes, LoseRuntime(rt) PROVE WriterInv'
    <2>1. UNCHANGED <<respWritten, wire>>
      BY <1>7, LossLeaves
    <2> QED  BY <1>1, <1>5, <1>7, <2>1, LossEffect
  <1>8. \A c \in Callers : Close(c) \/ CallerWait(c) \/ CallerTakeover(c) => WriterInv'
    BY <1>1, OthersLeaveWorkers DEF writer
  <1>9. (\A t \in Tasks : TaskStep(t) => WriterInv')
    BY <1>1, OthersLeaveWorkers DEF writer
  <1>10. DropLast \/ OverloadStart \/ OverloadFinish \/ PeerTerminate \/ PeerAnswer \/ PeerClose \/ DriverStep => WriterInv'
    BY <1>1, OthersLeaveWorkers DEF writer
  <1>11. ReaderStep => WriterInv'
    BY <1>1, ReaderLeavesWriter
  <1> QED  BY <1>2, <1>3, <1>4, <1>6, <1>7, <1>8, <1>9, <1>10, <1>11 DEF Next, WriterStep

\* The wire only grows, and by no TERMINATE once a response is on it.
LEMMA WireGrows ==
    ASSUME Types, WriterInv, [Next]_vars
    PROVE  /\ ToSet(wire) \subseteq ToSet(wire')
           /\ \A i \in Len(wire) + 1 .. Len(wire') : wire'[i] = "TERM" => "RESP" \notin ToSet(wire)
  <1>0. wire \in Seq(Frame) /\ batch \in Seq(Frame) /\ Len(wire) \in Nat
    BY DEF Types
  <1>1. CASE UNCHANGED wire
    BY <1>0, <1>1
  <1>2. CASE WriterWrite
    <2>1. wire' = wire \o batch /\ wpc = "write"
      BY <1>2 DEF WriterWrite
    <2>2. ToSet(wire) \subseteq ToSet(wire') /\ \A i \in Len(wire) + 1 .. Len(wire') : wire'[i] \in ToSet(batch)
      BY <1>0, <2>1, FramesJoin
    <2>3. "TERM" \in ToSet(batch) => "RESP" \notin ToSet(wire)
      BY <2>1 DEF WriterInv
    <2> QED  BY <2>2, <2>3
  <1>3. \A c \in Callers : Close(c) \/ CallerWait(c) \/ CallerTakeover(c) => wire' = wire
    BY OthersLeaveWorkers DEF writer
  <1>4. (\A t \in Tasks : TaskStep(t) => wire' = wire) /\ (\A rt \in Runtimes : LoseRuntime(rt) => wire' = wire)
    BY OthersLeaveWorkers, LossLeaves DEF writer
  <1>5. DropLast \/ OverloadStart \/ OverloadFinish \/ PeerTerminate \/ PeerAnswer \/ PeerClose \/ DriverStep => wire' = wire
    BY OthersLeaveWorkers DEF writer
  <1>6. ReaderStep => wire' = wire
    BY ReaderLeavesWriter
  <1>7. WriterPick \/ WriterComplete \/ WriterFail \/ WriterStop => wire' = wire
    BY DEF WriterPick, WriterComplete, WriterFail, WriterStop
  <1>8. UNCHANGED vars => wire' = wire
    BY DEF vars, writer
  <1> QED  BY <1>1, <1>2, <1>3, <1>4, <1>5, <1>6, <1>7, <1>8 DEF Next, WriterStep

-----------------------------------------------------------------------------
\* The peer's frames, and the entry that waits for its answer.

\* A closed connection stays closed, and a fault is not forgotten.
LEMMA Onward ==
    ASSUME Types, ReapInv, [Next]_vars
    PROVE  (phase = "Closed" => phase' = "Closed") /\ causes \subseteq causes'
  <1>1. \A c \in Callers : Close(c) \/ CallerWait(c) \/ CallerTakeover(c) => causes \subseteq causes'
    BY DEF Close, CallerWait, CallerTakeover, Blame
  <1>2. \A t \in Tasks : TaskStep(t) => causes \subseteq causes'
    BY DEF TaskStep, TaskFinish, ReapClosed, ReapCleanup, FailDrain, FailPublish, Cleaned, FallbackTimeout, ReapEnd, Blame
  <1>3. DriverStep => causes \subseteq causes'
    BY DEF DriverStep, DriverPend, DriverSend, DriverAwait, DriverTimeout, DriverUnpend, Blame
  <1>4. WriterStep => causes \subseteq causes'
    BY DEF WriterStep, WriterPick, WriterWrite, WriterComplete, WriterFail, WriterStop, Blame
  <1>5. ReaderStep => causes \subseteq causes'
    BY DEF ReaderStep, ReadTerminate, ReaderQueue, ReaderContinue, ReaderTerminated, ReadTerminateResp,
           ReadEof, ReaderFail, ReaderStop, Blame
  <1>6. DropLast \/ OverloadStart \/ OverloadFinish \/ PeerTerminate \/ PeerAnswer \/ PeerClose => causes \subseteq causes'
    BY DEF DropLast, OverloadStart, OverloadFinish, PeerTerminate, PeerAnswer, PeerClose, Blame
  <1>7. \A rt \in Runtimes : LoseRuntime(rt) => phase' = phase /\ causes \subseteq causes'
    BY LossLeaves DEF LoseRuntime, Blame, ends
  <1>8. UNCHANGED vars => phase' = phase /\ causes \subseteq causes'
    BY DEF vars, ends
  <1> QED  BY <1>1, <1>2, <1>3, <1>4, <1>5, <1>6, <1>7, <1>8, CallerMoves, DriverMoves, TaskMoves, WorkersMoveNoTask
           DEF Next, Unmoved

\* In the beginning the peer has sent nothing.
LEMMA InitInbox == Init => InboxInv /\ EntryInv
  <1> SUFFICES ASSUME Init PROVE InboxInv /\ EntryInv
    OBVIOUS
  <1>1. Len(<<>>) = 0 /\ ToSet(<<>>) = {}
    BY DEF ToSet
  <1>2. 1 .. Len(inbox) = {}
    BY <1>1 DEF Init
  <1>3. InboxInv
    BY <1>2 DEF Init, InboxInv
  <1>4. EntryInv
    BY <1>1, Names DEF Init, EntryInv
  <1> QED  BY <1>3, <1>4

\* A step that takes no frame of the peer's, and adds none, keeps the invariant.
LEMMA InboxKept ==
    ASSUME InboxInv, UNCHANGED <<inbox, eof, terms, answered, seen, acked>>,
           rpc' \in {rpc, "done"} \/ (rpc' = "answer" /\ rpc = "queue") \/ (rpc' = "read" /\ rpc = "answer"),
           ToSet(wire) \subseteq ToSet(wire'), phase = "Closed" => phase' = "Closed", causes \subseteq causes'
    PROVE  InboxInv'
  BY DEF InboxInv

\* Every step keeps the invariant.
LEMMA StepInbox == ASSUME Types, ReapInv, WriterInv, InboxInv, EntryInv, Next PROVE InboxInv'
  <1>0. /\ ToSet(wire) \subseteq ToSet(wire') /\ (phase = "Closed" => phase' = "Closed") /\ causes \subseteq causes'
        /\ inbox \in Seq(Frame)
    BY Onward, WireGrows DEF Types
  <1>1. CASE /\ UNCHANGED <<inbox, eof, terms, answered, seen, acked>>
             /\ rpc' \in {rpc, "done"} \/ (rpc' = "answer" /\ rpc = "queue") \/ (rpc' = "read" /\ rpc = "answer")
    BY <1>0, <1>1, InboxKept
  <1>2. ASSUME inbox # <<>>
        PROVE  /\ Len(inbox) \in Nat \ {0} /\ Len(Tail(inbox)) = Len(inbox) - 1 /\ Head(inbox) = inbox[1]
               /\ \A i \in 1 .. Len(inbox) - 1 : Tail(inbox)[i] = inbox[i + 1] /\ i + 1 \in 1 .. Len(inbox)
               /\ Tail(inbox) # <<>> => Len(inbox) # 1 /\ Tail(inbox)[Len(inbox) - 1] = inbox[Len(inbox)]
    <2>1. /\ Len(inbox) \in Nat \ {0} /\ Len(Tail(inbox)) = Len(inbox) - 1 /\ Head(inbox) = inbox[1]
          /\ \A i \in 1 .. Len(inbox) - 1 : Tail(inbox)[i] = inbox[i + 1] /\ i + 1 \in 1 .. Len(inbox)
      BY <1>0, <1>2
    <2>2. Tail(inbox) # <<>> => Len(Tail(inbox)) # 0
      <3>1. Tail(inbox) \in Seq(Frame)
        BY <1>0, <1>2
      <3> QED  BY <3>1, EmptySeq
    <2>3. Len(inbox) # 1 => Len(inbox) - 1 \in 1 .. Len(inbox) - 1 /\ (Len(inbox) - 1) + 1 = Len(inbox)
      BY <2>1
    <2> QED  BY <2>1, <2>2, <2>3
  <1>3. CASE ReadTerminate
    <2>1. /\ inbox # <<>> /\ inbox' = Tail(inbox) /\ seen' /\ rpc = "read" /\ rpc' = "queue"
          /\ UNCHANGED <<eof, terms, answered, acked>> /\ Head(inbox) = "TERM"
      BY <1>3 DEF ReadTerminate
    <2>2. terms > 0
      <3>1. 1 \in 1 .. Len(inbox) /\ inbox[1] = "TERM"
        BY <1>2, <2>1
      <3> QED  BY <3>1 DEF InboxInv
    <2>3. ~acked
      BY <2>1 DEF InboxInv
    <2>4. \A i \in 1 .. Len(inbox') : inbox'[i] = "RESP" => i = Len(inbox') /\ answered
      <3> SUFFICES ASSUME NEW i \in 1 .. Len(inbox) - 1, inbox[i + 1] = "RESP" PROVE i = Len(inbox) - 1 /\ answered
        BY <1>2, <2>1
      <3>1. i + 1 = Len(inbox) /\ answered
        BY <1>2, <2>1 DEF InboxInv
      <3> QED  BY <1>2, <2>1, <3>1
    <2>5. answered /\ phase' # "Closed" => inbox' # <<>> /\ inbox'[Len(inbox')] = "RESP"
      <3> SUFFICES ASSUME answered, phase # "Closed" PROVE Tail(inbox) # <<>> /\ Tail(inbox)[Len(inbox) - 1] = "RESP"
        BY <1>0, <1>2, <2>1
      <3>1. inbox[Len(inbox)] = "RESP"
        BY <2>3 DEF InboxInv
      <3>2. Len(inbox) # 1
        BY <1>2, <2>1, <3>1
      <3>3. Len(Tail(inbox)) # 0
        BY <1>2, <2>1, <3>2
      <3>4. Len(<<>>) = 0
        OBVIOUS
      <3>5. Tail(inbox) # <<>>
        BY <3>3, <3>4
      <3> QED  BY <1>2, <2>1, <3>1, <3>5
    <2>6. answered => "TERM" \in ToSet(wire')
      BY <1>0 DEF InboxInv
    <2>7. eof # "open" => "fault" \in causes' \/ (answered /\ eof = "clean")
      BY <1>0 DEF InboxInv
    <2>8. \A i \in 1 .. Len(inbox') : inbox'[i] = "TERM" => terms' > 0
      BY <2>1, <2>2
    <2> QED  BY <2>1, <2>2, <2>3, <2>4, <2>5, <2>6, <2>7, <2>8 DEF InboxInv
  <1>4. CASE ReadTerminateResp
    <2>1. /\ inbox # <<>> /\ inbox' = Tail(inbox) /\ rpc = "read" /\ rpc' = "read" /\ phase # "Closed"
          /\ UNCHANGED <<eof, terms, answered, seen>> /\ Head(inbox) = "RESP" /\ acked' = (acked \/ term # "none")
      BY <1>4 DEF ReadTerminateResp, writer
    <2>2. Len(inbox) = 1 /\ answered
      <3>1. 1 \in 1 .. Len(inbox) /\ inbox[1] = "RESP"
        BY <1>2, <2>1
      <3> QED  BY <3>1 DEF InboxInv
    <2>3. inbox' = <<>> /\ Len(inbox') = 0
      <3>1. Len(Tail(inbox)) = 0 /\ Tail(inbox) \in Seq(Frame)
        BY <1>0, <1>2, <2>1, <2>2
      <3>2. Tail(inbox) = <<>>
        BY <3>1, EmptySeq
      <3> QED  BY <2>1, <3>1, <3>2
    <2>4. "TERM" \in ToSet(wire) /\ "TERM" \in ToSet(wire')
      BY <1>0, <2>2 DEF InboxInv
    <2>5. acked'
      BY <2>1, <2>4 DEF EntryInv
    <2>6. 1 .. Len(inbox') = {}
      BY <2>3
    <2>7. eof # "open" => "fault" \in causes' \/ (answered /\ eof = "clean")
      BY <1>0 DEF InboxInv
    <2>8. seen => terms > 0
      BY DEF InboxInv
    <2> QED  BY <2>1, <2>2, <2>3, <2>4, <2>5, <2>6, <2>7, <2>8 DEF InboxInv
  <1>5. ASSUME NEW f \in Frame, inbox' = Append(inbox, f)
        PROVE  /\ Len(inbox) \in Nat /\ Len(inbox') = Len(inbox) + 1 /\ inbox'[Len(inbox) + 1] = f /\ inbox' # <<>>
               /\ \A i \in 1 .. Len(inbox) : inbox'[i] = inbox[i]
               /\ 1 .. Len(inbox') = (1 .. Len(inbox)) \cup {Len(inbox) + 1}
    <2>1. /\ Len(inbox) \in Nat /\ Len(inbox') = Len(inbox) + 1 /\ inbox'[Len(inbox) + 1] = f
          /\ \A i \in 1 .. Len(inbox) : inbox'[i] = inbox[i]
      BY <1>0, <1>5
    <2>2. inbox' # <<>>
      BY <1>0, <1>5, FramesGrow
    <2>3. 1 .. Len(inbox') = (1 .. Len(inbox)) \cup {Len(inbox) + 1}
      BY <2>1
    <2> QED  BY <2>1, <2>2, <2>3
  <1>6. CASE PeerTerminate
    <2>1. /\ ~answered /\ UNCHANGED <<answered, eof, seen, acked, rpc>> /\ terms' = terms + 1
          /\ inbox' = Append(inbox, "TERM") /\ terms \in Nat /\ eof = "open"
      BY <1>6, Names DEF PeerTerminate, reader, Types
    <2>2. \A i \in 1 .. Len(inbox) : inbox[i] # "RESP"
      BY <2>1 DEF InboxInv
    <2>3. \A i \in 1 .. Len(inbox') : inbox'[i] # "RESP"
      BY <1>5, <2>1, <2>2, Names
    <2>4. terms' > 0
      BY <2>1
    <2>5. (rpc \in {"queue", "answer"} => seen) /\ ~acked
      BY <2>1 DEF InboxInv
    <2> QED  BY <2>1, <2>3, <2>4, <2>5 DEF InboxInv
  <1>7. CASE PeerAnswer
    <2>1. /\ ~answered /\ answered' /\ UNCHANGED <<terms, eof, seen, acked, rpc>> /\ "TERM" \in ToSet(wire)
          /\ inbox' = Append(inbox, "RESP") /\ eof = "open"
      BY <1>7 DEF PeerAnswer, reader
    <2>2. \A i \in 1 .. Len(inbox) : inbox[i] # "RESP"
      BY <2>1 DEF InboxInv
    <2>3. \A i \in 1 .. Len(inbox') : inbox'[i] = "RESP" => i = Len(inbox')
      BY <1>5, <2>1, <2>2, Names
    <2>4. inbox' # <<>> /\ inbox'[Len(inbox')] = "RESP"
      BY <1>5, <2>1, Names
    <2>5. (rpc \in {"queue", "answer"} => seen) /\ ~acked /\ (seen => terms > 0)
      BY <2>1 DEF InboxInv
    <2>6. \A i \in 1 .. Len(inbox') : inbox'[i] = "TERM" => terms > 0
      BY <1>5, <2>1, Names DEF InboxInv
    <2>7. "TERM" \in ToSet(wire')
      BY <1>0, <2>1
    <2> QED  BY <2>1, <2>3, <2>4, <2>5, <2>6, <2>7 DEF InboxInv
  <1>8. CASE PeerClose
    <2>1. /\ UNCHANGED <<inbox, terms, answered, seen, acked, rpc>>
          /\ "fault" \in causes' \/ (answered /\ eof' = "clean")
      BY <1>8 DEF PeerClose, reader, Blame
    <2> QED  BY <1>0, <2>1 DEF InboxInv
  <1>9. ReaderStep => InboxInv'
    <2>1. ReaderQueue \/ ReaderContinue \/ ReaderTerminated \/ ReadEof \/ ReaderFail \/ ReaderStop =>
              /\ UNCHANGED <<inbox, eof, terms, answered, seen, acked>>
              /\ rpc' \in {rpc, "done"} \/ (rpc' = "answer" /\ rpc = "queue") \/ (rpc' = "read" /\ rpc = "answer")
      BY DEF ReaderQueue, ReaderContinue, ReaderTerminated, ReadEof, ReaderFail, ReaderStop, peer
    <2> QED  BY <1>1, <1>3, <1>4, <2>1 DEF ReaderStep
  <1>10. WriterStep => UNCHANGED <<inbox, eof, terms, answered, seen, acked, rpc>>
    BY DEF WriterStep, WriterPick, WriterWrite, WriterComplete, WriterFail, WriterStop, reader, peer
  <1>11. \A rt \in Runtimes : LoseRuntime(rt) => UNCHANGED <<inbox, eof, terms, answered, seen, acked>> /\ rpc' \in {rpc, "done"}
    BY LossLeaves, LossEffect DEF peer
  <1>12. \A c \in Callers : Close(c) \/ CallerWait(c) \/ CallerTakeover(c) => UNCHANGED <<reader, peer>>
    BY OthersLeaveWorkers
  <1>13. \A t \in Tasks : TaskStep(t) => UNCHANGED <<reader, peer>>
    BY OthersLeaveWorkers
  <1>14. DropLast \/ OverloadStart \/ OverloadFinish \/ DriverStep => UNCHANGED <<reader, peer>>
    BY OthersLeaveWorkers
  <1>15. UNCHANGED <<reader, peer>> => InboxInv'
    BY <1>1 DEF reader, peer
  <1> QED  BY <1>1, <1>6, <1>7, <1>8, <1>9, <1>10, <1>11, <1>12, <1>13, <1>14, <1>15 DEF Next

\* Every step keeps an entry while a local TERMINATE is on its way.
LEMMA StepEntry == ASSUME Types, ReapInv, WriterInv, EntryInv, Next PROVE EntryInv'
  <1> USE DEF EntryInv
  <1>0. phase = "Closed" => phase' = "Closed"
    BY Onward
  <1>1. ASSUME phase' # "Closed" => term' # "none" \/ term = "none", acked => acked',
               phase' # "Closed" => tpc'[Driver] \in {tpc[Driver], "drain", "closed", "finish", "lost"}
                                    \/ tpc[Driver] \in {"send", "written", "answer"},
               ToSet(ctl') \subseteq ToSet(ctl) \cup {"RESP"},
               ToSet(batch') \subseteq ToSet(ctl) \cup ToSet(batch),
               ToSet(wire') \subseteq ToSet(wire) \cup ToSet(batch)
        PROVE  EntryInv'
    BY <1>0, <1>1
  <1>2. ASSUME NEW c \in Callers, Close(c) \/ CallerWait(c) \/ CallerTakeover(c) PROVE EntryInv'
    <2>1. tpc'[Driver] \in {tpc[Driver], "drain", "closed"}
      BY <1>2, CallerMoves, Names DEF Moves
    <2>2. UNCHANGED <<term, acked, ctl, batch, wire>>
      BY <1>2, CallerMoves, OthersLeaveWorkers DEF writer, reader
    <2> QED  BY <1>1, <2>1, <2>2
  <1>3. CASE DriverStep
    <2>1. UNCHANGED <<batch, wire, acked>>
      BY <1>3, OthersLeaveWorkers DEF reader
    <2>2. CASE DriverSend
      <3>1. tpc[Driver] = "send" /\ UNCHANGED <<term, phase>>
        BY <2>2 DEF DriverSend, ends
      <3> QED  BY <2>1, <3>1
    <2>3. CASE ~DriverSend
      <3>1. ctl' = ctl
        BY <1>3, <2>3 DEF DriverStep, DriverPend, DriverAwait, DriverTimeout, DriverUnpend, writer
      <3>2. CASE Moves(Driver, {"drain"}, {"send"}) /\ term' = "set"
        BY <3>2
      <3>3. CASE Closes(Driver, {"drain"}, "closed")
        BY <3>3 DEF Closes
      <3>4. CASE Moves(Driver, {"send", "written", "answer"}, {"written", "answer", "finish"}) /\ term' = term
        BY <1>0, <2>1, <3>1, <3>4 DEF Moves
      <3>5. CASE Moves(Driver, {"unpend"}, {"closed"})
        <4>1. phase = "Closed"
          BY <3>5, Names DEF ReapInv, Moves
        <4> QED  BY <1>0, <4>1
      <3> QED  BY <1>3, <3>2, <3>3, <3>4, <3>5, DriverMoves
    <2> QED  BY <2>2, <2>3
  <1>4. ASSUME NEW t \in Tasks, TaskStep(t) PROVE EntryInv'
    <2>1. UNCHANGED <<acked, ctl, batch, wire>>
      BY <1>4, OthersLeaveWorkers DEF writer, reader
    <2>2. term' = term \/ phase = "Closed"
      BY <1>4, TaskMoves DEF Moves, ReapInv
    <2>3. tpc'[Driver] = tpc[Driver] \/ t = Driver
      BY <1>4, TaskMoves, Names DEF Moves, Closes
    <2>4. t = Driver => phase' = "Closed"
      BY <1>0, <1>4, TaskMoves DEF Moves, Closes, ReapInv
    <2> QED  BY <1>0, <1>1, <2>1, <2>2, <2>3, <2>4
  <1>5. ASSUME WriterStep \/ ReaderStep \/ DropLast \/ OverloadStart \/ OverloadFinish
               \/ PeerTerminate \/ PeerAnswer \/ PeerClose
        PROVE  tpc'[Driver] = tpc[Driver]
    BY <1>5, WorkersMoveNoTask, Names DEF Unmoved
  <1>6. ASSUME WriterGone, UNCHANGED wire
        PROVE  /\ ToSet(ctl') \subseteq ToSet(ctl) \cup {"RESP"}
               /\ ToSet(batch') \subseteq ToSet(ctl) \cup ToSet(batch)
               /\ ToSet(wire') \subseteq ToSet(wire) \cup ToSet(batch)
    BY <1>6, WriterGoneTypes
  <1>7. CASE WriterStep
    <2>1. acked' = acked /\ (term' = term \/ term' # "none")
      BY <1>7 DEF WriterStep, WriterPick, WriterWrite, WriterComplete, WriterFail, WriterStop, reader
    <2>2. /\ ToSet(ctl') \subseteq ToSet(ctl) \cup {"RESP"}
          /\ ToSet(batch') \subseteq ToSet(ctl) \cup ToSet(batch)
          /\ ToSet(wire') \subseteq ToSet(wire) \cup ToSet(batch)
      <3>0. ctl \in Seq(Frame) /\ Len(ctl) \in Nat /\ batch \in Seq(Frame) /\ wire \in Seq(Frame)
        BY DEF Types
      <3>1. CASE WriterPick
        <4> PICK k \in 1 .. Len(ctl) : ctl' = SubSeq(ctl, k + 1, Len(ctl)) /\ batch' = Kept(SubSeq(ctl, 1, k))
          BY <3>1 DEF WriterPick
        <4>1. ToSet(ctl') \subseteq ToSet(ctl) /\ SubSeq(ctl, 1, k) \in Seq(Frame) /\ ToSet(SubSeq(ctl, 1, k)) \subseteq ToSet(ctl)
          BY <3>0, FramesPart
        <4>2. ToSet(batch') \subseteq ToSet(ctl)
          BY <4>1, KeptFrames
        <4>3. wire' = wire
          BY <3>1 DEF WriterPick
        <4> QED  BY <4>1, <4>2, <4>3
      <3>2. CASE WriterWrite
        <4>1. wire' = wire \o batch /\ UNCHANGED <<ctl, batch>>
          BY <3>2 DEF WriterWrite
        <4>2. ToSet(wire') = ToSet(wire) \cup ToSet(batch)
          BY <3>0, <4>1, FramesJoin
        <4> QED  BY <4>1, <4>2
      <3>3. CASE WriterComplete
        <4>1. batch' = Tail(batch) /\ UNCHANGED <<ctl, wire>> /\ batch # <<>>
          BY <3>3 DEF WriterComplete, WriterInv
        <4>2. ToSet(batch') \subseteq ToSet(batch)
          BY <3>0, <4>1, FramesSplit
        <4> QED  BY <4>1, <4>2
      <3>4. CASE WriterFail \/ WriterStop
        BY <1>6, <3>4 DEF WriterFail, WriterStop
      <3> QED  BY <1>7, <3>1, <3>2, <3>3, <3>4 DEF WriterStep
    <2> QED  BY <1>1, <1>5, <1>7, <2>1, <2>2
  <1>8. CASE ReaderStep
    <2>1. /\ UNCHANGED <<batch, wire>> /\ ToSet(ctl') \subseteq ToSet(ctl) \cup {"RESP"}
      BY <1>8, ReaderLeavesWriter, FramesGrow, Names DEF Types
    <2>2. CASE ReadTerminateResp
      <3>1. phase' = phase /\ acked' = (acked \/ term # "none") /\ UNCHANGED ctl
        BY <2>2 DEF ReadTerminateResp, ends, writer
      <3>2. tpc'[Driver] = tpc[Driver]
        BY <1>5, <1>8
      <3> QED  BY <2>1, <3>1, <3>2
    <2>3. CASE ~ReadTerminateResp
      <3>1. UNCHANGED <<term, acked>>
        BY <1>8, <2>3 DEF ReaderStep, ReadTerminate, ReaderQueue, ReaderContinue, ReaderTerminated, ReadEof, ReaderFail, ReaderStop
      <3> QED  BY <1>1, <1>5, <1>8, <2>1, <3>1
    <2> QED  BY <2>2, <2>3
  <1>9. CASE DropLast \/ OverloadStart \/ OverloadFinish \/ PeerTerminate \/ PeerAnswer \/ PeerClose
    <2>1. UNCHANGED <<acked, ctl, batch, wire>>
      BY <1>9, OthersLeaveWorkers DEF writer, reader
    <2>2. term' = term
      BY <1>9 DEF DropLast, OverloadStart, OverloadFinish, PeerTerminate, PeerAnswer, PeerClose
    <2> QED  BY <1>1, <1>5, <1>9, <2>1, <2>2
  <1>10. ASSUME NEW rt \in Runtimes, LoseRuntime(rt) PROVE EntryInv'
    <2>1. UNCHANGED <<term, acked, wire>> /\ tpc'[Driver] \in {tpc[Driver], "lost"}
      BY <1>10, LossLeaves, LossEffect, Names
    <2>2. /\ ToSet(ctl') \subseteq ToSet(ctl) \cup {"RESP"}
          /\ ToSet(batch') \subseteq ToSet(ctl) \cup ToSet(batch)
      BY <1>6, <1>10, <2>1, LossEffect
    <2> QED  BY <1>1, <2>1, <2>2
  <1> QED  BY <1>2, <1>3, <1>4, <1>7, <1>8, <1>9, <1>10 DEF Next

-----------------------------------------------------------------------------
\* What a fault, or somebody's haste, explains.

\* Nothing happened in the beginning.
LEMMA InitCause == Init => CauseInv
  BY Names DEF Init, CauseInv

\* Every step keeps the causes.
LEMMA StepCause == ASSUME Types, ReapInv, WriterInv, CauseInv, Next PROVE CauseInv'
  <1> USE DEF CauseInv, Late
  <1>0. (phase = "Closed" => phase' = "Closed") /\ causes \subseteq causes'
    BY Onward
  <1>1. ASSUME UNCHANGED cpc, \A c \in Callers : tpc'[c] = tpc[c] \/ tpc[c] # "none",
               overload' => overload, respWritten => respWritten',
               wpc' # "done" \/ wpc = "done", respSig' # "dropped" \/ respSig = "dropped",
               termSig' # "dropped" \/ termSig = "dropped"
        PROVE  CauseInv'
    BY <1>0, <1>1
  <1>2. ASSUME NEW c \in Callers, Close(c) \/ CallerWait(c) \/ CallerTakeover(c) PROVE CauseInv'
    <2>1. UNCHANGED <<overload, wpc, respSig, termSig, respWritten>>
      BY <1>2, OthersLeaveWorkers DEF writer
    <2>2. \/ cpc'[c] \notin {"take", "retry"} \/ "haste" \in causes' \/ cpc[c] = "take"
      BY <1>2 DEF Close, CallerWait, CallerTakeover, Blame, Types
    <2>3. \A d \in Callers : d # c => cpc'[d] = cpc[d]
      BY <1>2 DEF Close, CallerWait, CallerTakeover, Types
    <2>4. \A d \in Callers : tpc'[d] = tpc[d] \/ (d = c /\ cpc[c] = "take")
      BY <1>2, CallerMoves, Names DEF Moves
    <2> QED  BY <1>0, <2>1, <2>2, <2>3, <2>4
  <1>3. CASE DriverStep
    <2>1. UNCHANGED <<cpc, overload, wpc, respSig, respWritten>>
      BY <1>3, OthersLeaveWorkers DEF DriverStep, DriverPend, DriverSend, DriverAwait, DriverTimeout, DriverUnpend, callers
    <2>2. termSig' \in {termSig, "none"}
      BY <1>3 DEF DriverStep, DriverPend, DriverSend, DriverAwait, DriverTimeout, DriverUnpend, writer
    <2>3. \A c \in Callers : tpc'[c] = tpc[c]
      BY <1>3, DriverMoves, Names DEF Moves, Closes
    <2> QED  BY <1>1, <2>1, <2>2, <2>3
  <1>4. ASSUME NEW t \in Tasks, TaskStep(t) PROVE CauseInv'
    <2>1. UNCHANGED <<overload, wpc, respSig, termSig, respWritten>>
      BY <1>4, OthersLeaveWorkers DEF writer
    <2>2. UNCHANGED cpc
      BY <1>4 DEF TaskStep, TaskFinish, ReapClosed, ReapCleanup, FailDrain, FailPublish, Cleaned, FallbackTimeout, ReapEnd, callers
    <2>3. \A c \in Callers : tpc'[c] = tpc[c] \/ tpc[c] # "none"
      BY <1>4, TaskMoves, Names DEF Moves, Closes
    <2> QED  BY <1>1, <2>1, <2>2, <2>3
  <1>5. ASSUME WriterStep \/ ReaderStep \/ DropLast \/ OverloadStart \/ OverloadFinish
               \/ PeerTerminate \/ PeerAnswer \/ PeerClose
        PROVE  UNCHANGED cpc /\ \A c \in Callers : tpc'[c] = tpc[c]
    <2>1. \A c \in Callers : tpc'[c] = tpc[c]
      BY <1>5, WorkersMoveNoTask, Names DEF Unmoved
    <2>2. DropLast \/ OverloadStart \/ OverloadFinish \/ PeerTerminate \/ PeerAnswer \/ PeerClose => UNCHANGED cpc
      BY DEF DropLast, OverloadStart, OverloadFinish, PeerTerminate, PeerAnswer, PeerClose, callers
    <2>3. WriterStep => UNCHANGED cpc
      BY DEF WriterStep, WriterPick, WriterWrite, WriterComplete, WriterFail, WriterStop, callers
    <2>4. ReaderStep => UNCHANGED cpc
      BY DEF ReaderStep, ReadTerminate, ReaderQueue, ReaderContinue, ReaderTerminated, ReadTerminateResp, ReadEof, ReaderFail, ReaderStop, callers
    <2> QED  BY <1>5, <2>1, <2>2, <2>3, <2>4
  <1>6. CASE WriterPick
    <2>1. \E k \in 1 .. Len(ctl) : termSig' = IF Kept(SubSeq(ctl, 1, k)) # SubSeq(ctl, 1, k) THEN "dropped" ELSE termSig
      BY <1>6 DEF WriterPick
    <2>2. termSig' = termSig \/ respWritten
      BY <2>1 DEF Kept
    <2>3. UNCHANGED <<overload, respSig, respWritten>> /\ wpc' # "done"
      BY <1>6 DEF WriterPick
    <2> QED  BY <1>0, <1>5, <1>6, <2>2, <2>3 DEF WriterStep
  <1>7. CASE WriterWrite \/ WriterComplete
    <2>1. UNCHANGED overload /\ wpc' # "done" /\ respSig' \in {respSig, "sent"} /\ termSig' \in {termSig, "sent"}
          /\ (respWritten => respWritten')
      BY <1>7 DEF WriterWrite, WriterComplete
    <2> QED  BY <1>1, <1>5, <1>7, <2>1 DEF WriterStep
  <1>8. CASE WriterFail \/ WriterStop
    <2>1. phase' = "Closed"
      BY <1>0, <1>8, WorkerFinishEffect DEF WriterFail, WriterStop, Finish
    <2>2. UNCHANGED overload
      BY <1>8 DEF WriterFail, WriterStop
    <2> QED  BY <1>0, <1>5, <1>8, <2>1, <2>2 DEF WriterStep
  <1>9. CASE ReaderStep
    <2>1. UNCHANGED <<wpc, respWritten, termSig, overload>> /\ respSig' \in {respSig, "none"}
      BY <1>9, ReaderLeavesWriter
    <2> QED  BY <1>1, <1>5, <1>9, <2>1
  <1>10. CASE DropLast \/ OverloadStart \/ OverloadFinish \/ PeerTerminate \/ PeerAnswer \/ PeerClose
    <2>1. UNCHANGED <<wpc, respSig, termSig, respWritten>>
      BY <1>10, OthersLeaveWorkers DEF writer
    <2>2. overload' => overload \/ "overload" \in causes'
      BY <1>10, OthersLeaveWorkers DEF OverloadStart, OverloadFinish, Blame
    <2> QED  BY <1>0, <1>5, <1>10, <2>1, <2>2
  <1>11. ASSUME NEW rt \in Runtimes, LoseRuntime(rt) PROVE CauseInv'
    <2>1. "haste" \in causes' /\ (overload' => overload)
      BY <1>11, LossEffect
    <2> QED  BY <1>0, <2>1
  <1> QED  BY <1>2, <1>3, <1>4, <1>6, <1>7, <1>8, <1>9, <1>10, <1>11 DEF Next, WriterStep

-----------------------------------------------------------------------------
\* How a connection ends: by whom, and for which reason.

\* Only a reader reads a TERMINATE, and only of a connection not closed.
LEMMA SeenByReader ==
    ASSUME Next
    PROVE  \/ UNCHANGED seen
           \/ ReadTerminate
  <1>1. ReaderStep => UNCHANGED seen \/ ReadTerminate
    BY DEF ReaderStep, ReaderQueue, ReaderContinue, ReaderTerminated, ReadTerminateResp, ReadEof, ReaderFail, ReaderStop
  <1>2. WriterStep => UNCHANGED seen
    BY DEF WriterStep, WriterPick, WriterWrite, WriterComplete, WriterFail, WriterStop, reader
  <1>3. \A c \in Callers : Close(c) \/ CallerWait(c) \/ CallerTakeover(c) => UNCHANGED seen
    BY OthersLeaveWorkers DEF reader
  <1>4. \A t \in Tasks : TaskStep(t) => UNCHANGED seen
    BY OthersLeaveWorkers DEF reader
  <1>5. DropLast \/ OverloadStart \/ OverloadFinish \/ PeerTerminate \/ PeerAnswer \/ PeerClose \/ DriverStep => UNCHANGED seen
    BY OthersLeaveWorkers DEF reader
  <1>6. \A rt \in Runtimes : LoseRuntime(rt) => UNCHANGED seen
    BY LossLeaves
  <1> QED  BY <1>1, <1>2, <1>3, <1>4, <1>5, <1>6 DEF Next

\* Who closes the connection, and with what to say for it.
Ender(r) ==
    \/ r = "None" /\ ("drop" \in causes' \/ "haste" \in causes')
    \/ r = "None" /\ causes' = causes /\ \E t \in Callers \cup {Driver} : tpc[t] = "finish"
    \/ r \in {"Error", "ChannelClosed"} /\ "fault" \in causes'
    \/ r = "Terminated" /\ ReaderTerminated
    \/ r = "Error" /\ causes' = causes /\ rpc = "read" /\ eof # "open" /\ ~(acked /\ eof = "clean") /\ inbox = <<>>
    \/ r = "ChannelClosed" /\ overload /\ causes' = causes

\* There is no other way to close.
LEMMA Endings ==
    ASSUME Types, ReapInv, Next, phase # "Closed", phase' = "Closed"
    PROVE  \E r \in {"None", "Terminated", "ChannelClosed", "Error"} : reason' = Reason(r) /\ Ender(r)
  <1> DEFINE G == \E r \in {"None", "Terminated", "ChannelClosed", "Error"} : reason' = Reason(r) /\ Ender(r)
  <1> SUFFICES G
    OBVIOUS
  <1>0. tpc \in [Tasks -> TaskSteps] /\ phase \in {"Open", "Closing", "Closed"}
    BY DEF Types
  <1>1. ASSUME NEW c \in Callers, Close(c) \/ CallerWait(c) \/ CallerTakeover(c) PROVE FALSE
    BY <1>0, <1>1 DEF Close, CallerWait, CallerTakeover, BeginClosing, ends
  <1>2. CASE DriverPend
    <2>1. FinishAs("ChannelClosed", home[Driver], Driver, "closed") /\ "fault" \in causes'
      BY <1>2 DEF DriverPend, Blame, ends
    <2>2. reason' = Reason("ChannelClosed")
      BY <1>0, <2>1, FinishEffect, Names
    <2> QED  BY <2>1, <2>2 DEF Ender
  <1>3. CASE DriverSend \/ DriverAwait \/ DriverTimeout \/ DriverUnpend
    BY <1>3 DEF DriverSend, DriverAwait, DriverTimeout, DriverUnpend, ends
  <1>4. ASSUME NEW t \in Tasks, TaskFinish(t) PROVE G
    <2>1. FinishAs("None", home[t], t, IF t = Driver THEN "unpend" ELSE "closed") /\ tpc[t] = "finish" /\ causes' = causes
      BY <1>4 DEF TaskFinish
    <2>2. reason' = Reason("None")
      BY <1>0, <2>1, FinishEffect
    <2>3. t \in Callers \cup {Driver}
      BY <2>1 DEF ReapInv, Tasks
    <2> QED  BY <2>1, <2>2, <2>3 DEF Ender
  <1>5. ASSUME NEW t \in Tasks, ReapClosed(t) PROVE G
    <2>1. FinishAs("None", home[t], t, "cleanup") /\ "haste" \in causes'
      BY <1>5 DEF ReapClosed, Blame
    <2>2. reason' = Reason("None")
      BY <1>0, <2>1, FinishEffect
    <2> QED  BY <2>1, <2>2 DEF Ender
  <1>6. ASSUME NEW t \in Tasks,
               ReapCleanup(t) \/ FailDrain(t) \/ FailPublish(t) \/ Cleaned(t) \/ FallbackTimeout(t) \/ ReapEnd(t)
        PROVE  FALSE
    BY <1>6 DEF ReapCleanup, FailDrain, FailPublish, Cleaned, FallbackTimeout, ReapEnd, ends
  <1>7. ASSUME NEW r \in {"None", "Terminated", "ChannelClosed", "Error"}, Finish(r) PROVE reason' = Reason(r)
    BY <1>7, WorkerFinishEffect DEF Finish
  <1>8. CASE WriterFail \/ ReaderFail
    <2>1. Finish("Error") /\ "fault" \in causes'
      BY <1>8 DEF WriterFail, ReaderFail, Blame
    <2> QED  BY <1>7, <2>1 DEF Ender
  <1>9. CASE ReaderTerminated
    <2>1. Finish("Terminated")
      BY <1>9 DEF ReaderTerminated
    <2> QED  BY <1>7, <1>9, <2>1 DEF Ender
  <1>10. CASE ReadEof
    <2>1. /\ rpc = "read" /\ eof # "open" /\ ~(acked /\ eof = "clean") /\ inbox = <<>> /\ causes' = causes
          /\ Finish("Error")
      BY <1>10 DEF ReadEof, ends
    <2> QED  BY <1>7, <2>1 DEF Ender
  <1>11. CASE OverloadFinish
    <2>1. overload /\ causes' = causes /\ Finish("ChannelClosed")
      BY <1>11 DEF OverloadFinish
    <2> QED  BY <1>7, <2>1 DEF Ender
  <1>12. CASE DropLast
    <2>1. \E rt \in alive \cup {Main} : FinishAs("None", rt, Cleanup, "none")
      BY <1>12 DEF DropLast
    <2>2. reason' = Reason("None") /\ "drop" \in causes'
      BY <1>12, <2>1, WorkerFinishEffect DEF DropLast, Blame
    <2> QED  BY <2>2 DEF Ender
  <1>13. CASE WriterPick \/ WriterWrite \/ WriterComplete \/ WriterStop \/ ReaderQueue \/ ReaderContinue
              \/ ReadTerminateResp \/ ReaderStop \/ PeerTerminate \/ PeerAnswer \/ PeerClose
    BY <1>13 DEF WriterPick, WriterWrite, WriterComplete, WriterStop, ReaderQueue, ReaderContinue,
                 ReadTerminateResp, ReaderStop, PeerTerminate, PeerAnswer, PeerClose, ends
  <1>14. CASE ReadTerminate \/ OverloadStart
    BY <1>0, <1>14 DEF ReadTerminate, OverloadStart, BeginClosing
  <1>15. ASSUME NEW rt \in Runtimes, LoseRuntime(rt) PROVE FALSE
    BY <1>15, LossLeaves DEF ends
  <1> HIDE DEF G
  <1> QED
    BY <1>1, <1>2, <1>3, <1>4, <1>5, <1>6, <1>8, <1>9, <1>10, <1>11, <1>12, <1>13, <1>14, <1>15
       DEF Next, DriverStep, TaskStep, WriterStep, ReaderStep

\* The reason of a closed connection does not change.
LEMMA ReasonStays == ASSUME Types, Next, phase = "Closed" PROVE reason' = reason
  <1>0. tpc \in [Tasks -> TaskSteps]
    BY DEF Types
  <1>1. ASSUME NEW r, NEW rt, NEW t \in Tasks, NEW step, FinishAs(r, rt, t, step) PROVE reason' = reason
    BY <1>0, <1>1, FinishEffect
  <1> USE DEF ends
  <1>2. \A c \in Callers : Close(c) \/ CallerWait(c) \/ CallerTakeover(c) => reason' = reason
    BY DEF Close, CallerWait, CallerTakeover
  <1>3. DriverStep => reason' = reason
    BY <1>1, Names DEF DriverStep, DriverPend, DriverSend, DriverAwait, DriverTimeout, DriverUnpend
  <1>4. ASSUME NEW t \in Tasks, TaskStep(t) PROVE reason' = reason
    <2>1. TaskFinish(t) \/ ReapClosed(t) => reason' = reason
      BY <1>1 DEF TaskFinish, ReapClosed
    <2>2. ReapCleanup(t) \/ FailDrain(t) \/ FailPublish(t) \/ Cleaned(t) \/ FallbackTimeout(t) \/ ReapEnd(t) => reason' = reason
      BY DEF ReapCleanup, FailDrain, FailPublish, Cleaned, FallbackTimeout, ReapEnd
    <2> QED  BY <1>4, <2>1, <2>2 DEF TaskStep
  <1>5. ASSUME NEW r, Finish(r) PROVE reason' = reason
    BY <1>1, <1>5, Names DEF Finish
  <1>6. WriterStep => reason' = reason
    BY <1>5 DEF WriterStep, WriterPick, WriterWrite, WriterComplete, WriterFail, WriterStop
  <1>7. ReaderStep => reason' = reason
    BY <1>5 DEF ReaderStep, ReadTerminate, ReaderQueue, ReaderContinue, ReaderTerminated, ReadTerminateResp,
           ReadEof, ReaderFail, ReaderStop
  <1>8. DropLast \/ OverloadStart \/ OverloadFinish \/ PeerTerminate \/ PeerAnswer \/ PeerClose => reason' = reason
    BY <1>1, <1>5, Names DEF DropLast, OverloadStart, OverloadFinish, PeerTerminate, PeerAnswer, PeerClose
  <1>9. \A rt \in Runtimes : LoseRuntime(rt) => reason' = reason
    BY LossLeaves
  <1> QED  BY <1>2, <1>3, <1>4, <1>6, <1>7, <1>8, <1>9 DEF Next

\* In the beginning the connection is open.
LEMMA InitAnswer == Init => AnswerInv
  BY Names DEF Init, AnswerInv, PeerAnswered, NormalEnd

\* A TERMINATE that was read is answered, or something explains why not.
LEMMA StepAnswered ==
    ASSUME Types, ReapInv, WriterInv, InboxInv, CauseInv, AnswerInv, Next
    PROVE  PeerAnswered'
  <1> SUFFICES ASSUME phase' = "Closed", seen', causes' = {} PROVE "RESP" \in ToSet(wire')
    BY DEF PeerAnswered
  <1>0. causes = {} /\ ToSet(wire) \subseteq ToSet(wire') /\ seen \in BOOLEAN
    BY Onward, WireGrows DEF Types
  <1> SUFFICES "RESP" \in ToSet(wire)
    BY <1>0
  <1>1. seen
    <2>1. ~ReadTerminate
      BY DEF ReadTerminate, BeginClosing
    <2> QED  BY <2>1, SeenByReader
  <1>2. CASE phase = "Closed"
    BY <1>0, <1>1, <1>2 DEF AnswerInv, PeerAnswered
  <1>3. CASE phase # "Closed"
    <2>1. PICK r \in {"None", "Terminated", "ChannelClosed", "Error"} : Ender(r)
      BY <1>3, Endings
    <2>2. rpc \notin {"queue", "answer"} => "RESP" \in ToSet(wire)
      BY <1>0, <1>1, <1>3 DEF AnswerInv
    <2>3. ASSUME NEW t \in Callers \cup {Driver}, tpc[t] = "finish" PROVE "RESP" \in ToSet(wire)
      <3>1. t = Driver
        BY <1>0, <2>3 DEF CauseInv
      <3>2. acked \/ "RESP" \in ToSet(wire)
        BY <1>0, <1>3, <2>3, <3>1 DEF AnswerInv
      <3>3. acked => rpc \notin {"queue", "answer"}
        BY DEF InboxInv
      <3> QED  BY <2>2, <3>2, <3>3
    <2>4. ASSUME ReaderTerminated PROVE "RESP" \in ToSet(wire)
      <3>1. wpc # "done" /\ respSig # "dropped"
        BY <1>0, <1>3 DEF CauseInv, Late
      <3>2. "haste" \notin causes'
        OBVIOUS
      <3>3. respSig = "sent"
        BY <1>3, <2>4, <3>1, <3>2 DEF ReaderTerminated, Blame
      <3> QED  BY <3>3 DEF WriterInv
    <2>5. ~overload
      BY <1>0 DEF CauseInv
    <2>6. rpc = "read" => "RESP" \in ToSet(wire)
      BY <2>2
    <2> QED  BY <1>0, <2>1, <2>3, <2>4, <2>5, <2>6 DEF Ender
  <1> QED  BY <1>2, <1>3

\* Without a fault and a TERMINATE of the peer's there is no reason.
LEMMA StepNormal ==
    ASSUME Types, ReapInv, WriterInv, InboxInv, CauseInv, AnswerInv, Next
    PROVE  NormalEnd'
  <1> SUFFICES ASSUME phase' = "Closed", terms' = 0, causes' \subseteq {"haste", "drop"} PROVE reason' = "None"
    BY DEF NormalEnd
  <1>0. causes \subseteq {"haste", "drop"} /\ terms \in Nat
    BY Onward, Names DEF Types
  <1>1. terms = 0
    <2>1. terms' = terms \/ terms' = terms + 1
      <3>1. \A c \in Callers : Close(c) \/ CallerWait(c) \/ CallerTakeover(c) => terms' = terms
        BY OthersLeaveWorkers DEF peer
      <3>2. \A t \in Tasks : TaskStep(t) => terms' = terms
        BY OthersLeaveWorkers DEF peer
      <3>3. DropLast \/ OverloadStart \/ OverloadFinish \/ DriverStep => terms' = terms
        BY OthersLeaveWorkers DEF peer
      <3>4. WriterStep => terms' = terms
        BY DEF WriterStep, WriterPick, WriterWrite, WriterComplete, WriterFail, WriterStop, peer
      <3>5. ReaderStep => terms' = terms
        BY DEF ReaderStep, ReadTerminate, ReaderQueue, ReaderContinue, ReaderTerminated, ReadTerminateResp,
               ReadEof, ReaderFail, ReaderStop, peer
      <3>6. \A rt \in Runtimes : LoseRuntime(rt) => terms' = terms
        BY LossLeaves DEF peer
      <3>7. PeerTerminate \/ PeerAnswer \/ PeerClose => terms' = terms \/ terms' = terms + 1
        BY DEF PeerTerminate, PeerAnswer, PeerClose
      <3> QED  BY <3>1, <3>2, <3>3, <3>4, <3>5, <3>6, <3>7 DEF Next
    <2> QED  BY <1>0, <2>1
  <1>2. CASE phase = "Closed"
    <2>1. reason = "None"
      BY <1>0, <1>1, <1>2 DEF AnswerInv, NormalEnd
    <2>2. reason' = reason
      BY <1>2, ReasonStays
    <2> QED  BY <2>1, <2>2
  <1>3. CASE phase # "Closed"
    <2>1. PICK r \in {"None", "Terminated", "ChannelClosed", "Error"} : reason' = Reason(r) /\ Ender(r)
      BY <1>3, Endings
    <2>2. ~seen /\ rpc \notin {"queue", "answer"}
      BY <1>0, <1>1 DEF InboxInv
    <2>3. Reason(r) = r
      BY <1>0, <2>2 DEF Reason
    <2>4. ~ReaderTerminated
      BY <2>2 DEF ReaderTerminated
    <2>5. ~overload
      BY <1>0 DEF CauseInv
    <2>6. ASSUME eof # "open", inbox = <<>> PROVE acked /\ eof = "clean"
      BY <1>0, <1>3, <2>6 DEF InboxInv
    <2>7. r = "None"
      BY <1>0, <2>1, <2>4, <2>5, <2>6 DEF Ender
    <2> QED  BY <2>1, <2>3, <2>7
  <1> QED  BY <1>2, <1>3

\* The workers are aborted by a task that closed the connection.
LEMMA StepAbort == ASSUME Types, ReapInv, AbortInv, Next PROVE AbortInv'
  <1>0. (phase = "Closed" => phase' = "Closed") /\ tpc \in [Tasks -> TaskSteps]
    BY Onward DEF Types
  <1>1. ASSUME aborted' = aborted PROVE AbortInv'
    BY <1>0, <1>1 DEF AbortInv
  <1>2. \A c \in Callers : Close(c) \/ CallerWait(c) \/ CallerTakeover(c) => aborted' = aborted
    BY DEF Close, CallerWait, CallerTakeover
  <1>3. DriverStep => aborted' = aborted
    BY DEF DriverStep, DriverPend, DriverSend, DriverAwait, DriverTimeout, DriverUnpend
  <1>4. ASSUME NEW t \in Tasks, TaskStep(t) PROVE AbortInv'
    <2>1. ReapClosed(t) => phase' = "Closed"
      BY <1>0, FinishEffect DEF ReapClosed
    <2>2. TaskFinish(t) \/ ReapCleanup(t) \/ FailDrain(t) \/ FailPublish(t) \/ Cleaned(t) \/ FallbackTimeout(t)
              \/ ReapEnd(t) => aborted' = aborted
      BY DEF TaskFinish, ReapCleanup, FailDrain, FailPublish, Cleaned, FallbackTimeout, ReapEnd
    <2> QED  BY <1>1, <1>4, <2>1, <2>2 DEF TaskStep, AbortInv
  <1>5. WriterStep => aborted' = aborted
    BY DEF WriterStep, WriterPick, WriterWrite, WriterComplete, WriterFail, WriterStop
  <1>6. ReaderStep => aborted' = aborted
    BY DEF ReaderStep, ReadTerminate, ReaderQueue, ReaderContinue, ReaderTerminated, ReadTerminateResp,
           ReadEof, ReaderFail, ReaderStop
  <1>7. DropLast \/ OverloadStart \/ OverloadFinish \/ PeerTerminate \/ PeerAnswer \/ PeerClose => aborted' = aborted
    BY DEF DropLast, OverloadStart, OverloadFinish, PeerTerminate, PeerAnswer, PeerClose
  <1>8. \A rt \in Runtimes : LoseRuntime(rt) => aborted' = aborted
    BY LossLeaves
  <1> QED  BY <1>1, <1>2, <1>3, <1>4, <1>5, <1>6, <1>7, <1>8 DEF Next

\* While nothing goes wrong a TERMINATE that was read is answered, and the
\* driver comes to its end with an answer to its own, or having given one.
LEMMA StepOpen ==
    ASSUME Types, ReapInv, AbortInv, WriterInv, InboxInv, CauseInv, AnswerInv, Next,
           phase' # "Closed", causes' = {}
    PROVE  /\ seen' /\ rpc' \notin {"queue", "answer"} => "RESP" \in ToSet(wire')
           /\ tpc'[Driver] = "finish" => acked' \/ "RESP" \in ToSet(wire')
  <1>0. /\ phase # "Closed" /\ causes = {} /\ ToSet(wire) \subseteq ToSet(wire')
        /\ ~aborted /\ wpc # "done" /\ (termSig = "dropped" => respWritten)
    BY Onward, WireGrows DEF CauseInv, Late, AbortInv
  <1>1. ASSUME NEW rt \in Runtimes, LoseRuntime(rt) PROVE FALSE
    BY <1>1, LossEffect
  <1>2. ASSUME seen', rpc' \notin {"queue", "answer"}, "RESP" \notin ToSet(wire) PROVE FALSE
    <2>1. ~ReadTerminate
      BY <1>2 DEF ReadTerminate
    <2>2. seen
      BY <1>2, <2>1, SeenByReader
    <2>3. rpc \in {"queue", "answer"}
      BY <1>0, <1>2, <2>2 DEF AnswerInv
    <2>4. respSig # "sent"
      BY <1>2 DEF WriterInv
    <2>5. rpc' # rpc
      BY <1>2, <2>3
    <2>6. ~ReaderStep
      <3>1. ~ReaderTerminated
        BY WorkerFinishEffect DEF ReaderTerminated, Finish
      <3>2. ~ReaderContinue
        BY <2>4 DEF ReaderContinue
      <3>3. ~ReaderStop
        BY <1>0, <2>3 DEF ReaderStop
      <3>4. ~ReaderQueue
        BY <1>2 DEF ReaderQueue
      <3>5. ~(ReadTerminateResp \/ ReadEof \/ ReaderFail)
        BY <2>3 DEF ReadTerminateResp, ReadEof, ReaderFail
      <3> QED  BY <2>1, <3>1, <3>2, <3>3, <3>4, <3>5 DEF ReaderStep
    <2>7. WriterStep => rpc' = rpc
      BY DEF WriterStep, WriterPick, WriterWrite, WriterComplete, WriterFail, WriterStop, reader
    <2>8. \A c \in Callers : Close(c) \/ CallerWait(c) \/ CallerTakeover(c) => rpc' = rpc
      BY OthersLeaveWorkers DEF reader
    <2>9. \A t \in Tasks : TaskStep(t) => rpc' = rpc
      BY OthersLeaveWorkers DEF reader
    <2>10. DropLast \/ OverloadStart \/ OverloadFinish \/ PeerTerminate \/ PeerAnswer \/ PeerClose \/ DriverStep => rpc' = rpc
      BY OthersLeaveWorkers DEF reader
    <2> QED  BY <1>1, <2>5, <2>6, <2>7, <2>8, <2>9, <2>10 DEF Next
  <1>3. acked => acked'
    <2>1. ReaderStep => (acked => acked')
      BY DEF ReaderStep, ReadTerminate, ReaderQueue, ReaderContinue, ReaderTerminated, ReadTerminateResp,
             ReadEof, ReaderFail, ReaderStop
    <2>2. WriterStep => acked' = acked
      BY DEF WriterStep, WriterPick, WriterWrite, WriterComplete, WriterFail, WriterStop, reader
    <2>3. \A c \in Callers : Close(c) \/ CallerWait(c) \/ CallerTakeover(c) => acked' = acked
      BY OthersLeaveWorkers DEF reader
    <2>4. \A t \in Tasks : TaskStep(t) => acked' = acked
      BY OthersLeaveWorkers DEF reader
    <2>5. DropLast \/ OverloadStart \/ OverloadFinish \/ PeerTerminate \/ PeerAnswer \/ PeerClose \/ DriverStep => acked' = acked
      BY OthersLeaveWorkers DEF reader
    <2> QED  BY <1>1, <2>1, <2>2, <2>3, <2>4, <2>5 DEF Next
  <1>4. ASSUME tpc'[Driver] = "finish", ~acked, "RESP" \notin ToSet(wire) PROVE FALSE
    <2>1. tpc[Driver] # "finish"
      BY <1>0, <1>4 DEF AnswerInv
    <2>2. ~respWritten
      BY <1>4 DEF WriterInv
    <2>3. ASSUME DriverStep PROVE FALSE
      <3>1. CASE DriverPend
        <4>1. Moves(Driver, {"drain"}, {"send"}) \/ Closes(Driver, {"drain"}, "closed")
          BY <2>3, <3>1, DriverMoves DEF DriverPend, Moves
        <4> QED  BY <1>4, <4>1 DEF Moves, Closes
      <3>2. CASE DriverSend
        <4>1. Go(Driver, "written") /\ tpc \in [Tasks -> TaskSteps]
          BY <1>0, <3>2 DEF DriverSend, Types
        <4> QED  BY <1>4, <4>1, Names DEF Go
      <3>3. CASE DriverAwait
        <4>1. Go(Driver, "answer") /\ tpc \in [Tasks -> TaskSteps]
          BY <1>0, <1>4, <2>2, <3>3 DEF DriverAwait, Types
        <4> QED  BY <1>4, <4>1, Names DEF Go
      <3>4. CASE DriverTimeout
        BY <3>4 DEF DriverTimeout, Blame
      <3>5. CASE DriverUnpend
        <4>1. Go(Driver, "closed") /\ tpc \in [Tasks -> TaskSteps]
          BY <3>5 DEF DriverUnpend, Types
        <4> QED  BY <1>4, <4>1, Names DEF Go
      <3> QED  BY <2>3, <3>1, <3>2, <3>3, <3>4, <3>5 DEF DriverStep
    <2>4. ASSUME NEW c \in Callers, Close(c) \/ CallerWait(c) \/ CallerTakeover(c) PROVE FALSE
      BY <1>4, <2>1, <2>4, CallerMoves, Names DEF Moves
    <2>5. ASSUME NEW t \in Tasks, TaskStep(t) PROVE FALSE
      <3>1. t = Driver \/ tpc'[Driver] = tpc[Driver]
        BY <2>5, TaskMoves, Names DEF Moves, Closes
      <3>2. t = Driver => tpc'[Driver] # "finish"
        BY <2>5, TaskMoves DEF Moves, Closes
      <3> QED  BY <1>4, <2>1, <3>1, <3>2
    <2>6. WriterStep \/ ReaderStep \/ DropLast \/ OverloadStart \/ OverloadFinish
             \/ PeerTerminate \/ PeerAnswer \/ PeerClose => tpc'[Driver] = tpc[Driver]
      BY WorkersMoveNoTask, Names DEF Unmoved
    <2> QED  BY <1>1, <1>4, <2>1, <2>3, <2>4, <2>5, <2>6 DEF Next
  <1> QED  BY <1>0, <1>2, <1>3, <1>4

-----------------------------------------------------------------------------
\* The invariant, and what follows from it.

\* It holds initially, and every step keeps it.
LEMMA Invariance ==
    /\ Init => IInv
    /\ IInv /\ [Next]_vars => IInv'
  <1>1. Init => AbortInv
    BY DEF Init, AbortInv
  <1>2. Init => IInv
    BY <1>1, InitTypes, InitReap, InitLone, InitTerm, InitWriter, InitInbox, InitCause, InitAnswer DEF IInv
  <1>3. ASSUME IInv, Next PROVE IInv'
    <2>1. Types'
      BY <1>3, StepTypes DEF IInv
    <2>2. ReapInv' /\ AbortInv' /\ Lone' /\ TermInv' /\ WriterInv'
      BY <1>3, StepReap, StepAbort, StepLone, StepTerm, StepWriter DEF IInv
    <2>3. InboxInv' /\ EntryInv' /\ CauseInv'
      BY <1>3, StepInbox, StepEntry, StepCause DEF IInv
    <2>4. PeerAnswered' /\ NormalEnd'
      BY <1>3, StepAnswered, StepNormal DEF IInv
    <2>5. ASSUME phase' # "Closed", causes' = {}
          PROVE  /\ seen' /\ rpc' \notin {"queue", "answer"} => "RESP" \in ToSet(wire')
                 /\ tpc'[Driver] = "finish" => acked' \/ "RESP" \in ToSet(wire')
      BY <1>3, <2>5, StepOpen DEF IInv
    <2>6. AnswerInv'
      BY <2>4, <2>5 DEF AnswerInv
    <2> QED  BY <2>1, <2>2, <2>3, <2>6 DEF IInv
  <1>4. ASSUME IInv, UNCHANGED vars PROVE IInv'
    <2> USE <1>4 DEF IInv, vars, ends, callers, steps, ids, outcome, writer, reader, peer
    <2>1. Types' /\ TermInv' /\ AbortInv'
      BY DEF Types, TermInv, AbortInv
    <2>2. ReapInv' /\ Lone'
      BY DEF ReapInv, CompleteMeansCleaned, Lone
    <2>3. WriterInv' /\ InboxInv'
      BY DEF WriterInv, InboxInv
    <2>4. EntryInv' /\ CauseInv'
      BY DEF EntryInv, CauseInv, Late
    <2>5. AnswerInv'
      BY DEF AnswerInv, PeerAnswered, NormalEnd
    <2> QED  BY <2>1, <2>2, <2>3, <2>4, <2>5
  <1> QED  BY <1>2, <1>3, <1>4

\* Of every state of the specification.
LEMMA Always == Spec => []IInv
  BY Invariance, PTL DEF Spec

\* NormalEnd: a close() to which the peer answers, and nothing else happens,
\* leaves no reason for Event::Disconnected (connection.rs:2996).
THEOREM NoReasonWithoutCause == Spec => []NormalEnd
  <1>1. IInv => NormalEnd
    BY DEF IInv, AnswerInv
  <1> QED  BY <1>1, Always, PTL

\* TakeoverSound: one takeover at most, exactly while takeover_started is set,
\* and complete only of a closed connection that was cleaned up, or whose
\* cleanup was tried until its timeout (connection.rs:1992, 2024).
THEOREM OneTakeover == Spec => []TakeoverSound
  <1>1. IInv => TakeoverSound
    BY LoneCounts DEF IInv, ReapInv, TakeoverSound
  <1> QED  BY <1>1, Always, PTL

\* NoTerminateAfterAnswer: the writer cancels a local TERMINATE harvested after
\* the peer's was answered (connection.rs:2662).
THEOREM AnswerIsLast == Spec => NoTerminateAfterAnswer
  <1>1. IInv /\ [Next]_vars => [\A i \in Len(wire) + 1 .. Len(wire') : wire'[i] = "TERM" => "RESP" \notin ToSet(wire)]_vars
    BY WireGrows DEF IInv
  <1> QED  BY <1>1, Always, PTL DEF Spec, NoTerminateAfterAnswer

\* HandshakeSafe: a TERMINATE of the peer that was read is answered before the
\* connection closes, but for failures, timeouts and dropping the last handle
\* (connection.rs:2908-2938), the driver leaves no pending_terminate, and no
\* sequence id, behind (connection.rs:2139), and the answer is the last frame.
THEOREM CrossingsAnswered == Spec => HandshakeSafe
  <1>1. IInv => PeerAnswered /\ TerminateReleased
    BY DEF IInv, AnswerInv, TermInv, TerminateReleased
  <1> QED  BY <1>1, Always, AnswerIsLast, PTL DEF HandshakeSafe
=============================================================================
