---------------------------- MODULE FrameStream ----------------------------
(***************************************************************************)
(* From bytes to frames: CmppFrameCodec (src/codec.rs), the login of       *)
(* CmppConnection::connect, which reads its CONNECT_RESP through a         *)
(* FramedRead, and the read loop of reader_task (src/connection.rs), which *)
(* takes over the FramedRead's buffer, decodes in place and lands          *)
(* SUBMIT_RESPs in batches.  TCP cuts the stream anywhere, and the peer    *)
(* may stop anywhere.                                                      *)
(*                                                                         *)
(* A byte is its position in the stream.  What the frames do is the        *)
(* business of the other modules: here a frame is a SUBMIT_RESP, any other *)
(* PDU, or one that does not decode.                                       *)
(***************************************************************************)
EXTENDS Integers, Sequences, SequencesExt

CONSTANTS Header,     \* CMPP_HEADER_LENGTH
          MaxLength,  \* CMPP_MAX_MESSAGE_LENGTH
          RespMax,    \* SUBMIT_RESP_BATCH_MAX
          Streams     \* what peers send: sequences of frames

\* total is the Total_Length a frame claims, size the bytes it has; they differ
\* only if the claim is out of bounds.
\* accept, denied and forged are CONNECT_RESPs: status 0 with the right
\* authenticator, another status, status 0 with a wrong authenticator.
Kinds == {"accept", "denied", "forged", "resp", "other", "garbled"}
Frame == [kind : Kinds, total : Nat, size : Nat]

ASSUME StreamAssumption ==
    /\ Header \in Nat \ {0} /\ MaxLength \in Nat /\ Header <= MaxLength /\ RespMax \in Nat \ {0}
    /\ \A s \in Streams : s \in Seq(Frame) /\ \A i \in DOMAIN s :
          s[i].size >= Header /\ (s[i].total = s[i].size \/ s[i].total \notin Header .. MaxLength)

VARIABLES
    stream, end, verify,  \* the peer's frames; bytes of them that arrive; verify_authenticator
    received, buf,        \* bytes read so far; the read buffer
    pc, result,           \* step of connect() and the reader; how it ended
    taken, held, out,     \* frames split off; pending_resps; frames handled
    closed                \* phase is Closed

peer == <<stream, end, verify>>
vars == <<peer, received, buf, pc, result, taken, held, out, closed>>

\* The bytes before frame i.
Start(i) == FoldLeft(LAMBDA sum, f : sum + f.size, 0, SubSeq(stream, 1, i - 1))
Whole    == Start(Len(stream) + 1)

TypeOK ==
    /\ stream \in Streams /\ end \in 0 .. Whole /\ verify \in BOOLEAN
    /\ received \in 0 .. end /\ buf \in Seq(1 .. Whole)
    /\ pc \in {"tcp", "write", "login", "decode", "wait", "over"}
    /\ result \in {"none", "connect", "auth", "mismatch", "decode", "eof", "truncated", "timeout",
                   "io", "handler", "closed"}
    /\ taken \in 0 .. Len(stream) /\ held \in Seq(DOMAIN stream) /\ out \in Seq(DOMAIN stream)
    /\ Len(held) < RespMax /\ closed \in BOOLEAN

Init ==
    /\ stream \in Streams /\ end \in 0 .. Whole /\ verify \in BOOLEAN
    /\ received = 0 /\ buf = <<>> /\ pc = "tcp" /\ result = "none"
    /\ taken = 0 /\ held = <<>> /\ out = <<>> /\ closed = FALSE

-----------------------------------------------------------------------------
\* CmppFrameCodec::decode

\* The frame at the head of the buffer, and the length it claims; inside a
\* frame there is no length to read.
Begins(i)   == i \in DOMAIN stream /\ buf[1] = Start(i) + 1
Aligned     == \E i \in DOMAIN stream : Begins(i)
HeadFrame   == stream[CHOOSE i \in DOMAIN stream : Begins(i)]
TotalLength == IF Aligned THEN HeadFrame.total ELSE 0

BadLength == Len(buf) >= Header /\ TotalLength \notin Header .. MaxLength

HasFrame == Len(buf) >= Header /\ TotalLength \in Header .. MaxLength /\ Len(buf) >= TotalLength

\* split_to(total_length), before the body is decoded.
Split == buf' = SubSeq(buf, TotalLength + 1, Len(buf)) /\ taken' = taken + 1

\* Some of the bytes that are there.
Receive(n) ==
    /\ received + n <= end /\ received' = received + n
    /\ buf' = buf \o [i \in 1 .. n |-> received + i]

-----------------------------------------------------------------------------
\* connect()

End(how) == pc' = "over" /\ result' = how

\* setup_tcp, then CONNECT is written, each under connect_timeout.
ConnectTcp ==
    /\ pc = "tcp"
    /\ \/ pc' = "write" /\ UNCHANGED result
       \/ End("connect")
    /\ UNCHANGED <<peer, received, buf, taken, held, out, closed>>

WriteConnect ==
    /\ pc = "write"
    /\ \/ pc' = "login" /\ UNCHANGED result
       \/ End("connect") \/ End("io")
    /\ UNCHANGED <<peer, received, buf, taken, held, out, closed>>

\* FramedRead::next reads only when no frame is in its buffer.
LoginRead(n) ==
    /\ pc = "login" /\ ~HasFrame /\ ~BadLength /\ Receive(n)
    /\ UNCHANGED <<peer, pc, result, taken, held, out, closed>>

\* The first frame must be a CONNECT_RESP that accepts.
LoginRefused ==
    /\ pc = "login"
    /\ \/ BadLength /\ End("decode") /\ UNCHANGED <<buf, taken>>
       \/ /\ HasFrame /\ Split
          /\ \/ HeadFrame.kind = "garbled" /\ End("decode")
             \/ HeadFrame.kind \in {"resp", "other"} /\ End("connect")
             \/ HeadFrame.kind = "denied" /\ End("auth")
             \/ HeadFrame.kind = "forged" /\ verify /\ End("mismatch")
    /\ UNCHANGED <<peer, received, held, out, closed>>

Accepts(k) == k = "accept" \/ (k = "forged" /\ ~verify)

\* Mutant of LoginAccepted: the reader starts with a buffer of its own.
AcceptedAfresh ==
    /\ pc = "login" /\ HasFrame /\ Accepts(HeadFrame.kind)
    /\ buf' = <<>> /\ taken' = taken + 1 /\ pc' = "decode"
    /\ UNCHANGED <<peer, received, result, held, out, closed>>

\* The connection is put together; into_parts hands over what was read beyond
\* CONNECT_RESP.
LoginAccepted ==
    /\ pc = "login" /\ HasFrame /\ Accepts(HeadFrame.kind)
    /\ Split /\ pc' = "decode"
    /\ UNCHANGED <<peer, received, result, held, out, closed>>

\* connect_timeout, an I/O error, or the end of the stream (FramedRead's
\* decode_eof complains about leftover bytes).
LoginStops ==
    /\ pc = "login" /\ ~HasFrame /\ ~BadLength
    /\ \/ End("timeout") \/ End("io")
       \/ received = end /\ End(IF buf = <<>> THEN "connect" ELSE "truncated")
    /\ UNCHANGED <<peer, received, buf, taken, held, out, closed>>

-----------------------------------------------------------------------------
\* reader_task

Flush == out' = out \o held /\ held' = <<>>

\* Mutant of ReaderClosed: only a busy loop looks at the phase.
ReaderClosedBusy ==
    /\ pc = "decode" /\ closed /\ Flush /\ End("closed")
    /\ UNCHANGED <<peer, received, buf, taken, closed>>

\* The loop's first check: frames still in the buffer are not looked at.
ReaderClosed ==
    /\ pc \in {"decode", "wait"} /\ closed /\ Flush /\ End("closed")
    /\ UNCHANGED <<peer, received, buf, taken, closed>>

DecodeError ==
    /\ pc = "decode" /\ ~closed
    /\ \/ BadLength /\ UNCHANGED <<buf, taken>>
       \/ HasFrame /\ HeadFrame.kind = "garbled" /\ Split
    /\ Flush /\ End("decode")
    /\ UNCHANGED <<peer, received, closed>>

\* A SUBMIT_RESP joins the batch; a full batch lands.
TakeResp ==
    /\ pc = "decode" /\ ~closed /\ HasFrame /\ HeadFrame.kind = "resp" /\ Split
    /\ IF Len(held) + 1 >= RespMax
       THEN out' = out \o Append(held, taken + 1) /\ held' = <<>>
       ELSE held' = Append(held, taken + 1) /\ UNCHANGED out
    /\ UNCHANGED <<peer, received, pc, result, closed>>

\* Any other PDU: the batch lands first, then its handler runs, which may end
\* the task (a refused DELIVER, a TERMINATE, a control queue that is gone).
TakeOther ==
    /\ pc = "decode" /\ ~closed /\ HasFrame /\ HeadFrame.kind \notin {"resp", "garbled"} /\ Split
    /\ out' = Append(out \o held, taken + 1) /\ held' = <<>>
    /\ \/ UNCHANGED <<pc, result>>
       \/ End("handler")
    /\ UNCHANGED <<peer, received, closed>>

\* No complete frame is left: the batch lands before the task waits.
Starve ==
    /\ pc = "decode" /\ ~closed /\ ~HasFrame /\ ~BadLength
    /\ Flush /\ pc' = "wait"
    /\ UNCHANGED <<peer, received, buf, result, taken, closed>>

Read(n) ==
    /\ pc = "wait" /\ ~closed /\ Receive(n) /\ pc' = "decode"
    /\ UNCHANGED <<peer, result, taken, held, out, closed>>

\* read_idle_timeout or an I/O error.
ReadStops ==
    /\ pc = "wait" /\ ~closed
    /\ End("timeout") \/ End("io")
    /\ UNCHANGED <<peer, received, buf, taken, held, out, closed>>

\* Zero bytes: decode_eof finds no frame, and complains about leftover bytes.
ReadEof ==
    /\ pc = "wait" /\ ~closed /\ received = end
    /\ End(IF buf = <<>> THEN "eof" ELSE "truncated")
    /\ UNCHANGED <<peer, received, buf, taken, held, out, closed>>

\* Another task finishes the connection.
CloseElsewhere ==
    /\ pc \in {"decode", "wait"} /\ ~closed /\ closed' = TRUE
    /\ UNCHANGED <<peer, received, buf, pc, result, taken, held, out>>

Connect == ConnectTcp \/ WriteConnect \/ LoginRefused \/ LoginAccepted
Socket  == (\E n \in 1 .. Whole : LoginRead(n) \/ Read(n)) \/ ReadEof
Reader  == ReaderClosed \/ DecodeError \/ TakeResp \/ TakeOther \/ Starve

Next == Connect \/ LoginStops \/ Reader \/ Socket \/ ReadStops \/ CloseElsewhere
Spec == Init /\ [][Next]_vars

\* Both tasks are polled; a read returns bytes or the end of the stream, or
\* the timeout around it fires.  Nobody has to close.
Fairness == WF_vars(Connect \/ LoginStops \/ Reader) /\ WF_vars(Socket \/ ReadStops)
FairSpec == Spec /\ Fairness

-----------------------------------------------------------------------------
\* Properties.

\* No byte is lost, doubled or moved, above all not those that came with the
\* CONNECT_RESP: the buffer is what was received beyond the frames taken.
BytesKept ==
    pc # "over" =>
        buf = [i \in 1 .. received - Start(taken + 1) |-> Start(taken + 1) + i]

\* However the stream is cut and batches land, frames are handled once each
\* and in the order they were sent.
InOrder ==
    LET handled == out \o held
    IN /\ \A k \in DOMAIN handled : handled[k] = k + 1
       /\ Len(handled) <= taken

\* The reader waits for the socket, or ends, only when every response it has
\* decoded has landed, and waits only when the buffer holds no whole frame:
\* so the buffer never reaches the size of the largest frame.
WaitsStarved ==
    /\ pc \in {"wait", "over"} => held = <<>>
    /\ pc = "wait" => /\ Len(buf) < MaxLength
                      /\ ~\E i \in DOMAIN stream :
                            /\ i > taken /\ received >= Start(i) + stream[i].size
                            /\ stream[i].total = stream[i].size

Good(f) == f.total = f.size /\ f.total <= MaxLength /\ f.kind # "garbled"

\* A connection is reported as closed by the peer only if it stopped between
\* two frames and all of them were handled; as truncated only inside a frame;
\* and as undecodable only if the stream is bad there.
EndJustified ==
    /\ result = "eof" => end = Start(taken + 1) /\ Len(out) = taken - 1
    /\ result = "truncated" => Start(taken + 1) < end
    /\ result \in {"eof", "truncated"} /\ (\A i \in DOMAIN stream : Good(stream[i]))
          => \A i \in DOMAIN stream : end >= Start(i + 1) => i <= taken
    /\ result = "decode" => \E i \in {taken, taken + 1} \cap DOMAIN stream : ~Good(stream[i])

\* However the stream is cut, nothing is lost, doubled, reordered or stranded
\* between the socket and the handlers, and its end is reported for what it is.
StreamKept == TypeOK /\ BytesKept /\ InOrder /\ WaitsStarved /\ EndJustified

\* A connection whose peer says nothing more, and one that is closed from
\* within, ends: no stream makes the read loop spin, and none strands it.
ReaderEnds == pc = "decode" ~> pc = "over"
=============================================================================
