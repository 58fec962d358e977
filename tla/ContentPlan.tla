---------------------------- MODULE ContentPlan ----------------------------
(***************************************************************************)
(* How the text of a message becomes SMS segments (src/encoding.rs) and    *)
(* one SUBMIT each (src/submit.rs): the choice of the character set, the   *)
(* plan with its byte ranges (a first loop counts the segments, a second   *)
(* one cuts), the segments with their user data header, and the decoding   *)
(* of a segment on the other side.                                         *)
(*                                                                         *)
(* A character is told apart by its sizes only: "a" is ASCII, "b" another  *)
(* of the basic plane, "s" one that is a surrogate pair in UTF-16.  A      *)
(* payload is the sequence of its code units.  The limits are scaled.      *)
(***************************************************************************)
EXTENDS Integers, SequencesExt

CONSTANTS MultiMax,   \* MULTIPART_MAX_BYTES
          UdhSize,    \* bytes of the user data header
          MaxSegments, \* u8::MAX: pk_total is one byte
          MaxDests,   \* u8::MAX: so is the number of destinations
          MaxChars,   \* bound: characters of a message
          MaxAscii    \* bound: characters of a message of ASCII only

ASSUME PlanAssumption ==
    /\ MultiMax \in Nat /\ MultiMax >= 4 /\ UdhSize \in Nat \ {0}
    /\ MaxSegments \in Nat \ {0} /\ MaxDests \in Nat \ {0} /\ MaxChars \in Nat /\ MaxAscii \in Nat

SingleMax == MultiMax + UdhSize  \* SINGLE_MAX_BYTES

Chars    == {"a", "b", "s"}
Messages == BoundedSeq(Chars, MaxChars) \cup BoundedSeq({"a"}, MaxAscii)

VARIABLES text, dests,  \* the arguments of the call
          plan,         \* SubmitContentPlan, or an error
          submits       \* the SUBMITs built so far

planVars == <<text, dests, plan, submits>>

-----------------------------------------------------------------------------
\* Sizes of a character in the text (UTF-8) and of what encodes it.

Utf8(ch)  == CASE ch = "a" -> 1 [] ch = "b" -> 3 [] ch = "s" -> 4
Units(ch) == IF ch = "s" THEN <<"hi", "lo">> ELSE <<ch>>
Total(t, size(_)) == FoldLeft(LAMBDA n, ch : n + size(ch), 0, t)

\* choose_encoding
Encoding(t) == IF \A i \in DOMAIN t : t[i] = "a" THEN "ascii" ELSE "ucs2"

\* Bytes of a character; in UCS2 two for each code unit.
Width(enc, ch) == IF enc = "ascii" THEN 1 ELSE 2 * Len(Units(ch))

\* Mutant of Encode: the halves of a surrogate pair change places.
EncodeSwapped(t) == FoldLeft(LAMBDA u, ch : u \o Reverse(Units(ch)), <<>>, t)

\* encode_content
Encode(t) == FoldLeft(LAMBDA u, ch : u \o Units(ch), <<>>, t)
Bytes(u, enc)  == IF enc = "ascii" THEN Len(u) ELSE 2 * Len(u)

\* The text between two byte offsets; what Rust refuses to slice is cut apart.
Slice(t, from, to) ==
    LET At(i) == Total(SubSeq(t, 1, i), Utf8)
    IN  IF \E i, j \in 0 .. Len(t) : At(i) = from /\ At(j) = to
        THEN SubSeq(t, 1 + CHOOSE i \in 0 .. Len(t) : At(i) = from,
                       CHOOSE j \in 0 .. Len(t) : At(j) = to)
        ELSE <<"cut">>

-----------------------------------------------------------------------------
\* prepare_submit_content

TotalBytes(t) == Total(t, LAMBDA ch : Width(Encoding(t), ch))

\* A character of width w does not fit behind filled bytes.
StartsSegment(filled, w) == filled # 0 /\ filled + w > MultiMax

DivCeil(n, d) == (n + d - 1) \div d

\* The first loop counts the segments of a message that needs several.
CountLoop(t) ==
    FoldLeft(LAMBDA st, ch : LET w == Width("ucs2", ch) IN
                 IF StartsSegment(st.filled, w) THEN [count |-> st.count + 1, filled |-> w]
                 ELSE [st EXCEPT !.filled = @ + w],
             [count |-> 1, filled |-> 0], t).count

SegmentCount(t) ==
    IF TotalBytes(t) <= SingleMax THEN 1
    ELSE IF Encoding(t) = "ascii" THEN DivCeil(TotalBytes(t), MultiMax) ELSE CountLoop(t)

\* chunks(MULTIPART_MAX_BYTES)
AsciiRanges(t) ==
    [k \in 1 .. DivCeil(Len(t), MultiMax) |->
        <<(k - 1) * MultiMax, IF k * MultiMax < Len(t) THEN k * MultiMax ELSE Len(t)>>]

\* The second loop cuts at the same places, in offsets of the text.
Ucs2Ranges(t) ==
    LET end == FoldLeft(LAMBDA st, ch : LET w == Width("ucs2", ch) IN
                 IF StartsSegment(st.filled, w)
                 THEN [ranges |-> Append(st.ranges, <<st.start, st.offset>>), start |-> st.offset,
                       filled |-> w, offset |-> st.offset + Utf8(ch)]
                 ELSE [st EXCEPT !.filled = @ + w, !.offset = @ + Utf8(ch)],
             [ranges |-> <<>>, start |-> 0, filled |-> 0, offset |-> 0], t)
    IN  Append(end.ranges, <<end.start, Total(t, Utf8)>>)

Ranges(t) ==
    IF TotalBytes(t) <= SingleMax THEN <<<<0, Total(t, Utf8)>>>>
    ELSE IF Encoding(t) = "ascii" THEN AsciiRanges(t) ELSE Ucs2Ranges(t)

Error == [error |-> TRUE]
NoPlan == [error |-> FALSE]

Prepare(t) ==
    IF SegmentCount(t) > MaxSegments THEN Error
    ELSE [enc |-> Encoding(t), ranges |-> Ranges(t)]

-----------------------------------------------------------------------------
\* SubmitContentPlan::segment and Submit::apply_segment

Segment(t, p, k) ==
    [enc |-> p.enc, total |-> Len(p.ranges), number |-> k, udhi |-> Len(p.ranges) > 1,
     units |-> Encode(Slice(t, p.ranges[k][1], p.ranges[k][2]))]

\* Msg_Content is the header, if any, and the payload.
ContentBytes(s) == Bytes(s.units, s.enc) + (IF s.udhi THEN UdhSize ELSE 0)

\* The character that begins at a unit; half a surrogate pair becomes a
\* replacement character.
CharAt(u, i) ==
    IF u[i] = "lo" /\ i > 1 /\ u[i - 1] = "hi" THEN <<>>
    ELSE IF u[i] = "hi" THEN (IF i < Len(u) /\ u[i + 1] = "lo" THEN <<"s">> ELSE <<"?">>)
    ELSE IF u[i] = "lo" THEN <<"?">> ELSE <<u[i]>>

\* decode_msg_content: the header is skipped if more than it is there.
Decode(s) ==
    IF s.udhi /\ s.units = <<>> THEN <<"header">>
    ELSE FoldLeft(LAMBDA r, i : r \o CharAt(s.units, i), <<>>, [i \in DOMAIN s.units |-> i])

-----------------------------------------------------------------------------
InitPlan ==
    /\ text \in Messages /\ dests \in 1 .. MaxDests + 1
    /\ plan = NoPlan /\ submits = <<>>

\* The check of the destinations, then the plan (try_build_submits, submit()).
PlanMessage ==
    /\ plan = NoPlan
    /\ plan' = IF dests > MaxDests THEN Error ELSE Prepare(text)
    /\ UNCHANGED <<text, dests, submits>>

\* The SUBMIT of the next segment.
BuildSubmit ==
    /\ plan \notin {NoPlan, Error} /\ Len(submits) < Len(plan.ranges)
    /\ submits' = Append(submits, Segment(text, plan, Len(submits) + 1))
    /\ UNCHANGED <<text, dests, plan>>

NextPlan == PlanMessage \/ BuildSubmit
SpecPlan == InitPlan /\ [][NextPlan]_planVars

Built == plan \notin {NoPlan, Error} /\ Len(submits) = Len(plan.ranges)

-----------------------------------------------------------------------------
\* Decoding the segments one by one and joining them gives the message back:
\* no surrogate pair is cut, nothing is lost or doubled (encoding.rs:184-197).
Reassembles ==
    Built => FoldLeft(LAMBDA r, s : r \o Decode(s), <<>>, submits) = text

\* Every segment fits Msg_Content with its header, and says its place among
\* the segments there are (encoding.rs:99-131).
SegmentsFit ==
    \A k \in DOMAIN submits :
       /\ ContentBytes(submits[k]) <= SingleMax
       /\ submits[k].number = k /\ submits[k].number <= submits[k].total
       /\ submits[k].total <= MaxSegments
       /\ Built => submits[k].total = Len(submits)

\* The loop that counts and the loop that cuts agree, so that the limit of 255
\* is applied to what is sent (encoding.rs:147-170).
CountAgrees == plan \notin {NoPlan, Error} => Len(plan.ranges) = SegmentCount(text)

\* Reference: cut between characters, the message can be sent in m segments.
Cuttable(t, m) ==
    \E e \in [1 .. m - 1 -> 0 .. Len(t)] :
       LET At(k) == IF k = 0 THEN 0 ELSE IF k = m THEN Len(t) ELSE e[k]
       IN  \A k \in 1 .. m :
              /\ At(k - 1) <= At(k)
              /\ Total(SubSeq(t, At(k - 1) + 1, At(k)), LAMBDA ch : Width(Encoding(t), ch)) <= MultiMax

\* A message is refused only if no way of cutting it between characters fits
\* the limit, and no way of cutting an accepted one has fewer segments
\* (encoding.rs:152-170).
FewestSegments ==
    /\ plan = Error => \/ dests > MaxDests
                       \/ TotalBytes(text) > SingleMax /\ ~Cuttable(text, MaxSegments)
    /\ plan \notin {NoPlan, Error} =>
          \A m \in 1 .. Len(plan.ranges) - 1 : ~Cuttable(text, m)

\* A message is cut into as few segments as there can be, each of which fits,
\* and which give the message back; it is refused only if there is no way.
PlanExact == Reassembles /\ SegmentsFit /\ CountAgrees /\ FewestSegments
=============================================================================
