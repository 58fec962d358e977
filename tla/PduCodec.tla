------------------------------ MODULE PduCodec ------------------------------
(***************************************************************************)
(* The bodies of the CMPP 2.0 PDUs (src/pdu.rs): validate_encode,          *)
(* encode_body, body_len_hint and decode of every PDU, with the octet      *)
(* strings and the bounds-checked BodyReader they are made of.  A PDU is   *)
(* the sequence of its fields.  A byte is a number, a string a sequence of *)
(* code points of which Wide is one of two bytes in UTF-8.                 *)
(***************************************************************************)
EXTENDS PduFormat, Integers, Sequences, SequencesExt

CONSTANTS Samples,  \* [PduKinds -> field values to try]
          Cuts      \* how much shorter a damaged body may be

Max8        == 255                     \* u8::MAX
HeaderBytes == 12                      \* CMPP_HEADER_LENGTH
MaxFrame    == 65536                   \* CMPP_MAX_MESSAGE_LENGTH
Blank       == {Nul, 32}               \* what read_octet_str strips
Broken      == 65533                   \* the replacement character

Nothing == [ok |-> FALSE, fields |-> <<>>]

\* A field holds what its Rust type can hold; a damaged body is shorter.
ASSUME SamplesAssumption ==
    /\ \A k \in PduKinds : \A v \in Samples[k] :
          /\ DOMAIN v = DOMAIN Layout[k]
          /\ \A i \in DOMAIN v : v[i] \in FieldValues(Layout[k][i])
    /\ Cuts \subseteq Nat \ {0}

VARIABLES step,       \* what has been done with it
          kind, pdu,  \* the PDU to send
          body,       \* its encoded body, as it arrives
          damaged,    \* the body is not the one that was sent
          got         \* what decode makes of it

pduVars == <<step, kind, pdu, body, damaged, got>>

-----------------------------------------------------------------------------
\* Octet strings

Join(seqs)   == FoldLeft(LAMBDA r, s : r \o s, <<>>, seqs)
Utf8Bytes(s) == Join([i \in DOMAIN s |-> IF s[i] = Wide THEN <<195, 169>> ELSE <<s[i]>>])

\* What the byte at a position adds: half a wide character is broken.
LossyChar(b, i) ==
    IF b[i] = 195 THEN (IF i < Len(b) /\ b[i + 1] = 169 THEN <<Wide>> ELSE <<Broken>>)
    ELSE IF b[i] = 169 /\ i > 1 /\ b[i - 1] = 195 THEN <<>>
    ELSE IF b[i] = 169 THEN <<Broken>> ELSE <<b[i]>>

\* from_utf8_lossy
Lossy(b) == Join([i \in DOMAIN b |-> LossyChar(b, i)])

\* put_octet_str: cut at the width, filled with NUL.
PutStr(s, n) ==
    LET b == Utf8Bytes(s)
    IN  IF Len(b) >= n THEN SubSeq(b, 1, n) ELSE b \o Rep(Nul, n - Len(b))

\* read_octet_str: everything up to the last byte that is not blank.
ReadStr(b) ==
    LET solid == {i \in DOMAIN b : b[i] \notin Blank}
    IN Lossy(SubSeq(b, 1, IF solid = {} THEN 0 ELSE CHOOSE i \in solid : \A j \in solid : j <= i))

-----------------------------------------------------------------------------
\* Encoding

\* validate_encode: the counts must fit their byte.
Valid(k, v) == \A i \in DOMAIN v : Layout[k][i].type \in {"dests", "content"} => Len(v[i]) <= Max8

\* One octet string of width n after the other.
PutStrs(strs, n) ==
    LET put == [i \in DOMAIN strs |-> PutStr(strs[i], n)]
    IN [j \in 1 .. n * Len(strs) |-> put[1 + ((j - 1) \div n)][1 + ((j - 1) % n)]]

EncodeField(f, x) ==
    CASE f.type = "raw"      -> x
      [] f.type = "str"      -> PutStr(x, f.width)
      [] f.type = "dests"    -> <<Len(x)>> \o PutStrs(x, f.width)
      [] f.type = "content"  -> <<Len(x)>> \o x
      [] f.type = "reserved" -> Rep(0, f.width)

EncodeBody(k, v) == Join([i \in DOMAIN v |-> EncodeField(Layout[k][i], v[i])])

Size(v, i) == Len(v[i])

\* body_len_hint: what the buffer is allocated for.
BodyLenHint(k, v) ==
    CASE k = "Connect"                     -> 27
      [] k = "ConnectResp"                 -> 18
      [] k = "Submit"                      -> 126 + 21 * Size(v, 18) + Size(v, 19)
      [] k \in {"SubmitResp", "DeliverResp"} -> 9
      [] k = "Deliver"                     -> 73 + Size(v, 9)
      [] k = "ActiveTestResp"              -> 1
      [] OTHER                             -> 0

-----------------------------------------------------------------------------
\* Decoding: BodyReader is the position in the body and the fields read so far.

Fail(r)     == [r EXCEPT !.ok = FALSE]
Left(b, r)  == Len(b) - r.at
Part(b, r, from, n) == SubSeq(b, r.at + from + 1, r.at + from + n)

\* take(n), then a field made of what was taken.
Take(b, r, n, x) == IF Left(b, r) < n THEN Fail(r)
                    ELSE [r EXCEPT !.at = @ + n, !.fields = Append(@, x)]

\* The counted fields; the count of destinations is checked against what is
\* left, content length and reserved bytes included, before any is read.
DecodeDests(b, r, f) ==
    IF Left(b, r) < 1 THEN Fail(r)
    ELSE LET n == b[r.at + 1]
         IN IF Left(b, r) - 1 < n * f.width + 1 + 8 THEN Fail(r)
            ELSE Take(b, r, 1 + n * f.width,
                      [i \in 1 .. n |-> ReadStr(Part(b, r, 1 + (i - 1) * f.width, f.width))])

DecodeContent(b, r) ==
    IF Left(b, r) < 1 THEN Fail(r)
    ELSE LET n == b[r.at + 1] IN Take(b, r, 1 + n, Part(b, r, 1, n))

DecodeField(b, r, f) ==
    IF ~r.ok THEN r
    ELSE CASE f.type = "raw"      -> Take(b, r, f.width, Part(b, r, 0, f.width))
           [] f.type = "str"      -> Take(b, r, f.width, ReadStr(Part(b, r, 0, f.width)))
           [] f.type = "dests"    -> DecodeDests(b, r, f)
           [] f.type = "content"  -> DecodeContent(b, r)
           [] f.type = "reserved" -> Take(b, r, f.width, <<>>)

ReadBody(k, b) ==
    FoldLeft(LAMBDA r, f : DecodeField(b, r, f), [ok |-> TRUE, at |-> 0, fields |-> <<>>], Layout[k])

\* Mutant of DecodeBody: trailing bytes are ignored.
DecodeLoose(k, b) == LET r == ReadBody(k, b) IN [ok |-> r.ok, fields |-> r.fields]

\* finish and require_body_len: nothing may be left over.
DecodeBody(k, b) ==
    LET r == ReadBody(k, b) IN [ok |-> r.ok /\ r.at = Len(b), fields |-> r.fields]

-----------------------------------------------------------------------------
InitPdu ==
    /\ step = "new" /\ kind \in PduKinds /\ pdu \in Samples[kind]
    /\ body = <<>> /\ damaged = FALSE /\ got = Nothing

EncodePdu ==
    /\ step = "new"
    /\ IF Valid(kind, pdu)
       THEN step' = "sent" /\ body' = EncodeBody(kind, pdu)
       ELSE step' = "refused" /\ UNCHANGED body
    /\ UNCHANGED <<kind, pdu, damaged, got>>

\* The peer's idea of the body is another one: it is shorter or has a byte more.
Damage ==
    /\ step = "sent" /\ ~damaged /\ damaged' = TRUE
    /\ \/ \E n \in Cuts : n <= Len(body) /\ body' = SubSeq(body, 1, Len(body) - n)
       \/ body' = Append(body, 0)
    /\ UNCHANGED <<step, kind, pdu, got>>

DecodePdu ==
    /\ step = "sent" /\ step' = "decoded" /\ got' = DecodeBody(kind, body)
    /\ UNCHANGED <<kind, pdu, body, damaged>>

NextPdu == EncodePdu \/ Damage \/ DecodePdu
SpecPdu == InitPdu /\ [][NextPdu]_pduVars

-----------------------------------------------------------------------------
\* Properties.

\* What a string field keeps: the characters that fit as a whole, then a
\* replacement character for one that is cut in two, without blanks at the end.
Fits(s, n)  == {m \in 0 .. Len(s) : Len(Utf8Bytes(SubSeq(s, 1, m))) <= n}
Kept(s, n)  == LET m == CHOOSE x \in Fits(s, n) : \A y \in Fits(s, n) : y <= x
                   cut == m < Len(s) /\ Len(Utf8Bytes(SubSeq(s, 1, m))) < n
               IN SubSeq(s, 1, m) \o (IF cut THEN <<Broken>> ELSE <<>>)
Stripped(s) == LET ends == {m \in 0 .. Len(s) : \A i \in m + 1 .. Len(s) : s[i] \in Blank}
               IN SubSeq(s, 1, CHOOSE m \in ends : \A x \in ends : m <= x)
Normal(f, x) == CASE f.type = "str"   -> Stripped(Kept(x, f.width))
                  [] f.type = "dests" -> [i \in DOMAIN x |-> Stripped(Kept(x[i], f.width))]
                  [] OTHER            -> x

\* Every PDU that can be encoded is decoded to the same fields, up to what a
\* fixed-width string can hold (pdu.rs: encode_body against decode).
RoundTrip ==
    step = "decoded" /\ ~damaged =>
        got = [ok |-> TRUE, fields |-> [i \in DOMAIN pdu |-> Normal(Layout[kind][i], pdu[i])]]

\* A body of any other length is refused: it is never read as another PDU of
\* its kind (BodyReader::take, finish, the count of destinations).
DamageRefused == step = "decoded" /\ damaged => ~got.ok

\* The allocation is exact, so writing a frame never moves it, and a frame this
\* side builds is one that its own codec accepts (codec.rs:26).
HintExact ==
    step = "sent" /\ ~damaged =>
        /\ Len(body) = BodyLenHint(kind, pdu)
        /\ HeaderBytes + Len(body) <= MaxFrame

\* A PDU that can be encoded comes back the same, has the length announced for
\* it, and no body of another length is taken for it.
PduExact == RoundTrip /\ DamageRefused /\ HintExact
=============================================================================
