----------------------------- MODULE PduFormat -----------------------------
(***************************************************************************)
(* The fields of the CMPP 2.0 PDUs in the order in which encode_body       *)
(* writes and decode reads them (src/pdu.rs), apart from what is done with *)
(* them.  A byte is a number; Wide stands for the code points that take    *)
(* two bytes in UTF-8.                                                     *)
(***************************************************************************)
EXTENDS Integers, Sequences

Nul  == 0
Wide == 233

\* Fields: raw bytes (numbers, message ids, digests, fixed constants), octet
\* strings, the counted destinations and the counted content.
Raw(n)  == [type |-> "raw", width |-> n]
Str(n)  == [type |-> "str", width |-> n]
Dests   == [type |-> "dests", width |-> 21]
Content == [type |-> "content", width |-> 1]

\* The order and the widths of encode_body and decode.  Reserved bytes are
\* written as zero and skipped on reading.
Reserved(n) == [type |-> "reserved", width |-> n]
ConnectBody     == <<Str(6), Raw(16), Raw(1), Raw(4)>>
ConnectRespBody == <<Raw(1), Raw(16), Raw(1)>>
SubmitBody      == <<Raw(8), Raw(1), Raw(1), Raw(1), Raw(1), Str(10), Raw(1), Str(21), Raw(1),
                     Raw(1), Raw(1), Str(6), Str(2), Str(6), Str(17), Str(17), Str(21),
                     Dests, Content, Reserved(8)>>
SubmitRespBody  == <<Raw(8), Raw(1)>>
DeliverBody     == <<Raw(8), Str(21), Str(10), Raw(1), Raw(1), Raw(1), Str(21), Raw(1),
                     Content, Reserved(8)>>
DeliverRespBody == <<Raw(8), Raw(1)>>
Layout == [
    Connect     |-> ConnectBody,    ConnectResp    |-> ConnectRespBody,
    Submit      |-> SubmitBody,     SubmitResp     |-> SubmitRespBody,
    Deliver     |-> DeliverBody,    DeliverResp    |-> DeliverRespBody,
    ActiveTest  |-> <<>>,           ActiveTestResp |-> <<Reserved(1)>>,
    Terminate   |-> <<>>,           TerminateResp  |-> <<>>]
PduKinds == DOMAIN Layout

Octets     == 0 .. 255
CodePoints == 0 .. 127 \cup {Wide}

\* The values of a field: u8 and arrays of them, String, Vec<String>, Vec<u8>.
FieldValues(f) ==
    CASE f.type = "raw"      -> [1 .. f.width -> Octets]
      [] f.type = "str"      -> Seq(CodePoints)
      [] f.type = "dests"    -> Seq(Seq(CodePoints))
      [] f.type = "content"  -> Seq(Octets)
      [] f.type = "reserved" -> {<<>>}

\* A fixed width filled with one byte.
Rep(x, n) == [i \in 1 .. n |-> x]
=============================================================================
