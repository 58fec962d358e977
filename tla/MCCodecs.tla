------------------------------ MODULE MCCodecs ------------------------------
(***************************************************************************)
(* One instance for the three modules of the data path.  A behaviour is    *)
(* about one of them: a stream that is read, a message that is planned, or *)
(* a PDU that is encoded and decoded; the other two rest in a final state. *)
(***************************************************************************)
EXTENDS FrameStream, ContentPlan, PduCodec, TLC

CONSTANT MaxFrames

-----------------------------------------------------------------------------
\* Streams: the shortest and the longest frame, a body that does not decode,
\* lengths just outside the limits.

F(k, total, size) == [kind |-> k, total |-> total, size |-> size]

Firsts  == {F("accept", 3, 3), F("denied", 3, 3), F("forged", 3, 3), F("garbled", 3, 3),
            F("other", 2, 2), F("resp", 3, 3), F("accept", 1, 3), F("accept", 5, 3)}
Laters  == {F("resp", 3, 3), F("other", 2, 2), F("other", 4, 4), F("garbled", 2, 2),
            F("resp", 1, 3), F("resp", 5, 5), F("accept", 3, 3)}
Sound   == {F("resp", 3, 3), F("other", 2, 2)}
McStreams ==
    {<<f>> : f \in Firsts} \cup {<<f, l>> : f \in Firsts, l \in Laters}
    \cup {<<F("accept", 3, 3)>> \o s \o <<l>> :
             s \in UNION {[1 .. n -> Sound] : n \in 1 .. MaxFrames - 2}, l \in Laters}

-----------------------------------------------------------------------------
\* PDUs: a plain one of each kind, and every way of changing one field of it.

A == 97

Plain(f) ==
    CASE f.type = "raw"      -> [i \in 1 .. f.width |-> 16 + i]
      [] f.type = "str"      -> <<A>>
      [] f.type = "dests"    -> <<<<A>>, <<A, A>>>>
      [] f.type = "content"  -> <<A, 0, 32>>
      [] f.type = "reserved" -> <<>>

\* Around the width; a character across the end; blanks in and around.
Strings(n) == {<<>>, <<32, A>>, <<A, 32>>, <<A, Nul, A>>, <<A, Nul>>, <<Wide>>,
               Rep(A, n - 1), Rep(A, n), Rep(A, n + 1), Rep(A, n - 1) \o <<Wide>>,
               Rep(A, n - 1) \o <<32, A>>}

Variants(f) ==
    CASE f.type = "raw"      -> {Rep(0, f.width), Rep(32, f.width), Rep(255, f.width)}
      [] f.type = "str"      -> Strings(f.width)
      [] f.type = "dests"    -> {<<s>> : s \in Strings(f.width)} \cup {Rep(<<A>>, n) : n \in {0, 20, 255, 256}}
      [] f.type = "content"  -> {Rep(0, n) : n \in {0, 1, 2, 140, 254, 255, 256}}
      [] f.type = "reserved" -> {<<>>}

\* A damaged body lacks up to this many bytes.
McCuts == 1 .. 60

Fields(k) == Layout[k]
Base(k)   == [i \in DOMAIN Fields(k) |-> Plain(Fields(k)[i])]
McSamples == [k \in PduKinds |->
    {Base(k)} \cup UNION {{[Base(k) EXCEPT ![i] = x] : x \in Variants(Fields(k)[i])} : i \in DOMAIN Fields(k)}]

-----------------------------------------------------------------------------
\* The states in which a part rests: a login that failed before a byte was
\* read, the empty message, a PDU that was refused.

StreamRests ==
    /\ stream = <<F("other", 2, 2)>> /\ end = 0 /\ verify = FALSE /\ received = 0 /\ buf = <<>>
    /\ pc = "over" /\ result = "connect" /\ taken = 0 /\ held = <<>> /\ out = <<>> /\ closed = FALSE
PlanRests ==
    /\ text = <<>> /\ dests = 1 /\ plan = Prepare(text) /\ submits = <<Segment(text, plan, 1)>>
PduRests ==
    /\ step = "refused" /\ kind = "Terminate" /\ pdu = <<>> /\ body = <<>> /\ damaged = FALSE
    /\ got = Nothing

InitCodecs ==
    \/ Init /\ PlanRests /\ PduRests
    \/ StreamRests /\ InitPlan /\ PduRests
    \/ StreamRests /\ PlanRests /\ InitPdu

NextCodecs ==
    \/ Next /\ UNCHANGED <<planVars, pduVars>>
    \/ NextPlan /\ UNCHANGED <<vars, pduVars>>
    \/ NextPdu /\ UNCHANGED <<vars, planVars>>

SpecCodecs == InitCodecs /\ [][NextCodecs]_<<vars, planVars, pduVars>> /\ Fairness
=============================================================================
