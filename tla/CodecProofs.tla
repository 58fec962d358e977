---------------------------- MODULE CodecProofs ----------------------------
(***************************************************************************)
(* Proofs about the data path: how a stream of bytes becomes frames        *)
(* (FrameStream), how a text becomes segments (ContentPlan) and how a PDU  *)
(* becomes a body and a body a PDU (PduCodec).                             *)
(*                                                                         *)
(* The modules compute with folds.  A fold of the community modules is     *)
(* the value of a function that CHOOSE takes among those that follow a     *)
(* rule on the subsets of the positions; the first part shows that there   *)
(* is such a function and that its values along the intervals 1 .. i are   *)
(* the values of a loop after i steps.  Every fold of the three modules is *)
(* then used as the loop that the code has, and what a loop keeps is       *)
(* proved by induction over its positions.                                 *)
(***************************************************************************)
EXTENDS FrameStream, ContentPlan, PduCodec, WellFoundedInduction, SequenceTheorems, TLAPS

-----------------------------------------------------------------------------
\* Folds as loops

\* Induction over the numbers, of the members of a set.
LEMMA SetInduction ==
    ASSUME NEW P, 0 \in P, \A n \in Nat : n \in P => n + 1 \in P
    PROVE  \A n \in Nat : n \in P
<1> DEFINE Bad == {n \in Nat : n \notin P}
           Less == OpToRel(<, Nat)
<1>1. \A m, n \in Nat : m < n => <<m, n>> \in Less
  BY DEF OpToRel
<1>2. IsWellFoundedOn(Less, Nat)
  BY NatLessThanWellFounded
<1> SUFFICES ASSUME Bad # {} PROVE FALSE
  OBVIOUS
<1> HIDE DEF Less
<1>3. PICK b \in Bad : \A y \in Bad : <<y, b>> \notin Less
  BY <1>2, WFMin
<1>4. b # 0 /\ b - 1 \in Nat /\ b - 1 < b
  OBVIOUS
<1>5. b - 1 \in P
  BY <1>1, <1>3, <1>4
<1> QED
  BY <1>4, <1>5


\* The largest number of a set that has the bound in it.
LEMMA TopOfInterval ==
    ASSUME NEW m \in Nat, NEW s \in SUBSET (1 .. m), m \in s PROVE Max(s) = m
<1>1. \A y \in s : m >= y
  OBVIOUS
<1>2. \A x \in s : (\A y \in s : x >= y) => x = m
  OBVIOUS
<1> QED
  BY <1>1, <1>2 DEF Max

FoldTable(g, T, base, op, n) ==
    /\ g \in [SUBSET (1 .. n) -> T]
    /\ \A s \in SUBSET (1 .. n) : g[s] = IF s = {} THEN base ELSE op[<<g[s \ {Max(s)}], Max(s)>>]

\* There is such a function: a fold over the positions has one to choose.
LEMMA FoldExists ==
    ASSUME NEW T, NEW base \in T, NEW n \in Nat, NEW op \in [T \X (1 .. n) -> T]
    PROVE  \E g : FoldTable(g, T, base, op, n)
<1> DEFINE Def(g, m) == FoldTable(g, T, base, op, m)
           Ok(m) == m <= n => \E g : Def(g, m)
<1>1. Ok(0)
  <2> DEFINE g == [s \in SUBSET (1 .. 0) |-> base]
  <2>1. ASSUME NEW s \in SUBSET (1 .. 0) PROVE s = {}
    <3>1. \A x \in s : FALSE
      OBVIOUS
    <3> QED
      BY <3>1
  <2>2. g \in [SUBSET (1 .. 0) -> T]
    OBVIOUS
  <2>3. ASSUME NEW s \in SUBSET (1 .. 0) PROVE g[s] = base /\ s = {}
    BY <2>1
  <2>4. Def(g, 0)
    BY <2>2, <2>3 DEF FoldTable
  <2> HIDE DEF g
  <2> QED
    BY <2>4
<1>2. ASSUME NEW m \in Nat, Ok(m) PROVE Ok(m + 1)
  <2> SUFFICES ASSUME m + 1 <= n PROVE \E h : Def(h, m + 1)
    OBVIOUS
  <2>1. PICK g : Def(g, m)
    BY <1>2
  <2> DEFINE h == [s \in SUBSET (1 .. m + 1) |->
                      IF m + 1 \in s THEN op[<<g[s \ {m + 1}], m + 1>>] ELSE g[s]]
  <2>2. \A s \in SUBSET (1 .. m + 1) : s \ {m + 1} \in SUBSET (1 .. m)
    OBVIOUS
  <2>3. \A s \in SUBSET (1 .. m + 1) : m + 1 \notin s => s \in SUBSET (1 .. m)
    OBVIOUS
  <2>4. h \in [SUBSET (1 .. m + 1) -> T]
    <3>1. ASSUME NEW s \in SUBSET (1 .. m + 1) PROVE h[s] \in T
      BY <2>1, <2>2, <2>3 DEF FoldTable
    <3> QED
      BY <3>1
  <2>5. \A s \in SUBSET (1 .. m) : h[s] = g[s]
    <3>1. \A s \in SUBSET (1 .. m) : m + 1 \notin s /\ s \in SUBSET (1 .. m + 1)
      OBVIOUS
    <3> QED
      BY <3>1
  <2>6. Def(h, m + 1)
    <3> SUFFICES ASSUME NEW s \in SUBSET (1 .. m + 1)
                 PROVE h[s] = IF s = {} THEN base ELSE op[<<h[s \ {Max(s)}], Max(s)>>]
      BY <2>4 DEF FoldTable
    <3>1. CASE m + 1 \in s
      <4>1. Max(s) = m + 1
        BY <3>1, TopOfInterval
      <4>2. h[s] = op[<<g[s \ {m + 1}], m + 1>>]
        BY <3>1
      <4>3. h[s \ {m + 1}] = g[s \ {m + 1}]
        BY <2>2, <2>5
      <4> QED
        BY <3>1, <4>1, <4>2, <4>3
    <3>2. CASE m + 1 \notin s
      <4>1. s \in SUBSET (1 .. m)
        BY <3>2, <2>3
      <4>2. s \ {Max(s)} \in SUBSET (1 .. m)
        BY <4>1
      <4> HIDE DEF h
      <4>3. h[s] = g[s] /\ h[s \ {Max(s)}] = g[s \ {Max(s)}]
        BY <4>1, <4>2, <2>5
      <4> QED
        BY <4>3, <4>1, <2>1 DEF FoldTable
    <3> QED
      BY <3>1, <3>2
  <2> HIDE DEF h
  <2> QED
    BY <2>6
<1> HIDE DEF Ok
<1>3. Ok(n)
  <2> DEFINE P == {m \in Nat : Ok(m)}
  <2>1. 0 \in P /\ \A m \in Nat : m \in P => m + 1 \in P
    BY <1>1, <1>2
  <2> HIDE DEF P
  <2>2. n \in P
    BY <2>1, SetInduction
  <2> QED
    BY <2>2 DEF P
<1> QED
  BY <1>3 DEF Ok

\* A set of positions has a largest member.
LEMMA MaxIsMember ==
    ASSUME NEW n \in Nat, NEW s \in SUBSET (1 .. n), s # {}
    PROVE  Max(s) \in s /\ \A y \in s : y <= Max(s)
<1> DEFINE Has(m) == \A t \in SUBSET (1 .. m) : t # {} => \E x \in t : \A y \in t : x >= y
           P == {m \in Nat : Has(m)}
<1>1. Has(0)
  <2>1. \A i \in 1 .. 0 : FALSE
    OBVIOUS
  <2> QED
    BY <2>1
<1>2. ASSUME NEW m \in Nat, Has(m) PROVE Has(m + 1)
  <2> SUFFICES ASSUME NEW t \in SUBSET (1 .. m + 1), t # {} PROVE \E x \in t : \A y \in t : x >= y
    OBVIOUS
  <2>1. CASE m + 1 \in t
    BY <2>1
  <2>2. CASE m + 1 \notin t
    <3>1. t \in SUBSET (1 .. m)
      BY <2>2
    <3> QED
      BY <1>2, <3>1
  <2> QED
    BY <2>1, <2>2
<1> HIDE DEF Has
<1>3. 0 \in P /\ \A m \in Nat : m \in P => m + 1 \in P
  BY <1>1, <1>2
<1> HIDE DEF P
<1>4. n \in P
  BY <1>3, SetInduction
<1>5. \E x \in s : \A y \in s : x >= y
  BY <1>4 DEF P, Has
<1>6. Max(s) \in s /\ \A y \in s : Max(s) >= y
  BY <1>5 DEF Max
<1> QED
  BY <1>6


\* An interval from 1 and its top.
LEMMA IntervalTop ==
    ASSUME NEW m \in Nat
    PROVE  /\ (1 .. m + 1) \ {m + 1} = 1 .. m
           /\ Max(1 .. m + 1) = m + 1
<1>1. (1 .. m + 1) \ {m + 1} = 1 .. m
  OBVIOUS
<1>2. m + 1 \in Nat /\ (1 .. m + 1) \in SUBSET (1 .. m + 1) /\ m + 1 \in 1 .. m + 1
  OBVIOUS
<1> QED
  BY <1>1, <1>2, TopOfInterval

\* Induction up to a bound.
LEMMA UpTo ==
    ASSUME NEW P, NEW n \in Nat, 0 \in P, \A i \in 1 .. n : i - 1 \in P => i \in P
    PROVE  \A i \in 0 .. n : i \in P
<1> DEFINE Q == {i \in Nat : i <= n => i \in P}
<1>1. 0 \in Q
  OBVIOUS
<1>2. ASSUME NEW i \in Nat, i \in Q PROVE i + 1 \in Q
  <2> SUFFICES ASSUME i + 1 <= n PROVE i + 1 \in P
    OBVIOUS
  <2>1. i + 1 \in 1 .. n /\ i + 1 - 1 = i /\ i \in P
    BY <1>2
  <2> QED
    BY <2>1
<1> HIDE DEF Q
<1>3. \A i \in Nat : i \in Q
  BY <1>1, <1>2, SetInduction
<1> QED
  BY <1>3 DEF Q

\* What a fold looks at on its way are the intervals from 1.
LEMMA IntervalSets ==
    ASSUME NEW n \in Nat
    PROVE  /\ 1 .. 0 = {}
           /\ \A i \in 0 .. n : (1 .. i) \in SUBSET (1 .. n)
           /\ \A i \in 1 .. n : /\ (1 .. i) # {} /\ i - 1 \in 0 .. n /\ i \in 0 .. n
                                /\ (1 .. i) \ {i} = 1 .. (i - 1) /\ Max(1 .. i) = i
<1>1. 1 .. 0 = {} /\ \A i \in 0 .. n : (1 .. i) \in SUBSET (1 .. n)
  OBVIOUS
<1>2. ASSUME NEW i \in 1 .. n
      PROVE  /\ (1 .. i) # {} /\ i - 1 \in 0 .. n /\ i \in 0 .. n
             /\ (1 .. i) \ {i} = 1 .. (i - 1) /\ Max(1 .. i) = i
  <2>1. i - 1 \in Nat /\ i - 1 + 1 = i /\ i \in 1 .. i
    OBVIOUS
  <2>2. (1 .. i) \ {i} = 1 .. (i - 1) /\ Max(1 .. i) = i
    BY <2>1, IntervalTop
  <2> QED
    BY <2>1, <2>2
<1> QED
  BY <1>1, <1>2

\* What is known of the function that a fold chooses: it follows the rule from
\* position to position.
FollowsRule(h, T, base, op, n) ==
    /\ base \in T /\ n \in Nat /\ op \in [T \X (1 .. n) -> T]
    /\ h[{}] = base
    /\ \A x \in SUBSET (1 .. n) :
          x # {} /\ h[x \ {Max(x)}] \in T => h[x] = op[<<h[x \ {Max(x)}], Max(x)>>]

\* A loop over the positions, with its value after each of them.
Loop(c, T, base, op, n) ==
    c \in [0 .. n -> T] /\ c[0] = base /\ \A i \in 1 .. n : c[i] = op[<<c[i - 1], i>>]

\* Along the intervals such a function is a loop: its value after i positions
\* comes from the value after i - 1.
LEMMA RuleIsLoop ==
    ASSUME NEW T, NEW base, NEW n, NEW op, NEW h, FollowsRule(h, T, base, op, n)
    PROVE  \E c : Loop(c, T, base, op, n) /\ c[n] = h[1 .. n]
<1>0. base \in T /\ n \in Nat /\ op \in [T \X (1 .. n) -> T]
  BY DEF FollowsRule
<1> DEFINE P == {i \in 0 .. n : h[1 .. i] \in T}
<1>1. h[1 .. 0] = base
  BY <1>0, IntervalSets DEF FollowsRule
<1>2. ASSUME NEW i \in 1 .. n, h[1 .. (i - 1)] \in T PROVE h[1 .. i] = op[<<h[1 .. (i - 1)], i>>]
  <2>1. /\ (1 .. i) \in SUBSET (1 .. n) /\ (1 .. i) # {} /\ i - 1 \in 0 .. n /\ i \in 0 .. n
        /\ (1 .. i) \ {Max(1 .. i)} = 1 .. (i - 1) /\ Max(1 .. i) = i
    BY <1>0, IntervalSets
  <2> QED
    BY <1>2, <2>1 DEF FollowsRule
<1>3. 0 \in P
  BY <1>0, <1>1
<1>4. ASSUME NEW i \in 1 .. n, i - 1 \in P PROVE i \in P
  <2>1. h[1 .. (i - 1)] \in T
    BY <1>4
  <2>2. op[<<h[1 .. (i - 1)], i>>] \in T
    BY <1>0, <2>1
  <2>3. h[1 .. i] \in T /\ i \in 0 .. n
    BY <1>2, <2>1, <2>2
  <2> QED
    BY <2>3
<1> HIDE DEF P
<1>5. \A i \in 0 .. n : i \in P
  BY <1>0, <1>3, <1>4, UpTo
<1> DEFINE c == [i \in 0 .. n |-> h[1 .. i]]
<1>6. \A i \in 0 .. n : c[i] = h[1 .. i] /\ h[1 .. i] \in T
  BY <1>5 DEF P
<1>7. c \in [0 .. n -> T]
  BY <1>6
<1> HIDE DEF c
<1>8. 0 \in 0 .. n /\ n \in 0 .. n /\ \A i \in 1 .. n : i - 1 \in 0 .. n /\ i \in 0 .. n
  BY <1>0
<1> QED
  BY <1>1, <1>2, <1>6, <1>7, <1>8, <1>0 DEF Loop

-----------------------------------------------------------------------------
\* FrameStream: where frames begin

\* The bytes of some frames.
Sizes(s) == FoldLeft(LAMBDA sum, f : sum + f.size, 0, s)

\* The sizes of frames are summed up by such a function.
LEMMA SizesTable ==
    ASSUME NEW s \in Seq(Frame)
    PROVE  \E g : /\ Sizes(s) = g[1 .. Len(s)]
                  /\ \A x \in SUBSET (1 .. Len(s)) : g[x] = IF x = {} THEN 0 ELSE g[x \ {Max(x)}] + s[Max(x)].size
<1> DEFINE op == [p \in Nat \X (1 .. Len(s)) |-> p[1] + s[p[2]].size]
<1>0. Len(s) \in Nat /\ DOMAIN s = 1 .. Len(s) /\ \A i \in 1 .. Len(s) : s[i].size \in Nat
  <2>1. \A i \in 1 .. Len(s) : s[i] \in Frame
    OBVIOUS
  <2> QED
    BY <2>1 DEF Frame
<1>1. op \in [Nat \X (1 .. Len(s)) -> Nat]
  <2> SUFFICES ASSUME NEW p \in Nat \X (1 .. Len(s)) PROVE p[1] + s[p[2]].size \in Nat
    OBVIOUS
  <2> QED
    BY <1>0
<1>2. PICK g : FoldTable(g, Nat, 0, op, Len(s))
  <2> HIDE DEF op
  <2> QED
    BY <1>0, <1>1, FoldExists
<1>3. g \in [SUBSET (1 .. Len(s)) -> Nat]
  BY <1>2 DEF FoldTable
<1>4. ASSUME NEW x \in SUBSET (1 .. Len(s))
      PROVE  g[x] = IF x = {} THEN 0 ELSE g[x \ {Max(x)}] + s[Max(x)].size
  <2>1. CASE x = {}
    BY <1>2, <2>1 DEF FoldTable
  <2>2. CASE x # {}
    <3>1. Max(x) \in 1 .. Len(s) /\ x \ {Max(x)} \in SUBSET (1 .. Len(s))
      BY <1>0, <2>2, MaxIsMember
    <3>2. g[x] = op[<<g[x \ {Max(x)}], Max(x)>>]
      BY <1>2, <2>2 DEF FoldTable
    <3>3. <<g[x \ {Max(x)}], Max(x)>> \in Nat \X (1 .. Len(s))
      BY <1>3, <3>1
    <3> QED
      BY <2>2, <3>2, <3>3
  <2> QED
    BY <2>1, <2>2
<1> DEFINE Rule(h) == h = [x \in SUBSET (DOMAIN s) |-> IF x = {} THEN 0 ELSE h[x \ {Max(x)}] + s[Max(x)].size]
<1>5. Sizes(s) = (CHOOSE h : Rule(h))[DOMAIN s]
  BY DEF Sizes, FoldLeft, MapThenFoldSet
<1>7. Rule(g)
  BY <1>3, <1>4, <1>0
<1>8. Rule(CHOOSE h : Rule(h))
  <2> HIDE DEF Rule
  <2> QED
    BY <1>7
<1> DEFINE h == CHOOSE h : Rule(h)
<1> HIDE DEF h
<1>9. /\ Sizes(s) = h[1 .. Len(s)]
      /\ \A x \in SUBSET (1 .. Len(s)) : h[x] = IF x = {} THEN 0 ELSE h[x \ {Max(x)}] + s[Max(x)].size
  BY <1>5, <1>0, <1>8 DEF h
<1> QED
  BY <1>9

\* The sum over one more frame.
LEMMA SizesStep ==
    ASSUME NEW s \in Seq(Frame), NEW f \in Frame
    PROVE  Sizes(Append(s, f)) = Sizes(s) + f.size
<1> DEFINE r == Append(s, f)
           n == Len(s)
           Rule(g, t) == \A x \in SUBSET (1 .. Len(t)) :
                            g[x] = IF x = {} THEN 0 ELSE g[x \ {Max(x)}] + t[Max(x)].size
<1>0. /\ n \in Nat /\ r \in Seq(Frame) /\ Len(r) = n + 1 /\ r[n + 1] = f
      /\ \A i \in 1 .. n : r[i] = s[i]
  OBVIOUS
<1> HIDE DEF r, n
<1>1. PICK g : Sizes(s) = g[1 .. n] /\ Rule(g, s)
  BY SizesTable DEF n
<1>2. PICK h : Sizes(r) = h[1 .. Len(r)] /\ Rule(h, r)
  BY <1>0, SizesTable
<1>3. ASSUME NEW m \in Nat PROVE (1 .. m + 1) \ {m + 1} = 1 .. m /\ Max(1 .. m + 1) = m + 1
  <2>1. (1 .. m + 1) \ {m + 1} = 1 .. m
    OBVIOUS
  <2>2. m + 1 \in Nat /\ (1 .. m + 1) \in SUBSET (1 .. m + 1) /\ m + 1 \in 1 .. m + 1
    OBVIOUS
  <2> QED
    BY <2>1, <2>2, TopOfInterval
<1>4. ASSUME NEW t, NEW e, Rule(e, t), NEW m \in Nat, Len(t) \in Nat, m + 1 <= Len(t)
      PROVE  e[1 .. m + 1] = e[1 .. m] + t[m + 1].size
  <2>0. m + 1 \in 1 .. m + 1 /\ \A i \in 1 .. m + 1 : i \in 1 .. Len(t)
    BY <1>4
  <2>1. (1 .. m + 1) \in SUBSET (1 .. Len(t)) /\ 1 .. m + 1 # {}
    BY <2>0
  <2> QED
    BY <1>3, <1>4, <2>1
<1>5. ASSUME NEW t, NEW e, Rule(e, t), Len(t) \in Nat PROVE e[1 .. 0] = 0
  <2>1. 1 .. 0 = {} /\ {} \in SUBSET (1 .. Len(t))
    OBVIOUS
  <2> QED
    BY <1>5, <2>1
<1> DEFINE P == {m \in Nat : m <= n => g[1 .. m] = h[1 .. m]}
<1> HIDE DEF Rule
<1>6. 0 \in P
  BY <1>0, <1>1, <1>2, <1>5 DEF n
<1>7. ASSUME NEW m \in Nat, m \in P PROVE m + 1 \in P
  <2> SUFFICES ASSUME m + 1 <= n PROVE g[1 .. m + 1] = h[1 .. m + 1]
    OBVIOUS
  <2>1. g[1 .. m] = h[1 .. m] /\ s[m + 1] = r[m + 1]
    BY <1>0, <1>7
  <2>2. g[1 .. m + 1] = g[1 .. m] + s[m + 1].size
    BY <1>0, <1>1, <1>4 DEF n
  <2>3. h[1 .. m + 1] = h[1 .. m] + r[m + 1].size
    BY <1>0, <1>2, <1>4
  <2> QED
    BY <2>1, <2>2, <2>3
<1> HIDE DEF P
<1>8. n \in P
  BY <1>0, <1>6, <1>7, SetInduction
<1>9. g[1 .. n] = h[1 .. n]
  BY <1>0, <1>8 DEF P
<1>10. h[1 .. n + 1] = h[1 .. n] + r[n + 1].size
  BY <1>0, <1>2, <1>4
<1> QED
  BY <1>0, <1>1, <1>2, <1>9, <1>10 DEF r

\* No frames have no bytes.
LEMMA SizesEmpty == Sizes(<<>>) = 0
<1> DEFINE Rule(g, t) == \A x \in SUBSET (1 .. Len(t)) :
                            g[x] = IF x = {} THEN 0 ELSE g[x \ {Max(x)}] + t[Max(x)].size
<1>1. <<>> \in Seq(Frame) /\ Len(<<>>) = 0
  OBVIOUS
<1>2. \A t \in Seq(Frame) : \E g : Sizes(t) = g[1 .. Len(t)] /\ Rule(g, t)
  BY SizesTable
<1>3. ASSUME NEW g, NEW t, Len(t) = 0, Rule(g, t) PROVE g[1 .. Len(t)] = 0
  <2>1. 1 .. 0 = {} /\ {} \in SUBSET (1 .. 0)
    OBVIOUS
  <2> QED
    BY <1>3, <2>1
<1> HIDE DEF Rule
<1> QED
  BY <1>1, <1>2, <1>3

-----------------------------------------------------------------------------
\* What was taken was received.
NotBehind == pc # "over" => Start(taken + 1) <= received /\ result = "none"

\* Before the reader starts no frame was taken; it has handled all but the first.
Progress ==
    /\ pc \in {"tcp", "write", "login"} => taken = 0 /\ out = <<>> /\ held = <<>>
    /\ pc \in {"decode", "wait"} => Len(out) + Len(held) = taken - 1

StreamInv ==
    TypeOK /\ BytesKept /\ InOrder /\ WaitsStarved /\ EndJustified /\ NotBehind /\ Progress

\* Where a frame begins is the sum of the sizes before it.
LEMMA StartIsSizes == \A i : Start(i) = Sizes(SubSeq(stream, 1, i - 1))
  BY DEF Start, Sizes

\* Where the frames begin.
LEMMA StartFacts ==
    ASSUME stream \in Seq(Frame)
    PROVE  /\ Start(1) = 0
           /\ \A i \in 1 .. Len(stream) : Start(i + 1) = Start(i) + stream[i].size
           /\ \A i \in 1 .. Len(stream) + 1 : Start(i) \in Nat
<1>0. Len(stream) \in Nat /\ \A i \in 1 .. Len(stream) : stream[i] \in Frame /\ stream[i].size \in Nat
  <2>1. Len(stream) \in Nat /\ \A i \in 1 .. Len(stream) : stream[i] \in Frame
    OBVIOUS
  <2> QED
    BY <2>1 DEF Frame
<1>1. Start(1) = 0
  <2>1. SubSeq(stream, 1, 1 - 1) = <<>>
    OBVIOUS
  <2> QED
    BY <2>1, StartIsSizes, SizesEmpty
<1>2. ASSUME NEW i \in 1 .. Len(stream) PROVE Start(i + 1) = Start(i) + stream[i].size
  <2>1. /\ SubSeq(stream, 1, i - 1) \in Seq(Frame)
        /\ SubSeq(stream, 1, i + 1 - 1) = Append(SubSeq(stream, 1, i - 1), stream[i])
    <3>1. i \in Nat /\ i - 1 \in Nat /\ i + 1 - 1 = i /\ i <= Len(stream)
      BY <1>0
    <3> DEFINE a == SubSeq(stream, 1, i - 1)
               b == SubSeq(stream, 1, i)
    <3>2. a \in Seq(Frame) /\ b \in Seq(Frame) /\ Len(a) = i - 1 /\ Len(b) = i
      BY <1>0, <3>1
    <3>3. \A j \in 1 .. i : b[j] = Append(a, stream[i])[j]
      BY <1>0, <3>1, <3>2
    <3>4. b = Append(a, stream[i])
      BY <1>0, <3>1, <3>2, <3>3
    <3> QED
      BY <3>1, <3>2, <3>4
  <2>2. Start(i) = Sizes(SubSeq(stream, 1, i - 1)) /\ Start(i + 1) = Sizes(SubSeq(stream, 1, i + 1 - 1))
    BY StartIsSizes
  <2>3. \A f \in Frame : \A t \in Seq(Frame) : Sizes(Append(t, f)) = Sizes(t) + f.size
    BY SizesStep
  <2>4. stream[i] \in Frame
    BY <1>0
  <2> QED
    BY <2>1, <2>2, <2>3, <2>4
<1> DEFINE P == {n \in Nat : n <= Len(stream) => Start(n + 1) \in Nat}
<1>3. 0 \in P
  BY <1>1
<1>4. ASSUME NEW n \in Nat, n \in P PROVE n + 1 \in P
  <2> SUFFICES ASSUME n + 1 <= Len(stream) PROVE Start(n + 1 + 1) \in Nat
    OBVIOUS
  <2>1. n + 1 \in 1 .. Len(stream) /\ Start(n + 1) \in Nat
    BY <1>0, <1>4
  <2> HIDE DEF P
  <2> QED
    BY <2>1, <1>0, <1>2
<1> HIDE DEF P
<1>5. \A n \in Nat : n \in P
  BY <1>3, <1>4, SetInduction
<1>6. ASSUME NEW i \in 1 .. Len(stream) + 1 PROVE Start(i) \in Nat
  <2>1. i - 1 \in Nat /\ i - 1 <= Len(stream) /\ i - 1 + 1 = i
    BY <1>0
  <2> QED
    BY <1>5, <2>1 DEF P
<1> QED
  BY <1>1, <1>2, <1>6

\* A frame ends before the next one begins.
LEMMA StartOrder ==
    ASSUME stream \in Seq(Frame), NEW i \in 1 .. Len(stream), NEW j \in i + 1 .. Len(stream) + 1
    PROVE  Start(i) + stream[i].size <= Start(j)
<1>0. Len(stream) \in Nat /\ \A k \in 1 .. Len(stream) : stream[k] \in Frame /\ stream[k].size \in Nat
  <2>1. Len(stream) \in Nat /\ \A k \in 1 .. Len(stream) : stream[k] \in Frame
    OBVIOUS
  <2> QED
    BY <2>1 DEF Frame
<1> DEFINE P == {n \in Nat : i + 1 + n <= Len(stream) + 1 => Start(i + 1) <= Start(i + 1 + n)}
<1>1. 0 \in P
  BY <1>0, StartFacts
<1>2. ASSUME NEW n \in Nat, n \in P PROVE n + 1 \in P
  <2> SUFFICES ASSUME i + 1 + n + 1 <= Len(stream) + 1 PROVE Start(i + 1) <= Start(i + 1 + n + 1)
    OBVIOUS
  <2>1. i + 1 + n \in 1 .. Len(stream) /\ Start(i + 1) <= Start(i + 1 + n)
    BY <1>0, <1>2
  <2> HIDE DEF P
  <2>2. Start(i + 1 + n + 1) = Start(i + 1 + n) + stream[i + 1 + n].size
    BY <2>1, StartFacts
  <2>3. Start(i + 1) \in Nat /\ Start(i + 1 + n) \in Nat
    BY <1>0, <2>1, StartFacts
  <2> QED
    BY <1>0, <2>1, <2>2, <2>3
<1> HIDE DEF P
<1>3. j - (i + 1) \in P
  BY <1>0, <1>1, <1>2, SetInduction
<1>4. Start(i + 1) <= Start(j)
  <2>1. i + 1 + (j - (i + 1)) = j /\ j <= Len(stream) + 1
    BY <1>0
  <2> QED
    BY <1>3, <2>1 DEF P
<1> QED
  BY <1>4, StartFacts

\* What the frames of a stream look like.
LEMMA StreamTyped ==
    ASSUME TypeOK
    PROVE  /\ stream \in Seq(Frame) /\ Len(stream) \in Nat /\ DOMAIN stream = 1 .. Len(stream)
           /\ \A i \in 1 .. Len(stream) :
                 /\ stream[i].total \in Nat /\ stream[i].size \in Nat /\ stream[i].size >= Header
                 /\ stream[i].total \in Header .. MaxLength => stream[i].total = stream[i].size
           /\ Header \in Nat \ {0} /\ MaxLength \in Nat /\ Header <= MaxLength
<1>1. stream \in Streams /\ StreamAssumption
  BY StreamAssumption DEF TypeOK
<1>2. /\ stream \in Seq(Frame)
      /\ \A i \in DOMAIN stream :
            /\ stream[i].size >= Header
            /\ stream[i].total = stream[i].size \/ stream[i].total \notin Header .. MaxLength
  BY <1>1 DEF StreamAssumption
<1>3. Len(stream) \in Nat /\ DOMAIN stream = 1 .. Len(stream) /\ \A i \in 1 .. Len(stream) : stream[i] \in Frame
  BY <1>2
<1>4. \A i \in 1 .. Len(stream) : stream[i].total \in Nat /\ stream[i].size \in Nat
  BY <1>3 DEF Frame
<1> QED
  BY <1>1, <1>2, <1>3, <1>4 DEF StreamAssumption

\* The buffer begins with the first frame that was not taken.
LEMMA HeadOfBuffer ==
    ASSUME TypeOK, BytesKept, NotBehind, pc # "over"
    PROVE  /\ Start(taken + 1) \in Nat /\ Len(buf) = received - Start(taken + 1)
           /\ buf = [i \in 1 .. received - Start(taken + 1) |-> Start(taken + 1) + i]
           /\ Len(buf) > 0 => /\ taken + 1 \in 1 .. Len(stream)
                              /\ HeadFrame = stream[taken + 1]
                              /\ TotalLength = stream[taken + 1].total
<1>1. taken \in 0 .. Len(stream) /\ received \in 0 .. end /\ end \in 0 .. Start(Len(stream) + 1)
  BY DEF TypeOK, Whole
<1>2. /\ Len(stream) \in Nat /\ stream \in Seq(Frame) /\ DOMAIN stream = 1 .. Len(stream)
      /\ \A i \in 1 .. Len(stream) : stream[i].size \in Nat /\ stream[i].size > 0
  BY StreamTyped
<1>3. Start(Len(stream) + 1) \in Nat /\ Start(taken + 1) \in Nat
  BY <1>1, <1>2, StartFacts
<1>4. received \in Nat /\ Start(taken + 1) <= received /\ received <= Start(Len(stream) + 1)
  BY <1>1, <1>3 DEF NotBehind
<1>5. buf = [i \in 1 .. received - Start(taken + 1) |-> Start(taken + 1) + i]
  BY DEF BytesKept
<1>6. Len(buf) = received - Start(taken + 1)
  BY <1>3, <1>4, <1>5
<1>7. ASSUME Len(buf) > 0
      PROVE  /\ taken + 1 \in 1 .. Len(stream)
             /\ HeadFrame = stream[taken + 1]
             /\ TotalLength = stream[taken + 1].total
  <2>1. buf[1] = Start(taken + 1) + 1
    BY <1>3, <1>4, <1>5, <1>6, <1>7
  <2>2. taken # Len(stream)
    BY <1>3, <1>4, <1>6, <1>7
  <2>3. taken + 1 \in 1 .. Len(stream)
    <3>1. taken \in Nat /\ taken <= Len(stream) /\ Len(stream) \in Nat
      BY <1>1, <1>2
    <3> QED
      BY <2>2, <3>1
  <2>4. Begins(taken + 1)
    BY <1>2, <2>1, <2>3 DEF Begins
  <2>5. ASSUME NEW i \in 1 .. Len(stream), Begins(i) PROVE i = taken + 1
    <3>1. Start(i) + 1 = Start(taken + 1) + 1 /\ Start(i) \in Nat
      BY <1>2, <2>1, <2>5, StartFacts DEF Begins
    <3>2. CASE i < taken + 1
      <4>1. taken + 1 \in i + 1 .. Len(stream) + 1
        BY <1>2, <2>3, <3>2
      <4>2. Start(i) + stream[i].size <= Start(taken + 1)
        BY <1>2, <4>1, StartOrder
      <4> QED
        BY <1>2, <1>3, <3>1, <4>2
    <3>3. CASE i > taken + 1
      <4>1. i \in taken + 1 + 1 .. Len(stream) + 1
        BY <1>2, <2>3, <3>3
      <4>2. Start(taken + 1) + stream[taken + 1].size <= Start(i)
        BY <1>2, <2>3, <4>1, StartOrder
      <4> QED
        BY <1>2, <1>3, <2>3, <3>1, <4>2
    <3> QED
      BY <1>2, <2>3, <3>2, <3>3
  <2>6. (CHOOSE i \in DOMAIN stream : Begins(i)) = taken + 1
    BY <1>2, <2>3, <2>4, <2>5
  <2> QED
    BY <1>2, <2>3, <2>4, <2>6 DEF HeadFrame, TotalLength, Aligned
<1> QED
  BY <1>3, <1>5, <1>6, <1>7

\* Splitting the first frame off leaves the bytes behind it.
LEMMA HeadSplits ==
    ASSUME TypeOK, BytesKept, NotBehind, pc # "over", HasFrame, Split, UNCHANGED <<peer, received>>
    PROVE  /\ taken + 1 \in 1 .. Len(stream) /\ taken' = taken + 1
           /\ HeadFrame = stream[taken + 1]
           /\ Start(taken + 2) <= received
           /\ buf' = [i \in 1 .. received - Start(taken + 2) |-> Start(taken + 2) + i]
           /\ buf' \in Seq(1 .. Whole)
<1>1. /\ Len(stream) \in Nat /\ stream \in Seq(Frame) /\ Header \in Nat \ {0}
      /\ \A i \in 1 .. Len(stream) :
            /\ stream[i].size \in Nat /\ stream[i].size >= Header
            /\ stream[i].total \in Header .. MaxLength => stream[i].total = stream[i].size
  BY StreamTyped
<1>2. Len(buf) >= Header /\ TotalLength \in Header .. MaxLength /\ Len(buf) >= TotalLength
  BY DEF HasFrame
<1>3. received \in Nat /\ buf \in Seq(1 .. Whole) /\ taken \in Nat /\ Len(buf) \in Nat
  <2>1. Whole \in Nat
    BY <1>1, StartFacts DEF Whole
  <2> QED
    BY <2>1 DEF TypeOK
<1>4. /\ taken + 1 \in 1 .. Len(stream) /\ HeadFrame = stream[taken + 1]
      /\ TotalLength = stream[taken + 1].size
      /\ Start(taken + 1) \in Nat /\ Len(buf) = received - Start(taken + 1)
      /\ buf = [i \in 1 .. received - Start(taken + 1) |-> Start(taken + 1) + i]
  <2>1. Len(buf) > 0
    BY <1>1, <1>2, <1>3
  <2> QED
    BY <1>1, <1>2, <2>1, HeadOfBuffer
<1>5. Start(taken + 2) = Start(taken + 1) + TotalLength /\ TotalLength \in Nat
  <2>1. taken + 1 + 1 = taken + 2
    BY <1>3
  <2>2. Start(taken + 1 + 1) = Start(taken + 1) + stream[taken + 1].size
    BY <1>1, <1>4, StartFacts
  <2> QED
    BY <1>1, <1>4, <2>1, <2>2
<1>6. Start(taken + 2) <= received
  BY <1>2, <1>3, <1>4, <1>5
<1>7. buf' = SubSeq(buf, TotalLength + 1, Len(buf)) /\ taken' = taken + 1
  BY DEF Split
<1>8. buf' \in Seq(1 .. Whole)
  <2>1. \A B : \A b \in Seq(B) : \A m \in Nat : m <= Len(b) => SubSeq(b, m + 1, Len(b)) \in Seq(B)
    OBVIOUS
  <2> QED
    BY <1>2, <1>3, <1>5, <1>7, <2>1
<1> DEFINE n == received - Start(taken + 2)
<1>9. n \in Nat /\ Len(buf) - TotalLength = n
  BY <1>2, <1>3, <1>4, <1>5, <1>6
<1>10. buf' = [i \in 1 .. n |-> Start(taken + 2) + i]
  <2>1. Len(buf') = n /\ buf' \in Seq(1 .. Whole)
    BY <1>2, <1>3, <1>5, <1>7, <1>8, <1>9
  <2>2. ASSUME NEW i \in 1 .. n PROVE buf'[i] = Start(taken + 2) + i
    <3> HIDE DEF n
    <3>1. TotalLength + i \in 1 .. Len(buf) /\ buf'[i] = buf[TotalLength + i]
      BY <1>2, <1>3, <1>5, <1>7, <1>9
    <3>2. TotalLength + i \in 1 .. received - Start(taken + 1)
      BY <1>4, <3>1
    <3>3. buf[TotalLength + i] = Start(taken + 1) + (TotalLength + i)
      BY <1>4, <3>2
    <3> QED
      BY <1>4, <1>5, <1>9, <3>1, <3>3
  <2> HIDE DEF n
  <2>3. DOMAIN buf' = 1 .. n /\ buf' = [i \in DOMAIN buf' |-> buf'[i]]
    BY <1>9, <2>1
  <2> QED
    BY <2>2, <2>3
<1> QED
  BY <1>4, <1>6, <1>7, <1>8, <1>10

\* No step moves a frame.
LEMMA StartStays ==
    ASSUME UNCHANGED peer
    PROVE  /\ \A i : Start(i)' = Start(i)
           /\ Whole' = Whole
<1>1. stream' = stream
  BY DEF peer
<1>2. (\A i : Start(i) = Sizes(SubSeq(stream, 1, i - 1)))'
  BY StartIsSizes, PTL
<1>3. \A i : Start(i)' = Sizes(SubSeq(stream', 1, i - 1))
  BY <1>2
<1> QED
  BY <1>1, <1>3, StartIsSizes DEF Whole

\* Two stretches of bytes that follow each other.
LEMMA Adjacent ==
    ASSUME NEW a \in Nat, NEW b \in Nat, NEW n \in Nat
    PROVE  [i \in 1 .. b |-> a + i] \o [i \in 1 .. n |-> a + b + i] = [i \in 1 .. b + n |-> a + i]
<1> DEFINE old == [i \in 1 .. b |-> a + i]
           new == [i \in 1 .. n |-> a + b + i]
           all == [i \in 1 .. b + n |-> a + i]
<1>1. old \in Seq(Nat) /\ new \in Seq(Nat) /\ all \in Seq(Nat) /\ Len(old) = b /\ Len(new) = n /\ Len(all) = b + n
  BY IsASeq
<1>2. /\ \A i \in 1 .. b : old[i] = a + i
      /\ \A i \in 1 .. n : new[i] = a + b + i
      /\ \A i \in 1 .. b + n : all[i] = a + i
  OBVIOUS
<1> HIDE DEF old, new, all
<1>3. /\ old \o new \in Seq(Nat) /\ Len(old \o new) = b + n
      /\ \A i \in 1 .. b + n : (old \o new)[i] = IF i <= b THEN old[i] ELSE new[i - b]
  BY <1>1, ConcatProperties
<1>4. ASSUME NEW i \in 1 .. b + n PROVE (old \o new)[i] = all[i]
  <2>1. CASE i <= b
    <3>1. i \in 1 .. b
      BY <2>1
    <3> QED
      BY <1>2, <1>3, <3>1
  <2>2. CASE i > b
    <3>1. i - b \in 1 .. n /\ a + b + (i - b) = a + i
      BY <2>2
    <3>2. new[i - b] = a + b + (i - b)
      BY <1>2, <3>1
    <3> QED
      BY <1>2, <1>3, <2>2, <3>1, <3>2
  <2>3. i <= b \/ i > b
    OBVIOUS
  <2> QED
    BY <2>1, <2>2, <2>3
<1>5. old \o new = all
  BY <1>1, <1>3, <1>4, SeqEqual
<1> QED
  BY <1>5 DEF old, new, all

\* What a read adds to the buffer is what follows in the stream.
LEMMA ReceiveKeeps ==
    ASSUME TypeOK, BytesKept, NotBehind, pc # "over", NEW n \in Nat, Receive(n)
    PROVE  /\ received' \in received .. end /\ Start(taken + 1) <= received'
           /\ buf' = [i \in 1 .. received' - Start(taken + 1) |-> Start(taken + 1) + i]
           /\ buf' \in Seq(1 .. Whole)
<1>1. Whole \in Nat /\ received \in Nat /\ end \in Nat /\ end <= Whole
  <2>1. Whole \in Nat
    BY StreamTyped, StartFacts DEF Whole
  <2> QED
    BY <2>1 DEF TypeOK
<1>2. /\ Start(taken + 1) \in Nat /\ Start(taken + 1) <= received
      /\ buf = [i \in 1 .. received - Start(taken + 1) |-> Start(taken + 1) + i]
  BY HeadOfBuffer DEF NotBehind
<1>3. received + n <= end /\ received' = received + n /\ buf' = buf \o [i \in 1 .. n |-> received + i]
  BY DEF Receive
<1> DEFINE at == Start(taken + 1)
<1> HIDE DEF at
<1>4. at \in Nat /\ at <= received /\ received - at \in Nat /\ at + (received - at) = received
  BY <1>1, <1>2 DEF at
<1>5. buf' = [i \in 1 .. received' - at |-> at + i]
  <2> DEFINE b == received - at
  <2>1. b \in Nat /\ at + b = received /\ received' - at = b + n
    BY <1>1, <1>3, <1>4
  <2>2. buf' = [i \in 1 .. b |-> at + i] \o [i \in 1 .. n |-> at + b + i]
    BY <1>2, <1>3, <1>4 DEF at
  <2> HIDE DEF b
  <2>3. buf' = [i \in 1 .. b + n |-> at + i]
    BY <1>4, <2>1, <2>2, Adjacent
  <2> QED
    BY <2>1, <2>3
<1>6. buf' \in Seq(1 .. Whole)
  <2>1. received' - at \in Nat /\ \A i \in 1 .. received' - at : at + i \in 1 .. Whole
    BY <1>1, <1>3, <1>4
  <2>2. \A f : \A B : \A m \in Nat : f = [i \in 1 .. m |-> f[i]] /\ (\A i \in 1 .. m : f[i] \in B) => f \in Seq(B)
    BY IsASeq
  <2>3. \A i \in 1 .. received' - at : buf'[i] = at + i
    BY <1>5
  <2> HIDE DEF at
  <2>4. buf' = [i \in 1 .. received' - at |-> buf'[i]]
    BY <1>5, <2>3
  <2> QED
    BY <2>1, <2>2, <2>3, <2>4
<1>7. received' \in received .. end /\ at <= received'
  BY <1>1, <1>3, <1>4
<1> QED
  BY <1>5, <1>6, <1>7 DEF at

\* A buffer in which decode finds neither a frame nor a bad length holds less
\* than a frame.
LEMMA NothingWhole ==
    ASSUME TypeOK, BytesKept, NotBehind, pc # "over", ~HasFrame, ~BadLength
    PROVE  /\ Len(buf) < MaxLength
           /\ \A i \in 1 .. Len(stream) : i > taken => received < Start(i) + stream[i].size
<1>1. /\ Len(stream) \in Nat /\ stream \in Seq(Frame)
      /\ Header \in Nat \ {0} /\ MaxLength \in Nat /\ Header <= MaxLength
      /\ \A i \in 1 .. Len(stream) :
            /\ stream[i].size \in Nat /\ stream[i].size >= Header
            /\ stream[i].total \in Header .. MaxLength => stream[i].total = stream[i].size
  BY StreamTyped
<1>2. /\ Start(taken + 1) \in Nat /\ Len(buf) = received - Start(taken + 1) /\ Start(taken + 1) <= received
      /\ Len(buf) > 0 => taken + 1 \in 1 .. Len(stream) /\ TotalLength = stream[taken + 1].total
  BY HeadOfBuffer DEF NotBehind
<1>3. received \in Nat /\ taken \in Nat /\ Len(buf) \in Nat
  <2>1. Whole \in Nat
    BY <1>1, StartFacts DEF Whole
  <2> QED
    BY <2>1, <1>2 DEF TypeOK
<1>4. Len(buf) >= Header => Len(buf) < TotalLength /\ TotalLength \in Header .. MaxLength
  BY <1>1, <1>3, <1>2 DEF HasFrame, BadLength
<1>5. Len(buf) < MaxLength
  BY <1>1, <1>3, <1>4
<1>6. ASSUME NEW i \in 1 .. Len(stream), i > taken, received >= Start(i) + stream[i].size PROVE FALSE
  <2>1. taken + 1 \in 1 .. Len(stream) /\ Start(i) \in Nat
    BY <1>1, <1>3, <1>6, StartFacts
  <2>2. received >= Start(taken + 1) + stream[taken + 1].size
    <3>1. CASE i = taken + 1
      BY <1>6, <3>1
    <3>2. CASE i # taken + 1
      <4>1. i \in taken + 1 + 1 .. Len(stream) + 1
        BY <1>1, <1>3, <1>6, <3>2
      <4>2. Start(taken + 1) + stream[taken + 1].size <= Start(i)
        BY <1>1, <2>1, <4>1, StartOrder
      <4> QED
        BY <1>1, <1>2, <1>3, <1>6, <2>1, <4>2
    <3> QED
      BY <3>1, <3>2
  <2>3. Len(buf) >= stream[taken + 1].size /\ Len(buf) >= Header
    BY <1>1, <1>2, <1>3, <2>1, <2>2
  <2>4. TotalLength = stream[taken + 1].size
    BY <1>1, <1>2, <1>4, <2>1, <2>3
  <2> QED
    BY <1>1, <1>3, <1>4, <2>1, <2>3, <2>4
<1>7. \A i \in 1 .. Len(stream) : Start(i) \in Nat
  BY <1>1, StartFacts
<1> QED
  BY <1>1, <1>3, <1>5, <1>6, <1>7

\* A length out of bounds is the fault of the frame at the head.
LEMMA HeadIsBad ==
    ASSUME TypeOK, BytesKept, NotBehind, pc # "over", BadLength
    PROVE  taken + 1 \in 1 .. Len(stream) /\ ~Good(stream[taken + 1])
<1>1. /\ Header \in Nat \ {0} /\ MaxLength \in Nat
      /\ \A i \in 1 .. Len(stream) : /\ stream[i].total \in Nat /\ stream[i].size \in Nat
                                     /\ stream[i].size >= Header
  BY StreamTyped
<1>2. Len(buf) >= Header /\ TotalLength \notin Header .. MaxLength
  BY DEF BadLength
<1>3. Len(buf) \in Nat
  <2>1. Whole \in Nat
    BY StreamTyped, StartFacts DEF Whole
  <2> QED
    BY <2>1 DEF TypeOK
<1>4. taken + 1 \in 1 .. Len(stream) /\ TotalLength = stream[taken + 1].total
  <2>1. Len(buf) > 0
    BY <1>1, <1>2, <1>3
  <2> QED
    BY <2>1, HeadOfBuffer
<1> QED
  BY <1>1, <1>2, <1>4 DEF Good

\* It holds initially.
LEMMA StreamInit == Init => StreamInv
<1> SUFFICES ASSUME Init PROVE StreamInv
  OBVIOUS
<1>1. stream \in Seq(Frame)
  BY StreamAssumption DEF Init, StreamAssumption
<1>2. RespMax \in Nat \ {0} /\ Start(1) = 0 /\ Whole \in Nat
  BY <1>1, StreamAssumption, StartFacts DEF StreamAssumption, Whole
<1>3. Len(stream) \in Nat
  BY <1>1
<1>4. TypeOK
  <2>1. \A S : <<>> \in Seq(S)
    OBVIOUS
  <2>2. Len(held) = 0 /\ 0 \in 0 .. end /\ 0 \in 0 .. Len(stream)
    BY <1>2, <1>3 DEF Init
  <2>3. Len(held) < RespMax
    BY <1>2, <2>2
  <2> QED
    BY <2>1, <2>2, <2>3 DEF Init, TypeOK
<1>5. NotBehind /\ Progress /\ InOrder /\ WaitsStarved /\ EndJustified
  BY <1>2 DEF Init, NotBehind, Progress, InOrder, WaitsStarved, EndJustified
<1>6. BytesKept
  BY <1>2 DEF Init, BytesKept
<1> QED
  BY <1>4, <1>5, <1>6 DEF StreamInv

\* What every step starts from.
LEMMA StepFacts ==
    ASSUME StreamInv
    PROVE  /\ TypeOK /\ BytesKept /\ NotBehind
           /\ Len(stream) \in Nat /\ DOMAIN stream = 1 .. Len(stream) /\ taken \in 0 .. Len(stream)
           /\ RespMax \in Nat \ {0} /\ Whole \in Nat /\ received \in Nat /\ end \in Nat
           /\ held \in Seq(1 .. Len(stream)) /\ out \in Seq(1 .. Len(stream))
           /\ \A i \in 1 .. Len(stream) : Start(i) \in Nat /\ Start(i + 1) = Start(i) + stream[i].size
<1>1. TypeOK /\ BytesKept /\ NotBehind
  BY DEF StreamInv
<1>2. /\ stream \in Seq(Frame) /\ Len(stream) \in Nat /\ DOMAIN stream = 1 .. Len(stream)
  BY <1>1, StreamTyped
<1>3. Whole \in Nat /\ \A i \in 1 .. Len(stream) : Start(i) \in Nat /\ Start(i + 1) = Start(i) + stream[i].size
  BY <1>2, StartFacts DEF Whole
<1> QED
  BY <1>1, <1>2, <1>3, StreamAssumption DEF TypeOK, StreamAssumption

\* The steps that take no frame, read nothing and do not end the connection.
LEMMA QuietStep ==
    ASSUME StreamInv, UNCHANGED <<peer, received, buf, result, taken>>,
           \/ pc = "tcp" /\ pc' = "write" /\ UNCHANGED <<held, out, closed>>
           \/ pc = "write" /\ pc' = "login" /\ UNCHANGED <<held, out, closed>>
           \/ UNCHANGED <<pc, held, out>> /\ closed' \in BOOLEAN
    PROVE  StreamInv'
<1>0. (\A i : Start(i)' = Start(i)) /\ Whole' = Whole /\ stream' = stream /\ end' = end
  BY StartStays DEF peer
<1>1. TypeOK'
  BY <1>0 DEF StreamInv, TypeOK, peer
<1>2. BytesKept' /\ NotBehind'
  BY <1>0 DEF StreamInv, BytesKept, NotBehind, TypeOK
<1>3. Progress' /\ InOrder'
  BY DEF StreamInv, Progress, InOrder
<1>4. WaitsStarved'
  BY <1>0 DEF StreamInv, WaitsStarved
<1>5. EndJustified'
  BY <1>0 DEF StreamInv, EndJustified, NotBehind
<1> QED
  BY <1>1, <1>2, <1>3, <1>4, <1>5 DEF StreamInv

Ends == {"connect", "auth", "mismatch", "timeout", "io", "handler", "closed"}

\* The steps that end the connection keep what was handled and account for the end.
LEMMA EndStep ==
    ASSUME StreamInv, UNCHANGED <<peer, received, closed>>, pc' = "over",
           taken' \in taken .. Len(stream), buf' \in Seq(1 .. Whole),
           held' = <<>>, out' \in Seq(1 .. Len(stream)), InOrder', EndJustified',
           result' \in Ends \cup {"decode", "eof", "truncated"}
    PROVE  StreamInv'
<1>0. (\A i : Start(i)' = Start(i)) /\ Whole' = Whole /\ stream' = stream /\ end' = end
  BY StartStays DEF peer
<1>1. TypeOK'
  <2>1. (\A S : <<>> \in Seq(S)) /\ Len(held') < RespMax
    BY StepFacts
  <2>2. taken' \in 0 .. Len(stream)
    BY StepFacts
  <2> QED
    BY <1>0, <2>1, <2>2, StepFacts DEF TypeOK, peer, Ends
<1>2. BytesKept' /\ NotBehind' /\ Progress' /\ WaitsStarved'
  BY DEF BytesKept, NotBehind, Progress, WaitsStarved
<1> QED
  BY <1>1, <1>2 DEF StreamInv

\* What the batch holds is handled next.
LEMMA FlushKeeps ==
    ASSUME StreamInv, Flush, taken' \in taken .. Len(stream)
    PROVE  /\ held' = <<>> /\ out' \in Seq(1 .. Len(stream)) /\ InOrder'
           /\ Len(out') = Len(out) + Len(held)
<1>1. held' = <<>> /\ out' = out \o held
  BY DEF Flush
<1>2. /\ held \in Seq(1 .. Len(stream)) /\ out \in Seq(1 .. Len(stream)) /\ Len(stream) \in Nat
      /\ taken \in 0 .. Len(stream)
  BY StepFacts
<1>3. out' \in Seq(1 .. Len(stream)) /\ out' \o held' = out \o held
  BY <1>1, <1>2, ConcatProperties, ConcatEmptySeq
<1>4. InOrder'
  <2>1. /\ \A k \in DOMAIN (out \o held) : (out \o held)[k] = k + 1
        /\ Len(out \o held) <= taken
    BY DEF StreamInv, InOrder
  <2>2. Len(out \o held) \in Nat /\ taken <= taken'
    BY <1>2, ConcatProperties
  <2> QED
    BY <1>2, <1>3, <2>1, <2>2 DEF InOrder
<1> QED
  BY <1>1, <1>2, <1>3, <1>4, ConcatProperties

\* With nothing held there is nothing to flush.
LEMMA NothingHeld ==
    ASSUME StreamInv, held = <<>>, UNCHANGED <<held, out>> PROVE Flush
  BY StepFacts, ConcatEmptySeq DEF Flush

\* An end that needs no account.
LEMMA PlainEnd ==
    ASSUME StreamInv, UNCHANGED <<peer, received, closed>>, pc' = "over", result' \in Ends,
           \/ UNCHANGED <<buf, taken>>
           \/ HasFrame /\ Split /\ pc # "over",
           Flush
    PROVE  StreamInv'
<1>1. taken' \in taken .. Len(stream) /\ buf' \in Seq(1 .. Whole)
  <2>1. CASE UNCHANGED <<buf, taken>>
    BY <2>1, StepFacts DEF TypeOK
  <2>2. CASE HasFrame /\ Split /\ pc # "over"
    BY <2>2, StepFacts, HeadSplits
  <2> QED
    BY <2>1, <2>2
<1>2. held' = <<>> /\ out' \in Seq(1 .. Len(stream)) /\ InOrder'
  BY <1>1, FlushKeeps
<1>3. EndJustified'
  BY DEF EndJustified, Ends
<1> QED
  BY <1>1, <1>2, <1>3, EndStep

\* The frames of an undecodable stream are to blame.
LEMMA DecodeEnd ==
    ASSUME StreamInv, UNCHANGED <<peer, received, closed>>, pc # "over", pc' = "over", result' = "decode",
           \/ BadLength /\ UNCHANGED <<buf, taken>>
           \/ HasFrame /\ HeadFrame.kind = "garbled" /\ Split,
           Flush
    PROVE  StreamInv'
<1>0. (\A i : Start(i)' = Start(i)) /\ stream' = stream /\ end' = end
  BY StartStays DEF peer
<1>1. /\ taken' \in taken .. Len(stream) /\ buf' \in Seq(1 .. Whole)
      /\ \E i \in {taken', taken' + 1} : i \in 1 .. Len(stream) /\ ~Good(stream[i])
  <2>1. CASE BadLength /\ UNCHANGED <<buf, taken>>
    BY <2>1, StepFacts, HeadIsBad DEF TypeOK
  <2>2. CASE HasFrame /\ HeadFrame.kind = "garbled" /\ Split
    <3>1. /\ taken + 1 \in 1 .. Len(stream) /\ taken' = taken + 1 /\ HeadFrame = stream[taken + 1]
          /\ buf' \in Seq(1 .. Whole)
      BY <2>2, StepFacts, HeadSplits
    <3> QED
      BY <2>2, <3>1, StepFacts DEF Good
  <2> QED
    BY <2>1, <2>2
<1>2. held' = <<>> /\ out' \in Seq(1 .. Len(stream)) /\ InOrder'
  BY <1>1, FlushKeeps
<1>3. EndJustified'
  <2>1. \E i \in {taken', taken' + 1} \cap DOMAIN stream' : ~Good(stream'[i])
    BY <1>0, <1>1, StepFacts
  <2> QED
    BY <2>1 DEF EndJustified
<1> QED
  BY <1>1, <1>2, <1>3, EndStep DEF Ends

\* The end of the stream is reported for what it is.
LEMMA EofEnd ==
    ASSUME StreamInv, UNCHANGED <<peer, received, buf, taken, held, out, closed>>, pc' = "over",
           received = end,
           \/ pc = "wait" /\ result' = IF buf = <<>> THEN "eof" ELSE "truncated"
           \/ pc = "login" /\ ~HasFrame /\ ~BadLength /\ buf # <<>> /\ result' = "truncated"
    PROVE  StreamInv'
<1>0. (\A i : Start(i)' = Start(i)) /\ Whole' = Whole /\ stream' = stream /\ end' = end
  BY StartStays DEF peer
<1>1. held = <<>> /\ pc # "over"
  BY DEF StreamInv, WaitsStarved, Progress
<1>2. taken' \in taken .. Len(stream) /\ buf' \in Seq(1 .. Whole) /\ out' \in Seq(1 .. Len(stream)) /\ InOrder'
  BY StepFacts DEF StreamInv, InOrder, TypeOK
<1>3. /\ Start(taken + 1) \in Nat /\ Len(buf) = received - Start(taken + 1) /\ Start(taken + 1) <= received
      /\ buf = <<>> <=> Len(buf) = 0
  <2>1. buf = <<>> <=> Len(buf) = 0
    BY StepFacts DEF TypeOK
  <2> QED
    BY <1>1, <2>1, StepFacts, HeadOfBuffer DEF NotBehind
<1>4. pc = "wait" => Len(out) = taken - 1
  <2>1. Len(held) = 0 /\ Len(out) \in Nat
    BY <1>1, StepFacts
  <2> QED
    BY <2>1, StepFacts DEF StreamInv, Progress
<1>5. ASSUME NEW i \in 1 .. Len(stream), stream[i].total = stream[i].size, end >= Start(i + 1) PROVE i <= taken
  <2> SUFFICES ASSUME i > taken PROVE FALSE
    BY StepFacts
  <2>1. received >= Start(i) + stream[i].size
    BY <1>5, StepFacts
  <2>2. CASE pc = "wait"
    BY <1>5, <2>1, <2>2, StepFacts DEF StreamInv, WaitsStarved
  <2>3. CASE pc = "login"
    <3>1. received < Start(i) + stream[i].size
      BY <2>3, StepFacts, NothingWhole
    <3> QED
      BY <1>5, <2>1, <3>1, StepFacts, StreamTyped
  <2> QED
    BY <2>2, <2>3
<1>6. EndJustified'
  <2>1. result' = "eof" => end = Start(taken + 1) /\ Len(out) = taken - 1
    BY <1>3, <1>4, StepFacts
  <2>2. result' = "truncated" => Start(taken + 1) < end
    BY <1>3, StepFacts
  <2>3. (\A i \in 1 .. Len(stream) : Good(stream[i]))
        => \A i \in 1 .. Len(stream) : end >= Start(i + 1) => i <= taken
    BY <1>5 DEF Good
  <2>4. result' # "decode"
    OBVIOUS
  <2> QED
    BY <1>0, <2>1, <2>2, <2>3, <2>4, StepFacts DEF EndJustified
<1> QED
  BY <1>1, <1>2, <1>6, EndStep DEF Ends

\* With one frame more what was handled and is held is still in order.
LEMMA OneMore ==
    ASSUME StreamInv, pc = "decode", taken + 1 \in 1 .. Len(stream)
    PROVE  LET h == Append(out \o held, taken + 1)
           IN  /\ h \in Seq(1 .. Len(stream)) /\ Len(h) = taken /\ DOMAIN h = 1 .. taken
               /\ \A k \in 1 .. taken : h[k] = k + 1
<1> DEFINE h == out \o held
           N == 1 .. Len(stream)
           more == Append(h, taken + 1)
<1>0. out \in Seq(N) /\ held \in Seq(N) /\ taken \in Nat /\ taken + 1 \in N
  BY StepFacts
<1>1. h \in Seq(N) /\ Len(h) = Len(out) + Len(held) /\ Len(h) \in Nat /\ DOMAIN h = 1 .. Len(h)
  <2> HIDE DEF N
  <2> QED
    BY <1>0, ConcatProperties, LenProperties
<1>2. Len(out) + Len(held) = taken - 1
  BY DEF StreamInv, Progress
<1>3. \A k \in 1 .. Len(h) : h[k] = k + 1
  BY <1>1 DEF StreamInv, InOrder
<1> HIDE DEF h, N
<1>4. /\ more \in Seq(N) /\ Len(more) = Len(h) + 1
      /\ \A k \in 1 .. Len(h) : more[k] = h[k]
      /\ more[Len(h) + 1] = taken + 1
  <2>1. h \in Seq(N) /\ taken + 1 \in N
    BY <1>0, <1>1
  <2> QED
    BY <2>1, AppendProperties, SMTT(60)
<1>5. Len(h) + 1 = taken
  BY <1>0, <1>1, <1>2
<1> HIDE DEF more
<1>6. DOMAIN more = 1 .. taken
  BY <1>4, <1>5, LenProperties
<1>7. ASSUME NEW k \in 1 .. taken PROVE more[k] = k + 1
  <2>1. k \in 1 .. Len(h) \/ k = Len(h) + 1
    BY <1>1, <1>5
  <2>2. CASE k \in 1 .. Len(h)
    BY <1>3, <1>4, <2>2
  <2>3. CASE k = Len(h) + 1
    BY <1>4, <1>5, <2>3
  <2> QED
    BY <2>1, <2>2, <2>3
<1>8. more \in Seq(N) /\ Len(more) = taken /\ DOMAIN more = 1 .. taken /\ \A k \in 1 .. taken : more[k] = k + 1
  BY <1>4, <1>5, <1>6, <1>7
<1> QED
  BY <1>8 DEF more, h, N

\* A frame is taken, and handled or held.
LEMMA TakeStep ==
    ASSUME StreamInv, UNCHANGED <<peer, received, closed, result>>, pc \in {"login", "decode"}, pc' = "decode",
           HasFrame, Split,
           IF pc = "login" THEN UNCHANGED <<held, out>>
           ELSE /\ out' \in Seq(1 .. Len(stream)) /\ held' \in Seq(1 .. Len(stream)) /\ Len(held') < RespMax
                /\ out' \o held' = Append(out \o held, taken + 1)
    PROVE  StreamInv'
<1>0. (\A i : Start(i)' = Start(i)) /\ Whole' = Whole /\ stream' = stream /\ end' = end
  BY StartStays DEF peer
<1>1. /\ taken + 1 \in 1 .. Len(stream) /\ taken' = taken + 1
      /\ Start(taken + 2) <= received
      /\ buf' = [i \in 1 .. received - Start(taken + 2) |-> Start(taken + 2) + i]
      /\ buf' \in Seq(1 .. Whole)
  BY StepFacts, HeadSplits
<1>2. TypeOK'
  <2>1. held' \in Seq(1 .. Len(stream)) /\ out' \in Seq(1 .. Len(stream)) /\ Len(held') < RespMax
    BY StepFacts DEF TypeOK
  <2> QED
    BY <1>0, <1>1, <2>1, StepFacts DEF TypeOK, peer
<1>3. BytesKept' /\ NotBehind'
  <2>1. taken' + 1 = taken + 2
    BY <1>1, StepFacts
  <2>2. /\ Start(taken' + 1) <= received'
        /\ buf' = [i \in 1 .. received' - Start(taken' + 1) |-> Start(taken' + 1) + i]
    BY <1>1, <2>1
  <2>3. result' = "none"
    BY DEF StreamInv, NotBehind
  <2> QED
    BY <1>0, <2>2, <2>3 DEF BytesKept, NotBehind
<1>4. InOrder' /\ Progress'
  <2>1. CASE pc = "login"
    BY <1>1, <2>1, StepFacts DEF StreamInv, Progress, InOrder
  <2>2. CASE pc = "decode"
    <3> DEFINE h == Append(out \o held, taken + 1)
    <3>1. Len(h) = taken /\ DOMAIN h = 1 .. taken /\ \A k \in 1 .. taken : h[k] = k + 1
      BY <1>1, <2>2, OneMore
    <3>2. out' \o held' = h /\ Len(out' \o held') = Len(out') + Len(held')
      BY <2>2, ConcatProperties
    <3> HIDE DEF h
    <3>3. InOrder'
      BY <1>1, <3>1, <3>2, StepFacts DEF InOrder
    <3>4. Len(out') + Len(held') = taken' - 1
      BY <1>1, <3>1, <3>2, StepFacts
    <3> QED
      BY <3>3, <3>4 DEF Progress
  <2> QED
    BY <2>1, <2>2
<1>5. WaitsStarved'
  BY DEF WaitsStarved
<1>6. EndJustified'
  BY DEF StreamInv, NotBehind, EndJustified
<1> QED
  BY <1>2, <1>3, <1>4, <1>5, <1>6 DEF StreamInv

\* Bytes are read.
LEMMA ReadStep ==
    ASSUME StreamInv, NEW n \in Nat, Receive(n), UNCHANGED <<peer, result, taken, held, out, closed>>,
           \/ pc = "login" /\ pc' = "login"
           \/ pc = "wait" /\ pc' = "decode"
    PROVE  StreamInv'
<1>0. (\A i : Start(i)' = Start(i)) /\ Whole' = Whole /\ stream' = stream /\ end' = end
  BY StartStays DEF peer
<1>1. /\ received' \in received .. end /\ Start(taken + 1) <= received'
      /\ buf' = [i \in 1 .. received' - Start(taken + 1) |-> Start(taken + 1) + i]
      /\ buf' \in Seq(1 .. Whole)
  BY StepFacts, ReceiveKeeps
<1>2. TypeOK'
  BY <1>0, <1>1, StepFacts DEF TypeOK, peer
<1>3. BytesKept' /\ NotBehind'
  BY <1>0, <1>1 DEF StreamInv, BytesKept, NotBehind
<1>4. InOrder' /\ Progress' /\ WaitsStarved'
  BY DEF StreamInv, InOrder, Progress, WaitsStarved
<1>5. EndJustified'
  BY DEF StreamInv, NotBehind, EndJustified
<1> QED
  BY <1>2, <1>3, <1>4, <1>5 DEF StreamInv

\* The reader waits when the batch has landed and no frame is left.
LEMMA StarveStep == ASSUME StreamInv, Starve PROVE StreamInv'
<1>0. (\A i : Start(i)' = Start(i)) /\ Whole' = Whole /\ stream' = stream /\ end' = end /\ UNCHANGED peer
  <2>1. UNCHANGED peer
    BY DEF Starve
  <2> QED
    BY <2>1, StartStays DEF peer
<1>1. /\ pc = "decode" /\ pc' = "wait" /\ ~HasFrame /\ ~BadLength /\ Flush
      /\ UNCHANGED <<received, buf, result, taken, closed>>
  BY DEF Starve
<1>2. held' = <<>> /\ out' \in Seq(1 .. Len(stream)) /\ InOrder' /\ Len(out') = Len(out) + Len(held)
  BY <1>1, FlushKeeps, StepFacts
<1>3. TypeOK'
  <2>1. (\A S : <<>> \in Seq(S)) /\ Len(held') < RespMax
    BY <1>2, StepFacts
  <2> QED
    BY <1>0, <1>1, <1>2, <2>1, StepFacts DEF TypeOK, peer
<1>4. BytesKept' /\ NotBehind'
  BY <1>0, <1>1 DEF StreamInv, BytesKept, NotBehind
<1>5. Progress'
  BY <1>1, <1>2, StepFacts DEF StreamInv, Progress
<1>6. WaitsStarved'
  <2>1. Len(buf) < MaxLength /\ \A i \in 1 .. Len(stream) : i > taken => received < Start(i) + stream[i].size
    BY <1>1, StepFacts, NothingWhole
  <2>2. ASSUME NEW i \in 1 .. Len(stream) PROVE Start(i) + stream[i].size \in Nat
    <3>1. Start(i) \in Nat /\ stream[i].size \in Nat
      BY StepFacts, StreamTyped
    <3> QED
      BY <3>1
  <2>3. \A i \in 1 .. Len(stream) : i > taken => ~(received >= Start(i) + stream[i].size)
    BY <2>1, <2>2, StepFacts
  <2> QED
    BY <1>0, <1>1, <1>2, <2>1, <2>3, StepFacts DEF WaitsStarved
<1>7. EndJustified'
  BY <1>1 DEF StreamInv, NotBehind, EndJustified
<1> QED
  BY <1>2, <1>3, <1>4, <1>5, <1>6, <1>7 DEF StreamInv

\* Every step keeps the invariant.
LEMMA StreamStep == StreamInv /\ [Next]_vars => StreamInv'
<1> SUFFICES ASSUME StreamInv, [Next]_vars PROVE StreamInv'
  OBVIOUS
<1>0. pc \in {"tcp", "write", "login", "wait", "over"} => held = <<>>
  BY DEF StreamInv, Progress, WaitsStarved
<1>1. CASE ConnectTcp
  <2>0. UNCHANGED <<peer, received, buf, taken, held, out, closed>> /\ held = <<>> /\ pc = "tcp"
    BY <1>0, <1>1 DEF ConnectTcp
  <2>1. CASE pc' = "write" /\ UNCHANGED result
    BY <2>0, <2>1, QuietStep
  <2>2. CASE End("connect")
    <3>1. pc' = "over" /\ result' \in Ends /\ Flush
      BY <2>0, <2>2, NothingHeld DEF End, Ends
    <3> QED
      BY <2>0, <3>1, PlainEnd
  <2> QED
    BY <1>1, <2>1, <2>2 DEF ConnectTcp
<1>2. CASE WriteConnect
  <2>0. UNCHANGED <<peer, received, buf, taken, held, out, closed>> /\ held = <<>> /\ pc = "write"
    BY <1>0, <1>2 DEF WriteConnect
  <2>1. CASE pc' = "login" /\ UNCHANGED result
    BY <2>0, <2>1, QuietStep
  <2>2. CASE End("connect") \/ End("io")
    <3>1. pc' = "over" /\ result' \in Ends /\ Flush
      BY <2>0, <2>2, NothingHeld DEF End, Ends
    <3> QED
      BY <2>0, <3>1, PlainEnd
  <2> QED
    BY <1>2, <2>1, <2>2 DEF WriteConnect
<1>3. CASE LoginRefused
  <2>0. UNCHANGED <<peer, received, held, out, closed>> /\ held = <<>> /\ pc = "login" /\ pc' = "over" /\ Flush
    BY <1>0, <1>3, NothingHeld DEF LoginRefused, End
  <2>1. CASE BadLength /\ End("decode") /\ UNCHANGED <<buf, taken>>
    BY <2>0, <2>1, DecodeEnd DEF End
  <2>2. CASE HasFrame /\ Split /\ HeadFrame.kind = "garbled" /\ End("decode")
    BY <2>0, <2>2, DecodeEnd DEF End
  <2>3. CASE HasFrame /\ Split /\ (End("connect") \/ End("auth") \/ End("mismatch"))
    BY <2>0, <2>3, PlainEnd DEF End, Ends
  <2> QED
    BY <1>3, <2>1, <2>2, <2>3 DEF LoginRefused
<1>4. CASE LoginAccepted
  BY <1>4, TakeStep DEF LoginAccepted
<1>5. CASE LoginStops
  <2>0. /\ UNCHANGED <<peer, received, buf, taken, held, out, closed>>
        /\ held = <<>> /\ pc = "login" /\ pc' = "over"
        /\ Flush /\ ~HasFrame /\ ~BadLength
    BY <1>0, <1>5, NothingHeld DEF LoginStops, End
  <2>1. CASE result' \in Ends
    <3> HIDE DEF Ends
    <3> QED
      BY <2>0, <2>1, PlainEnd
  <2>2. CASE received = end /\ buf # <<>> /\ result' = "truncated"
    BY <2>0, <2>2, EofEnd
  <2> QED
    BY <1>5, <2>1, <2>2 DEF LoginStops, End, Ends
<1>6. CASE ReaderClosed
  <2>1. pc' = "over" /\ result' \in Ends /\ Flush /\ UNCHANGED <<peer, received, buf, taken, closed>>
    BY <1>6 DEF ReaderClosed, End, Ends
  <2>2. UNCHANGED <<peer, received, closed>> /\ UNCHANGED <<buf, taken>>
    BY <2>1
  <2> QED
    BY <2>1, <2>2, PlainEnd
<1>7. CASE DecodeError
  <2>1. /\ UNCHANGED <<peer, received, closed>> /\ pc # "over" /\ pc' = "over" /\ result' = "decode" /\ Flush
        /\ \/ BadLength /\ UNCHANGED <<buf, taken>>
           \/ HasFrame /\ HeadFrame.kind = "garbled" /\ Split
    BY <1>7 DEF DecodeError, End
  <2> QED
    BY <2>1, DecodeEnd
<1>8. CASE TakeResp
  <2>1. /\ pc = "decode" /\ pc' = "decode" /\ HasFrame /\ Split /\ UNCHANGED <<peer, received, closed, result>>
        /\ IF Len(held) + 1 >= RespMax
           THEN out' = out \o Append(held, taken + 1) /\ held' = <<>>
           ELSE held' = Append(held, taken + 1) /\ UNCHANGED out
    BY <1>8 DEF TakeResp
  <2>2. held \in Seq(1 .. Len(stream)) /\ out \in Seq(1 .. Len(stream)) /\ taken + 1 \in 1 .. Len(stream)
    BY <2>1, StepFacts, HeadSplits
  <2>3. Append(held, taken + 1) \in Seq(1 .. Len(stream)) /\ Len(Append(held, taken + 1)) = Len(held) + 1
    BY <2>2, AppendProperties
  <2>4. out \o Append(held, taken + 1) = Append(out \o held, taken + 1)
    BY <2>2, AppendIsConcat, ConcatAssociative, ConcatProperties
  <2>5. CASE Len(held) + 1 >= RespMax
    <3>1. held' = <<>> /\ out' = out \o Append(held, taken + 1)
      BY <2>1, <2>5
    <3>3. held' \in Seq(1 .. Len(stream)) /\ Len(held') < RespMax
      BY <3>1, StepFacts, EmptySeq
    <3>2. out' \in Seq(1 .. Len(stream)) /\ out' \o held' = out'
      BY <2>2, <2>3, <3>1, ConcatProperties, ConcatEmptySeq
    <3> QED
      BY <2>1, <2>4, <3>1, <3>2, <3>3, TakeStep
  <2>6. CASE ~(Len(held) + 1 >= RespMax)
    <3>1. held' = Append(held, taken + 1) /\ out' = out
      BY <2>1, <2>6
    <3>2. Len(held') < RespMax
      BY <2>2, <2>3, <2>6, <3>1, StepFacts
    <3> QED
      BY <2>1, <2>2, <2>3, <2>4, <3>1, <3>2, TakeStep
  <2> QED
    BY <2>5, <2>6
<1>9. CASE TakeOther
  <2>1. /\ pc = "decode" /\ HasFrame /\ Split /\ UNCHANGED <<peer, received, closed>>
        /\ out' = Append(out \o held, taken + 1) /\ held' = <<>>
        /\ UNCHANGED <<pc, result>> \/ End("handler")
    BY <1>9 DEF TakeOther
  <2>2. /\ held \in Seq(1 .. Len(stream)) /\ out \in Seq(1 .. Len(stream)) /\ taken + 1 \in 1 .. Len(stream)
        /\ taken' = taken + 1 /\ buf' \in Seq(1 .. Whole)
    BY <2>1, StepFacts, HeadSplits
  <2>3. /\ out' \in Seq(1 .. Len(stream)) /\ out' \o held' = out'
        /\ held' \in Seq(1 .. Len(stream)) /\ Len(held') < RespMax
    <3>1. out \o held \in Seq(1 .. Len(stream))
      BY <2>2, ConcatProperties
    <3>2. out' \in Seq(1 .. Len(stream))
      BY <2>1, <2>2, <3>1, AppendProperties
    <3>3. held' \in Seq(1 .. Len(stream)) /\ Len(held') = 0
      BY <2>1, EmptySeq
    <3> QED
      BY <2>1, <3>2, <3>3, StepFacts, ConcatEmptySeq
  <2>4. CASE UNCHANGED <<pc, result>>
    BY <2>1, <2>3, <2>4, TakeStep
  <2>5. CASE End("handler")
    <3>1. InOrder'
      <4> DEFINE h == Append(out \o held, taken + 1)
      <4>1. Len(h) = taken /\ DOMAIN h = 1 .. taken /\ \A k \in 1 .. taken : h[k] = k + 1
        BY <2>1, <2>2, OneMore
      <4>2. out' \o held' = h
        BY <2>1, <2>3
      <4> HIDE DEF h
      <4> QED
        BY <2>2, <4>1, <4>2, StepFacts DEF InOrder
    <3>2. EndJustified'
      BY <2>5 DEF End, EndJustified
    <3>3. taken' \in taken .. Len(stream)
      BY <2>2, StepFacts
    <3> QED
      BY <2>1, <2>2, <2>3, <2>5, <3>1, <3>2, <3>3, EndStep DEF End, Ends
  <2> QED
    BY <2>1, <2>4, <2>5
<1>10. CASE Starve
  BY <1>10, StarveStep
<1>11. CASE \E n \in 1 .. Whole : LoginRead(n) \/ Read(n)
  <2>1. PICK n \in 1 .. Whole : LoginRead(n) \/ Read(n)
    BY <1>11
  <2>2. n \in Nat
    BY StepFacts
  <2> QED
    BY <2>1, <2>2, ReadStep DEF LoginRead, Read
<1>12. CASE ReadEof
  BY <1>12, EofEnd DEF ReadEof, End
<1>13. CASE ReadStops
  <2>1. /\ pc' = "over" /\ result' \in Ends /\ held = <<>>
        /\ UNCHANGED <<peer, received, buf, taken, held, out, closed>>
    BY <1>0, <1>13 DEF ReadStops, End, Ends
  <2>2. Flush
    BY <2>1, NothingHeld
  <2> QED
    BY <2>1, <2>2, PlainEnd
<1>14. CASE CloseElsewhere
  BY <1>14, QuietStep DEF CloseElsewhere
<1>15. CASE UNCHANGED vars
  <2>1. UNCHANGED <<peer, received, buf, result, taken, pc, held, out, closed>>
    BY <1>15 DEF vars
  <2> QED
    BY <2>1, StepFacts, QuietStep DEF TypeOK
<1> QED
  BY <1>1, <1>2, <1>3, <1>4, <1>5, <1>6, <1>7, <1>8, <1>9, <1>10, <1>11, <1>12, <1>13, <1>14, <1>15
  DEF Next, Connect, Reader, Socket

\* However the stream is cut into reads, wherever it ends and however responses
\* are batched, bytes and frames are kept in order, the reader waits only when it
\* has nothing left to do, and the end is reported for what it is
\* (CmppConnection::connect and reader_task, connection.rs; codec.rs).
THEOREM StreamSafe == Spec => []StreamKept
<1>1. Init => StreamInv
  BY StreamInit
<1>2. StreamInv /\ [Next]_vars => StreamInv'
  BY StreamStep
<1>3. StreamInv => StreamKept
  BY DEF StreamInv, StreamKept
<1> QED
  BY <1>1, <1>2, <1>3, PTL DEF Spec

-----------------------------------------------------------------------------
\* The folds of ContentPlan as loops: the value after i characters comes from
\* the value after i - 1.

WideSum(e, s) == Total(s, LAMBDA ch : Width(e, ch))

CodeUnits == {"a", "b", "hi", "lo"}

CountState == [count : Nat, filled : Nat]
CountStep(st, ch) ==
    LET w == Width("ucs2", ch)
    IN  IF StartsSegment(st.filled, w) THEN [count |-> st.count + 1, filled |-> w]
        ELSE [st EXCEPT !.filled = @ + w]
CountEnd(s) ==
    FoldLeft(LAMBDA st, ch : LET w == Width("ucs2", ch) IN
                 IF StartsSegment(st.filled, w) THEN [count |-> st.count + 1, filled |-> w]
                 ELSE [st EXCEPT !.filled = @ + w],
             [count |-> 1, filled |-> 0], s)

CutState == [ranges : Seq(Nat \X Nat), start : Nat, filled : Nat, offset : Nat]
CutStart == [ranges |-> <<>>, start |-> 0, filled |-> 0, offset |-> 0]
CutStep(st, ch) ==
    LET w == Width("ucs2", ch)
    IN  IF StartsSegment(st.filled, w)
        THEN [ranges |-> Append(st.ranges, <<st.start, st.offset>>), start |-> st.offset,
              filled |-> w, offset |-> st.offset + Utf8(ch)]
        ELSE [st EXCEPT !.filled = @ + w, !.offset = @ + Utf8(ch)]
CutEnd(s) ==
    FoldLeft(LAMBDA st, ch : LET w == Width("ucs2", ch) IN
                 IF StartsSegment(st.filled, w)
                 THEN [ranges |-> Append(st.ranges, <<st.start, st.offset>>), start |-> st.offset,
                       filled |-> w, offset |-> st.offset + Utf8(ch)]
                 ELSE [st EXCEPT !.filled = @ + w, !.offset = @ + Utf8(ch)],
             CutStart, s)

\* The widths of a message, summed up.
LEMMA WidthLoop ==
    ASSUME NEW s \in Seq(Chars), NEW e \in {"ascii", "ucs2"}
    PROVE  \E c \in [0 .. Len(s) -> Nat] :
              /\ c[0] = 0 /\ WideSum(e, s) = c[Len(s)]
              /\ \A i \in 1 .. Len(s) : c[i] = c[i - 1] + Width(e, s[i])
<1> DEFINE n == Len(s)
           op == [p \in Nat \X (1 .. n) |-> p[1] + Width(e, s[p[2]])]
           Rule(h) == h = [x \in SUBSET (DOMAIN s) |->
                              IF x = {} THEN 0 ELSE h[x \ {Max(x)}] + Width(e, s[Max(x)])]
<1>1. /\ n \in Nat /\ DOMAIN s = 1 .. n /\ 0 \in Nat
      /\ \A r \in Nat, i \in 1 .. n : r + Width(e, s[i]) \in Nat
  <2>1. \A ch \in Chars : Width(e, ch) \in Nat
    BY DEF Chars, Width, Units
  <2>2. n \in Nat /\ DOMAIN s = 1 .. n /\ \A i \in 1 .. n : s[i] \in Chars
    OBVIOUS
  <2> QED
    BY <2>1, <2>2
<1>2. /\ op \in [Nat \X (1 .. n) -> Nat]
      /\ \A r \in Nat, i \in 1 .. n : op[<<r, i>>] = r + Width(e, s[i])
  <2> SUFFICES ASSUME NEW p \in Nat \X (1 .. n) PROVE op[p] \in Nat
    OBVIOUS
  <2> QED
    BY <1>1
<1> HIDE DEF n, op
<1>3. ASSUME NEW g, FoldTable(g, Nat, 0, op, n) PROVE Rule(g)
  <2>1. g \in [SUBSET (1 .. n) -> Nat] /\ g[{}] = 0
    BY <1>3 DEF FoldTable
  <2>2. ASSUME NEW x \in SUBSET (1 .. n), x # {} PROVE g[x] = g[x \ {Max(x)}] + Width(e, s[Max(x)])
    <3>1. Max(x) \in 1 .. n /\ g[x \ {Max(x)}] \in Nat
      BY <1>1, <2>1, <2>2, MaxIsMember
    <3>2. g[x] = op[<<g[x \ {Max(x)}], Max(x)>>]
      BY <1>3, <2>2 DEF FoldTable
    <3> QED
      BY <1>2, <3>1, <3>2
  <2> QED
    BY <1>1, <2>1, <2>2
<1>4. ASSUME NEW h, Rule(h) PROVE FollowsRule(h, Nat, 0, op, n)
  <2>1. h[{}] = 0
    BY <1>1, <1>4
  <2>2. ASSUME NEW x \in SUBSET (1 .. n), x # {}, h[x \ {Max(x)}] \in Nat
        PROVE  h[x] = op[<<h[x \ {Max(x)}], Max(x)>>]
    <3>1. Max(x) \in 1 .. n /\ h[x] = h[x \ {Max(x)}] + Width(e, s[Max(x)])
      BY <1>1, <1>4, <2>2, MaxIsMember
    <3> HIDE DEF Rule
    <3> QED
      BY <1>2, <2>2, <3>1
  <2> HIDE DEF Rule
  <2> QED
    BY <1>1, <1>2, <2>1, <2>2 DEF FollowsRule
<1>5. WideSum(e, s) = (CHOOSE h : Rule(h))[1 .. n]
  BY <1>1 DEF WideSum, Total, FoldLeft, MapThenFoldSet
<1> HIDE DEF Rule
<1>6. PICK h : Rule(h) /\ WideSum(e, s) = h[1 .. n]
  BY <1>1, <1>2, <1>3, <1>5, FoldExists
<1>7. PICK c : Loop(c, Nat, 0, op, n) /\ c[n] = h[1 .. n]
  <2>1. FollowsRule(h, Nat, 0, op, n)
    BY <1>4, <1>6
  <2> QED
    BY <1>6, <2>1, RuleIsLoop
<1>8. ASSUME NEW i \in 1 .. n PROVE c[i] = c[i - 1] + Width(e, s[i])
  <2>1. i - 1 \in 0 .. n
    BY <1>1
  <2>2. c[i - 1] \in Nat
    BY <1>7, <2>1 DEF Loop
  <2> QED
    BY <1>2, <1>7, <2>2 DEF Loop
<1>9. c \in [0 .. n -> Nat] /\ c[0] = 0 /\ WideSum(e, s) = c[n]
  BY <1>6, <1>7 DEF Loop
<1> QED
  BY <1>8, <1>9 DEF n

\* The bytes of the text, summed up.
LEMMA OffsetLoop ==
    ASSUME NEW s \in Seq(Chars)
    PROVE  \E c \in [0 .. Len(s) -> Nat] :
              /\ c[0] = 0 /\ Total(s, Utf8) = c[Len(s)]
              /\ \A i \in 1 .. Len(s) : c[i] = c[i - 1] + Utf8(s[i])
<1> DEFINE n == Len(s)
           op == [p \in Nat \X (1 .. n) |-> p[1] + Utf8(s[p[2]])]
           Rule(h) == h = [x \in SUBSET (DOMAIN s) |->
                              IF x = {} THEN 0 ELSE h[x \ {Max(x)}] + Utf8(s[Max(x)])]
<1>1. /\ n \in Nat /\ DOMAIN s = 1 .. n /\ 0 \in Nat
      /\ \A r \in Nat, i \in 1 .. n : r + Utf8(s[i]) \in Nat
  <2>1. \A ch \in Chars : Utf8(ch) \in Nat
    BY DEF Chars, Utf8
  <2>2. n \in Nat /\ DOMAIN s = 1 .. n /\ \A i \in 1 .. n : s[i] \in Chars
    OBVIOUS
  <2> QED
    BY <2>1, <2>2
<1>2. /\ op \in [Nat \X (1 .. n) -> Nat]
      /\ \A r \in Nat, i \in 1 .. n : op[<<r, i>>] = r + Utf8(s[i])
  <2> SUFFICES ASSUME NEW p \in Nat \X (1 .. n) PROVE op[p] \in Nat
    OBVIOUS
  <2> QED
    BY <1>1
<1> HIDE DEF n, op
<1>3. ASSUME NEW g, FoldTable(g, Nat, 0, op, n) PROVE Rule(g)
  <2>1. g \in [SUBSET (1 .. n) -> Nat] /\ g[{}] = 0
    BY <1>3 DEF FoldTable
  <2>2. ASSUME NEW x \in SUBSET (1 .. n), x # {} PROVE g[x] = g[x \ {Max(x)}] + Utf8(s[Max(x)])
    <3>1. Max(x) \in 1 .. n /\ g[x \ {Max(x)}] \in Nat
      BY <1>1, <2>1, <2>2, MaxIsMember
    <3>2. g[x] = op[<<g[x \ {Max(x)}], Max(x)>>]
      BY <1>3, <2>2 DEF FoldTable
    <3> QED
      BY <1>2, <3>1, <3>2
  <2> QED
    BY <1>1, <2>1, <2>2
<1>4. ASSUME NEW h, Rule(h) PROVE FollowsRule(h, Nat, 0, op, n)
  <2>1. h[{}] = 0
    BY <1>1, <1>4
  <2>2. ASSUME NEW x \in SUBSET (1 .. n), x # {}, h[x \ {Max(x)}] \in Nat
        PROVE  h[x] = op[<<h[x \ {Max(x)}], Max(x)>>]
    <3>1. Max(x) \in 1 .. n /\ h[x] = h[x \ {Max(x)}] + Utf8(s[Max(x)])
      BY <1>1, <1>4, <2>2, MaxIsMember
    <3> HIDE DEF Rule
    <3> QED
      BY <1>2, <2>2, <3>1
  <2> HIDE DEF Rule
  <2> QED
    BY <1>1, <1>2, <2>1, <2>2 DEF FollowsRule
<1>5. Total(s, Utf8) = (CHOOSE h : Rule(h))[1 .. n]
  BY <1>1 DEF Total, FoldLeft, MapThenFoldSet
<1> HIDE DEF Rule
<1>6. PICK h : Rule(h) /\ Total(s, Utf8) = h[1 .. n]
  BY <1>1, <1>2, <1>3, <1>5, FoldExists
<1>7. PICK c : Loop(c, Nat, 0, op, n) /\ c[n] = h[1 .. n]
  <2>1. FollowsRule(h, Nat, 0, op, n)
    BY <1>4, <1>6
  <2> QED
    BY <1>6, <2>1, RuleIsLoop
<1>8. ASSUME NEW i \in 1 .. n PROVE c[i] = c[i - 1] + Utf8(s[i])
  <2>1. i - 1 \in 0 .. n
    BY <1>1
  <2>2. c[i - 1] \in Nat
    BY <1>7, <2>1 DEF Loop
  <2> QED
    BY <1>2, <1>7, <2>2 DEF Loop
<1>9. c \in [0 .. n -> Nat] /\ c[0] = 0 /\ Total(s, Utf8) = c[n]
  BY <1>6, <1>7 DEF Loop
<1> QED
  BY <1>8, <1>9 DEF n

\* What a character is encoded as.
LEMMA UnitsTyped ==
    \A ch \in Chars : Units(ch) \in Seq(CodeUnits) /\ Len(Units(ch)) = IF ch = "s" THEN 2 ELSE 1
<1>1. <<"hi", "lo">> \in Seq(CodeUnits) /\ <<"a">> \in Seq(CodeUnits) /\ <<"b">> \in Seq(CodeUnits)
  BY DEF CodeUnits
<1> QED
  BY <1>1 DEF Chars, Units

\* encode_content, character by character.
LEMMA EncodeLoop ==
    ASSUME NEW s \in Seq(Chars)
    PROVE  \E c \in [0 .. Len(s) -> Seq(CodeUnits)] :
              /\ c[0] = <<>> /\ Encode(s) = c[Len(s)]
              /\ \A i \in 1 .. Len(s) : c[i] = c[i - 1] \o Units(s[i])
<1> DEFINE n == Len(s)
           op == [p \in Seq(CodeUnits) \X (1 .. n) |-> p[1] \o Units(s[p[2]])]
           Rule(h) == h = [x \in SUBSET (DOMAIN s) |->
                              IF x = {} THEN <<>> ELSE h[x \ {Max(x)}] \o Units(s[Max(x)])]
<1>1. /\ n \in Nat /\ DOMAIN s = 1 .. n /\ <<>> \in Seq(CodeUnits)
      /\ \A r \in Seq(CodeUnits), i \in 1 .. n : r \o Units(s[i]) \in Seq(CodeUnits)
  <2>1. \A ch \in Chars : Units(ch) \in Seq(CodeUnits)
    BY UnitsTyped
  <2>2. n \in Nat /\ DOMAIN s = 1 .. n /\ \A i \in 1 .. n : s[i] \in Chars
    OBVIOUS
  <2>3. \A u, w \in Seq(CodeUnits) : u \o w \in Seq(CodeUnits)
    OBVIOUS
  <2> QED
    BY <2>1, <2>2, <2>3
<1>2. /\ op \in [Seq(CodeUnits) \X (1 .. n) -> Seq(CodeUnits)]
      /\ \A r \in Seq(CodeUnits), i \in 1 .. n : op[<<r, i>>] = r \o Units(s[i])
  <2> SUFFICES ASSUME NEW p \in Seq(CodeUnits) \X (1 .. n) PROVE op[p] \in Seq(CodeUnits)
    OBVIOUS
  <2> QED
    BY <1>1
<1> HIDE DEF n, op
<1>3. ASSUME NEW g, FoldTable(g, Seq(CodeUnits), <<>>, op, n) PROVE Rule(g)
  <2>1. g \in [SUBSET (1 .. n) -> Seq(CodeUnits)] /\ g[{}] = <<>>
    BY <1>3 DEF FoldTable
  <2>2. ASSUME NEW x \in SUBSET (1 .. n), x # {} PROVE g[x] = g[x \ {Max(x)}] \o Units(s[Max(x)])
    <3>1. Max(x) \in 1 .. n /\ g[x \ {Max(x)}] \in Seq(CodeUnits)
      BY <1>1, <2>1, <2>2, MaxIsMember
    <3>2. g[x] = op[<<g[x \ {Max(x)}], Max(x)>>]
      BY <1>3, <2>2 DEF FoldTable
    <3> QED
      BY <1>2, <3>1, <3>2
  <2> QED
    BY <1>1, <2>1, <2>2
<1>4. ASSUME NEW h, Rule(h) PROVE FollowsRule(h, Seq(CodeUnits), <<>>, op, n)
  <2>1. h[{}] = <<>>
    BY <1>1, <1>4
  <2>2. ASSUME NEW x \in SUBSET (1 .. n), x # {}, h[x \ {Max(x)}] \in Seq(CodeUnits)
        PROVE  h[x] = op[<<h[x \ {Max(x)}], Max(x)>>]
    <3>1. Max(x) \in 1 .. n /\ h[x] = h[x \ {Max(x)}] \o Units(s[Max(x)])
      BY <1>1, <1>4, <2>2, MaxIsMember
    <3> HIDE DEF Rule
    <3> QED
      BY <1>2, <2>2, <3>1
  <2> HIDE DEF Rule
  <2> QED
    BY <1>1, <1>2, <2>1, <2>2 DEF FollowsRule
<1>5. Encode(s) = (CHOOSE h : Rule(h))[1 .. n]
  BY <1>1 DEF Encode, FoldLeft, MapThenFoldSet
<1> HIDE DEF Rule
<1>6. PICK h : Rule(h) /\ Encode(s) = h[1 .. n]
  BY <1>1, <1>2, <1>3, <1>5, FoldExists
<1>7. PICK c : Loop(c, Seq(CodeUnits), <<>>, op, n) /\ c[n] = h[1 .. n]
  <2>1. FollowsRule(h, Seq(CodeUnits), <<>>, op, n)
    BY <1>4, <1>6
  <2> QED
    BY <1>6, <2>1, RuleIsLoop
<1>8. ASSUME NEW i \in 1 .. n PROVE c[i] = c[i - 1] \o Units(s[i])
  <2>1. i - 1 \in 0 .. n
    BY <1>1
  <2>2. c[i - 1] \in Seq(CodeUnits)
    BY <1>7, <2>1 DEF Loop
  <2> QED
    BY <1>2, <1>7, <2>2 DEF Loop
<1>9. c \in [0 .. n -> Seq(CodeUnits)] /\ c[0] = <<>> /\ Encode(s) = c[n]
  BY <1>6, <1>7 DEF Loop
<1> QED
  BY <1>8, <1>9 DEF n

\* The first loop of prepare_submit_content.
LEMMA CountingLoop ==
    ASSUME NEW s \in Seq(Chars)
    PROVE  \E c \in [0 .. Len(s) -> CountState] :
              /\ c[0] = [count |-> 1, filled |-> 0] /\ CountEnd(s) = c[Len(s)]
              /\ \A i \in 1 .. Len(s) : c[i] = CountStep(c[i - 1], s[i])
<1> DEFINE n == Len(s)
           op == [p \in CountState \X (1 .. n) |-> CountStep(p[1], s[p[2]])]
           Rule(h) == h = [x \in SUBSET (DOMAIN s) |->
                              IF x = {} THEN [count |-> 1, filled |-> 0]
                              ELSE CountStep(h[x \ {Max(x)}], s[Max(x)])]
<1>1. /\ n \in Nat /\ DOMAIN s = 1 .. n /\ [count |-> 1, filled |-> 0] \in CountState
      /\ \A r \in CountState, i \in 1 .. n : CountStep(r, s[i]) \in CountState
  <2>1. \A st \in CountState, ch \in Chars : CountStep(st, ch) \in CountState
    BY DEF Chars, Width, Units, CountState, CountStep
  <2>2. n \in Nat /\ DOMAIN s = 1 .. n /\ \A i \in 1 .. n : s[i] \in Chars
    OBVIOUS
  <2>3. [count |-> 1, filled |-> 0] \in CountState
    BY DEF CountState
  <2> QED
    BY <2>1, <2>2, <2>3
<1>2. /\ op \in [CountState \X (1 .. n) -> CountState]
      /\ \A r \in CountState, i \in 1 .. n : op[<<r, i>>] = CountStep(r, s[i])
  <2> SUFFICES ASSUME NEW p \in CountState \X (1 .. n) PROVE op[p] \in CountState
    OBVIOUS
  <2> QED
    BY <1>1
<1> HIDE DEF n, op
<1>3. ASSUME NEW g, FoldTable(g, CountState, [count |-> 1, filled |-> 0], op, n) PROVE Rule(g)
  <2>1. g \in [SUBSET (1 .. n) -> CountState] /\ g[{}] = [count |-> 1, filled |-> 0]
    BY <1>3 DEF FoldTable
  <2>2. ASSUME NEW x \in SUBSET (1 .. n), x # {} PROVE g[x] = CountStep(g[x \ {Max(x)}], s[Max(x)])
    <3>1. Max(x) \in 1 .. n /\ g[x \ {Max(x)}] \in CountState
      BY <1>1, <2>1, <2>2, MaxIsMember
    <3>2. g[x] = op[<<g[x \ {Max(x)}], Max(x)>>]
      BY <1>3, <2>2 DEF FoldTable
    <3> QED
      BY <1>2, <3>1, <3>2
  <2> QED
    BY <1>1, <2>1, <2>2
<1>4. ASSUME NEW h, Rule(h) PROVE FollowsRule(h, CountState, [count |-> 1, filled |-> 0], op, n)
  <2>1. h[{}] = [count |-> 1, filled |-> 0]
    BY <1>1, <1>4
  <2>2. ASSUME NEW x \in SUBSET (1 .. n), x # {}, h[x \ {Max(x)}] \in CountState
        PROVE  h[x] = op[<<h[x \ {Max(x)}], Max(x)>>]
    <3>1. Max(x) \in 1 .. n /\ h[x] = CountStep(h[x \ {Max(x)}], s[Max(x)])
      BY <1>1, <1>4, <2>2, MaxIsMember
    <3> HIDE DEF Rule
    <3> QED
      BY <1>2, <2>2, <3>1
  <2> HIDE DEF Rule
  <2> QED
    BY <1>1, <1>2, <2>1, <2>2 DEF FollowsRule
<1>5. CountEnd(s) = (CHOOSE h : Rule(h))[1 .. n]
  BY <1>1 DEF CountEnd, CountStep, FoldLeft, MapThenFoldSet
<1> HIDE DEF Rule
<1>6. PICK h : Rule(h) /\ CountEnd(s) = h[1 .. n]
  BY <1>1, <1>2, <1>3, <1>5, FoldExists
<1>7. PICK c : Loop(c, CountState, [count |-> 1, filled |-> 0], op, n) /\ c[n] = h[1 .. n]
  <2>1. FollowsRule(h, CountState, [count |-> 1, filled |-> 0], op, n)
    BY <1>4, <1>6
  <2> QED
    BY <1>6, <2>1, RuleIsLoop
<1>8. ASSUME NEW i \in 1 .. n PROVE c[i] = CountStep(c[i - 1], s[i])
  <2>1. i - 1 \in 0 .. n
    BY <1>1
  <2>2. c[i - 1] \in CountState
    BY <1>7, <2>1 DEF Loop
  <2> QED
    BY <1>2, <1>7, <2>2 DEF Loop
<1>9. c \in [0 .. n -> CountState] /\ c[0] = [count |-> 1, filled |-> 0] /\ CountEnd(s) = c[n]
  BY <1>6, <1>7 DEF Loop
<1> QED
  BY <1>8, <1>9 DEF n

\* The state of the second loop keeps its type.
LEMMA CutTyped == \A st \in CutState, ch \in Chars : CutStep(st, ch) \in CutState
<1> SUFFICES ASSUME NEW st \in CutState, NEW ch \in Chars PROVE CutStep(st, ch) \in CutState
  OBVIOUS
<1>1. Width("ucs2", ch) \in Nat /\ Utf8(ch) \in Nat
  BY DEF Chars, Width, Units, Utf8
<1>2. st.ranges \in Seq(Nat \X Nat) /\ st.start \in Nat /\ st.filled \in Nat /\ st.offset \in Nat
  BY DEF CutState
<1>3. Append(st.ranges, <<st.start, st.offset>>) \in Seq(Nat \X Nat)
  BY <1>2
<1> DEFINE w == Width("ucs2", ch)
<1>4. CASE StartsSegment(st.filled, w)
  <2> DEFINE r == [ranges |-> Append(st.ranges, <<st.start, st.offset>>), start |-> st.offset,
                   filled |-> w, offset |-> st.offset + Utf8(ch)]
  <2>1. CutStep(st, ch) = r
    BY <1>4 DEF CutStep
  <2>2. r \in CutState
    BY <1>1, <1>2, <1>3 DEF CutState
  <2> QED
    BY <2>1, <2>2
<1>5. CASE ~StartsSegment(st.filled, w)
  <2>1. CutStep(st, ch) = [st EXCEPT !.filled = @ + w, !.offset = @ + Utf8(ch)]
    BY <1>5 DEF CutStep
  <2> DEFINE r == [ranges |-> st.ranges, start |-> st.start, filled |-> st.filled + w,
                   offset |-> st.offset + Utf8(ch)]
  <2>2. CutStep(st, ch) = r
    <3> HIDE DEF w
    <3> QED
      BY <2>1 DEF CutState
  <2>3. r \in CutState
    BY <1>1, <1>2 DEF CutState
  <2> QED
    BY <2>2, <2>3
<1> QED
  BY <1>4, <1>5

\* The second loop of prepare_submit_content.
LEMMA CuttingLoop ==
    ASSUME NEW s \in Seq(Chars)
    PROVE  \E c \in [0 .. Len(s) -> CutState] :
              /\ c[0] = CutStart /\ CutEnd(s) = c[Len(s)]
              /\ \A i \in 1 .. Len(s) : c[i] = CutStep(c[i - 1], s[i])
<1> DEFINE n == Len(s)
           op == [p \in CutState \X (1 .. n) |-> CutStep(p[1], s[p[2]])]
           Rule(h) == h = [x \in SUBSET (DOMAIN s) |->
                              IF x = {} THEN CutStart ELSE CutStep(h[x \ {Max(x)}], s[Max(x)])]
<1>1. /\ n \in Nat /\ DOMAIN s = 1 .. n /\ CutStart \in CutState
      /\ \A r \in CutState, i \in 1 .. n : CutStep(r, s[i]) \in CutState
  <2>1. \A st \in CutState, ch \in Chars : CutStep(st, ch) \in CutState
    BY CutTyped
  <2>2. n \in Nat /\ DOMAIN s = 1 .. n /\ \A i \in 1 .. n : s[i] \in Chars
    OBVIOUS
  <2>3. CutStart \in CutState
    BY DEF CutState, CutStart
  <2> QED
    BY <2>1, <2>2, <2>3
<1>2. /\ op \in [CutState \X (1 .. n) -> CutState]
      /\ \A r \in CutState, i \in 1 .. n : op[<<r, i>>] = CutStep(r, s[i])
  <2> SUFFICES ASSUME NEW p \in CutState \X (1 .. n) PROVE op[p] \in CutState
    OBVIOUS
  <2> QED
    BY <1>1
<1> HIDE DEF n, op
<1>3. ASSUME NEW g, FoldTable(g, CutState, CutStart, op, n) PROVE Rule(g)
  <2>1. g \in [SUBSET (1 .. n) -> CutState] /\ g[{}] = CutStart
    BY <1>3 DEF FoldTable
  <2>2. ASSUME NEW x \in SUBSET (1 .. n), x # {} PROVE g[x] = CutStep(g[x \ {Max(x)}], s[Max(x)])
    <3>1. Max(x) \in 1 .. n /\ g[x \ {Max(x)}] \in CutState
      BY <1>1, <2>1, <2>2, MaxIsMember
    <3>2. g[x] = op[<<g[x \ {Max(x)}], Max(x)>>]
      BY <1>3, <2>2 DEF FoldTable
    <3> QED
      BY <1>2, <3>1, <3>2
  <2> QED
    BY <1>1, <2>1, <2>2
<1>4. ASSUME NEW h, Rule(h) PROVE FollowsRule(h, CutState, CutStart, op, n)
  <2>1. h[{}] = CutStart
    BY <1>1, <1>4
  <2>2. ASSUME NEW x \in SUBSET (1 .. n), x # {}, h[x \ {Max(x)}] \in CutState
        PROVE  h[x] = op[<<h[x \ {Max(x)}], Max(x)>>]
    <3>1. Max(x) \in 1 .. n /\ h[x] = CutStep(h[x \ {Max(x)}], s[Max(x)])
      BY <1>1, <1>4, <2>2, MaxIsMember
    <3> HIDE DEF Rule
    <3> QED
      BY <1>2, <2>2, <3>1
  <2> HIDE DEF Rule
  <2> QED
    BY <1>1, <1>2, <2>1, <2>2 DEF FollowsRule
<1>5. CutEnd(s) = (CHOOSE h : Rule(h))[1 .. n]
  BY <1>1 DEF CutEnd, CutStep, CutStart, FoldLeft, MapThenFoldSet
<1> HIDE DEF Rule
<1>6. PICK h : Rule(h) /\ CutEnd(s) = h[1 .. n]
  BY <1>1, <1>2, <1>3, <1>5, FoldExists
<1>7. PICK c : Loop(c, CutState, CutStart, op, n) /\ c[n] = h[1 .. n]
  <2>1. FollowsRule(h, CutState, CutStart, op, n)
    BY <1>4, <1>6
  <2> QED
    BY <1>6, <2>1, RuleIsLoop
<1>8. ASSUME NEW i \in 1 .. n PROVE c[i] = CutStep(c[i - 1], s[i])
  <2>1. i - 1 \in 0 .. n
    BY <1>1
  <2>2. c[i - 1] \in CutState
    BY <1>7, <2>1 DEF Loop
  <2> QED
    BY <1>2, <1>7, <2>2 DEF Loop
<1>9. c \in [0 .. n -> CutState] /\ c[0] = CutStart /\ CutEnd(s) = c[n]
  BY <1>6, <1>7 DEF Loop
<1> QED
  BY <1>8, <1>9 DEF n

\* The elements of a stretch of a sequence.
LEMMA Stretch ==
    ASSUME NEW S, NEW s \in Seq(S), NEW a \in 0 .. Len(s), NEW b \in a .. Len(s)
    PROVE  /\ SubSeq(s, a + 1, b) \in Seq(S) /\ Len(SubSeq(s, a + 1, b)) = b - a
           /\ \A j \in 1 .. b - a : SubSeq(s, a + 1, b)[j] = s[a + j]
<1>1. a \in Nat /\ b \in Nat /\ Len(s) \in Nat /\ a + 1 \in Int /\ b \in Int
  OBVIOUS
<1>2. \A i \in a + 1 .. b : s[i] \in S
  OBVIOUS
<1>3. /\ SubSeq(s, a + 1, b) \in Seq(S)
      /\ Len(SubSeq(s, a + 1, b)) = IF a + 1 <= b THEN b - (a + 1) + 1 ELSE 0
      /\ \A i \in 1 .. b - (a + 1) + 1 : SubSeq(s, a + 1, b)[i] = s[a + 1 + i - 1]
  BY <1>1, <1>2, SubSeqProperties
<1>4. b - (a + 1) + 1 = b - a /\ \A i \in 1 .. b - a : a + 1 + i - 1 = a + i
  BY <1>1
<1> QED
  BY <1>1, <1>3, <1>4

\* The widths of the first characters, and the bytes they take in the text.
WideAt(e, t, i) == WideSum(e, SubSeq(t, 1, i))
OffAt(t, i)     == Total(SubSeq(t, 1, i), Utf8)

\* The width of a stretch of the message is the difference of two sums.
LEMMA WidthPieces ==
    ASSUME NEW t \in Seq(Chars), NEW e \in {"ascii", "ucs2"}
    PROVE  \E c \in [0 .. Len(t) -> Nat] :
              /\ c[0] = 0 /\ WideSum(e, t) = c[Len(t)]
              /\ \A i \in 1 .. Len(t) : c[i] = c[i - 1] + Width(e, t[i])
              /\ \A a \in 0 .. Len(t) : \A b \in a .. Len(t) :
                    WideSum(e, SubSeq(t, a + 1, b)) = c[b] - c[a]
<1>1. PICK c \in [0 .. Len(t) -> Nat] :
         /\ c[0] = 0 /\ WideSum(e, t) = c[Len(t)]
         /\ \A i \in 1 .. Len(t) : c[i] = c[i - 1] + Width(e, t[i])
  BY WidthLoop
<1>2. ASSUME NEW a \in 0 .. Len(t), NEW b \in a .. Len(t)
      PROVE  WideSum(e, SubSeq(t, a + 1, b)) = c[b] - c[a]
  <2> DEFINE s == SubSeq(t, a + 1, b)
             n == b - a
  <2>1. s \in Seq(Chars) /\ Len(s) = n /\ \A j \in 1 .. n : s[j] = t[a + j]
    BY Stretch
  <2>2. n \in Nat /\ Len(t) \in Nat /\ a \in Nat /\ b \in Nat /\ a + n = b
    OBVIOUS
  <2> HIDE DEF s, n
  <2>3. PICK d \in [0 .. Len(s) -> Nat] :
           /\ d[0] = 0 /\ WideSum(e, s) = d[Len(s)]
           /\ \A i \in 1 .. Len(s) : d[i] = d[i - 1] + Width(e, s[i])
    BY <2>1, WidthLoop
  <2> DEFINE P == {j \in 0 .. n : d[j] = c[a + j] - c[a]}
  <2>4. 0 \in P
    <3>1. a + 0 = a /\ c[a] \in Nat /\ d[0] = 0 /\ 0 \in 0 .. n
      BY <1>1, <2>2, <2>3
    <3> QED
      BY <3>1
  <2>5. ASSUME NEW j \in 1 .. n, j - 1 \in P PROVE j \in P
    <3>1. /\ a + j \in 1 .. Len(t) /\ a + (j - 1) = a + j - 1 /\ j \in 0 .. n /\ j - 1 \in 0 .. n
          /\ a + j \in 0 .. Len(t) /\ a + j - 1 \in 0 .. Len(t) /\ a \in 0 .. Len(t)
      BY <2>2
    <3>2. d[j] = d[j - 1] + Width(e, t[a + j]) /\ c[a + j] = c[a + j - 1] + Width(e, t[a + j])
      BY <1>1, <2>1, <2>3, <3>1
    <3>3. d[j - 1] = c[a + j - 1] - c[a]
      BY <2>5, <3>1
    <3>4. c[a + j] \in Nat /\ c[a + j - 1] \in Nat /\ c[a] \in Nat /\ d[j] \in Nat /\ d[j - 1] \in Nat
      BY <1>1, <2>1, <2>3, <3>1
    <3>5. Width(e, t[a + j]) \in Int
      <4>1. t[a + j] \in Chars
        BY <3>1
      <4> QED
        BY <4>1 DEF Chars, Width, Units
    <3> QED
      BY <3>1, <3>2, <3>3, <3>4, <3>5
  <2> HIDE DEF P
  <2>6. n \in 0 .. n
    BY <2>2
  <2>7. n \in P
    BY <2>2, <2>4, <2>5, <2>6, UpTo
  <2>8. d[n] = c[a + n] - c[a]
    BY <2>7 DEF P
  <2>9. WideSum(e, s) = c[b] - c[a]
    BY <2>1, <2>2, <2>3, <2>8
  <2> QED
    BY <2>9 DEF s
<1> QED
  BY <1>1, <1>2

\* So are the bytes of the text before a character.
LEMMA OffsetPieces ==
    ASSUME NEW t \in Seq(Chars)
    PROVE  \E c \in [0 .. Len(t) -> Nat] :
              /\ c[0] = 0 /\ Total(t, Utf8) = c[Len(t)]
              /\ \A i \in 1 .. Len(t) : c[i] = c[i - 1] + Utf8(t[i])
              /\ \A i \in 0 .. Len(t) : OffAt(t, i) = c[i]
<1>1. PICK c \in [0 .. Len(t) -> Nat] :
         /\ c[0] = 0 /\ Total(t, Utf8) = c[Len(t)]
         /\ \A i \in 1 .. Len(t) : c[i] = c[i - 1] + Utf8(t[i])
  BY OffsetLoop
<1>2. ASSUME NEW b \in 0 .. Len(t) PROVE OffAt(t, b) = c[b]
  <2> DEFINE s == SubSeq(t, 1, b)
  <2>1. s \in Seq(Chars) /\ Len(s) = b /\ \A j \in 1 .. b : s[j] = t[j]
    <3>1. 0 \in 0 .. Len(t) /\ b \in 0 .. Len(t) /\ 0 + 1 = 1 /\ b - 0 = b /\ \A j \in 1 .. b : 0 + j = j
      OBVIOUS
    <3> QED
      BY <3>1, Stretch
  <2>2. Len(t) \in Nat /\ b \in Nat
    OBVIOUS
  <2> HIDE DEF s
  <2>3. PICK d \in [0 .. Len(s) -> Nat] :
           /\ d[0] = 0 /\ Total(s, Utf8) = d[Len(s)]
           /\ \A i \in 1 .. Len(s) : d[i] = d[i - 1] + Utf8(s[i])
    BY <2>1, OffsetLoop
  <2> DEFINE P == {j \in 0 .. b : d[j] = c[j]}
  <2>4. 0 \in P
    BY <1>1, <2>2, <2>3
  <2>5. ASSUME NEW j \in 1 .. b, j - 1 \in P PROVE j \in P
    <3>1. j \in 1 .. Len(t) /\ j \in 0 .. b
      BY <2>2
    <3>2. d[j] = d[j - 1] + Utf8(t[j]) /\ c[j] = c[j - 1] + Utf8(t[j])
      BY <1>1, <2>1, <2>3, <3>1
    <3> QED
      BY <2>5, <3>1, <3>2
  <2> HIDE DEF P
  <2>6. b \in 0 .. b
    BY <2>2
  <2>7. b \in P
    BY <2>2, <2>4, <2>5, <2>6, UpTo
  <2>8. d[b] = c[b]
    BY <2>7 DEF P
  <2> QED
    BY <2>1, <2>3, <2>8 DEF s, OffAt
<1> QED
  BY <1>1, <1>2

\* What the widths of the first characters are.
LEMMA Widths ==
    ASSUME NEW t \in Seq(Chars), NEW e \in {"ascii", "ucs2"}
    PROVE  /\ WideAt(e, t, 0) = 0 /\ WideSum(e, t) = WideAt(e, t, Len(t))
           /\ \A i \in 0 .. Len(t) : WideAt(e, t, i) \in Nat
           /\ \A i \in 1 .. Len(t) : WideAt(e, t, i) = WideAt(e, t, i - 1) + Width(e, t[i])
           /\ \A a \in 0 .. Len(t) : \A b \in a .. Len(t) :
                 /\ WideSum(e, SubSeq(t, a + 1, b)) = WideAt(e, t, b) - WideAt(e, t, a)
                 /\ WideAt(e, t, a) <= WideAt(e, t, b)
<1>1. PICK c \in [0 .. Len(t) -> Nat] :
         /\ c[0] = 0 /\ WideSum(e, t) = c[Len(t)]
         /\ \A i \in 1 .. Len(t) : c[i] = c[i - 1] + Width(e, t[i])
         /\ \A a \in 0 .. Len(t) : \A b \in a .. Len(t) :
               WideSum(e, SubSeq(t, a + 1, b)) = c[b] - c[a]
  BY WidthPieces
<1>2. Len(t) \in Nat /\ 0 \in 0 .. Len(t) /\ \A i \in 0 .. Len(t) : i \in 0 .. Len(t) /\ 0 + 1 = 1
  OBVIOUS
<1>3. ASSUME NEW i \in 0 .. Len(t) PROVE WideAt(e, t, i) = c[i] /\ c[i] \in Nat
  <2>1. WideSum(e, SubSeq(t, 0 + 1, i)) = c[i] - c[0] /\ c[i] \in Nat
    BY <1>1, <1>2
  <2> QED
    BY <1>1, <1>2, <2>1 DEF WideAt
<1>4. ASSUME NEW a \in 0 .. Len(t), NEW b \in a .. Len(t) PROVE c[a] <= c[b]
  <2> DEFINE s == SubSeq(t, a + 1, b)
  <2>1. s \in Seq(Chars)
    BY Stretch
  <2>2. WideSum(e, s) \in Nat
    <3> HIDE DEF s
    <3>1. PICK d \in [0 .. Len(s) -> Nat] : WideSum(e, s) = d[Len(s)]
      BY <2>1, WidthLoop
    <3> QED
      BY <2>1, <3>1
  <2>3. c[a] \in Nat /\ c[b] \in Nat /\ WideSum(e, s) = c[b] - c[a]
    BY <1>1
  <2> HIDE DEF s
  <2> QED
    BY <2>2, <2>3
<1>5. \A i \in 1 .. Len(t) : i \in 0 .. Len(t) /\ i - 1 \in 0 .. Len(t)
  BY <1>2
<1>6. \A a \in 0 .. Len(t) : \A b \in a .. Len(t) : b \in 0 .. Len(t)
  BY <1>2
<1>7. Len(t) \in 0 .. Len(t)
  BY <1>2
<1> QED
  BY <1>1, <1>2, <1>3, <1>4, <1>5, <1>6, <1>7

\* What the offsets of the characters are: no two have the same.
LEMMA Offsets ==
    ASSUME NEW t \in Seq(Chars)
    PROVE  /\ OffAt(t, 0) = 0 /\ Total(t, Utf8) = OffAt(t, Len(t))
           /\ \A i \in 0 .. Len(t) : OffAt(t, i) \in Nat
           /\ \A i \in 1 .. Len(t) : OffAt(t, i) = OffAt(t, i - 1) + Utf8(t[i])
           /\ \A a, b \in 0 .. Len(t) : OffAt(t, a) = OffAt(t, b) => a = b
<1>1. PICK c \in [0 .. Len(t) -> Nat] :
         /\ c[0] = 0 /\ Total(t, Utf8) = c[Len(t)]
         /\ \A i \in 1 .. Len(t) : c[i] = c[i - 1] + Utf8(t[i])
         /\ \A i \in 0 .. Len(t) : OffAt(t, i) = c[i]
  BY OffsetPieces
<1>2. Len(t) \in Nat /\ 0 \in 0 .. Len(t) /\ Len(t) \in 0 .. Len(t)
  OBVIOUS
<1>3. \A i \in 1 .. Len(t) : i \in 0 .. Len(t) /\ i - 1 \in 0 .. Len(t)
  BY <1>2
<1>4. ASSUME NEW a \in 0 .. Len(t), NEW b \in a + 1 .. Len(t) PROVE c[a] < c[b]
  <2> DEFINE n == b - a
             P == {j \in 0 .. n : j > 0 => c[a] < c[a + j]}
  <2>1. n \in Nat /\ n > 0 /\ a + n = b /\ n \in 0 .. n /\ a \in Nat
    BY <1>2
  <2>2. 0 \in P
    BY <2>1
  <2>3. ASSUME NEW j \in 1 .. n, j - 1 \in P PROVE j \in P
    <3>1. a + j \in 1 .. Len(t) /\ a + (j - 1) = a + j - 1 /\ a + j \in 0 .. Len(t) /\ a + j - 1 \in 0 .. Len(t)
      BY <1>2, <2>1
    <3>2. c[a + j] = c[a + j - 1] + Utf8(t[a + j]) /\ Utf8(t[a + j]) \in Nat \ {0}
      <4>1. t[a + j] \in Chars
        BY <3>1
      <4>2. Utf8(t[a + j]) \in Nat \ {0}
        BY <4>1 DEF Chars, Utf8
      <4> QED
        BY <1>1, <3>1, <4>2
    <3>3. j - 1 = 0 \/ c[a] < c[a + j - 1]
      <4>1. j - 1 > 0 => c[a] < c[a + (j - 1)]
        BY <2>3
      <4> QED
        BY <3>1, <4>1, <2>1
    <3>4. c[a] \in Nat /\ c[a + j] \in Nat /\ c[a + j - 1] \in Nat
      BY <1>1, <3>1
    <3>5. j - 1 = 0 => a + j - 1 = a
      BY <2>1
    <3>6. c[a] < c[a + j] /\ j \in 0 .. n
      BY <3>2, <3>3, <3>4, <3>5, <2>1
    <3> QED
      BY <3>6
  <2> HIDE DEF P, n
  <2>4. n \in P
    BY <2>1, <2>2, <2>3, UpTo
  <2> QED
    BY <2>1, <2>4 DEF P
<1>5. ASSUME NEW a \in 0 .. Len(t), NEW b \in 0 .. Len(t), c[a] = c[b] PROVE a = b
  <2>1. c[a] \in Nat /\ c[b] \in Nat
    BY <1>1
  <2>2. CASE a < b
    <3>1. b \in a + 1 .. Len(t)
      BY <2>2
    <3> QED
      BY <1>4, <1>5, <2>1, <3>1
  <2>3. CASE b < a
    <3>1. a \in b + 1 .. Len(t)
      BY <2>3
    <3> QED
      BY <1>4, <1>5, <2>1, <3>1
  <2> QED
    BY <2>2, <2>3
<1>6. \A i \in 0 .. Len(t) : OffAt(t, i) = c[i] /\ c[i] \in Nat
  BY <1>1
<1>7. \A i \in 1 .. Len(t) : OffAt(t, i) = OffAt(t, i - 1) + Utf8(t[i])
  BY <1>1, <1>3
<1>8. \A a, b \in 0 .. Len(t) : OffAt(t, a) = OffAt(t, b) => a = b
  BY <1>5, <1>6
<1> QED
  BY <1>1, <1>2, <1>6, <1>7, <1>8

\* A slice between two of these offsets is a stretch of the text.
LEMMA SliceIsStretch ==
    ASSUME NEW t \in Seq(Chars), NEW a \in 0 .. Len(t), NEW b \in 0 .. Len(t)
    PROVE  Slice(t, OffAt(t, a), OffAt(t, b)) = SubSeq(t, a + 1, b)
<1> DEFINE At(i) == Total(SubSeq(t, 1, i), Utf8)
<1>1. \A i \in 0 .. Len(t) : At(i) = OffAt(t, i)
  BY DEF OffAt
<1> HIDE DEF At
<1>2. ASSUME NEW i \in 0 .. Len(t), NEW j \in 0 .. Len(t), At(i) = At(j) PROVE i = j
  <2>1. OffAt(t, i) = OffAt(t, j)
    BY <1>1, <1>2
  <2>2. \A x, y \in 0 .. Len(t) : OffAt(t, x) = OffAt(t, y) => x = y
    BY Offsets
  <2> QED
    BY <2>1, <2>2
<1>3. (CHOOSE i \in 0 .. Len(t) : At(i) = At(a)) = a
  BY <1>2
<1>4. (CHOOSE i \in 0 .. Len(t) : At(i) = At(b)) = b
  BY <1>2
<1>5. \E i, j \in 0 .. Len(t) : At(i) = At(a) /\ At(j) = At(b)
  OBVIOUS
<1>6. Slice(t, At(a), At(b)) = SubSeq(t, 1 + CHOOSE i \in 0 .. Len(t) : At(i) = At(a),
                                         CHOOSE i \in 0 .. Len(t) : At(i) = At(b))
  BY <1>5 DEF Slice, At
<1>7. Slice(t, At(a), At(b)) = SubSeq(t, 1 + a, b)
  BY <1>3, <1>4, <1>6
<1>8. 1 + a = a + 1
  OBVIOUS
<1> QED
  BY <1>1, <1>7, <1>8

\* What decoding gives; what a fold of the model decodes and joins.
Glyphs == Chars \cup {"?"}
Decoded(u, s) == FoldLeft(LAMBDA r, i : r \o CharAt(u, i), <<>>, s)
Joined(s)     == FoldLeft(LAMBDA r, x : r \o Decode(x), <<>>, s)

\* Every unit gives at most one character.
LEMMA CharTyped ==
    ASSUME NEW u \in Seq(CodeUnits), NEW i \in 1 .. Len(u)
    PROVE  CharAt(u, i) \in Seq(Glyphs)
<1>1. u[i] \in CodeUnits
  OBVIOUS
<1>2. <<>> \in Seq(Glyphs) /\ \A g \in Glyphs : <<g>> \in Seq(Glyphs)
  OBVIOUS
<1>3. "s" \in Glyphs /\ "?" \in Glyphs /\ (u[i] \notin {"hi", "lo"} => u[i] \in Glyphs)
  BY <1>1 DEF CodeUnits, Glyphs, Chars
<1> QED
  BY <1>2, <1>3 DEF CharAt

\* decode_msg_content, unit by unit.
LEMMA DecodeLoop ==
    ASSUME NEW u \in Seq(CodeUnits), NEW s \in Seq(1 .. Len(u))
    PROVE  \E c \in [0 .. Len(s) -> Seq(Glyphs)] :
              /\ c[0] = <<>> /\ Decoded(u, s) = c[Len(s)]
              /\ \A i \in 1 .. Len(s) : c[i] = c[i - 1] \o CharAt(u, s[i])
<1> DEFINE n == Len(s)
           op == [p \in Seq(Glyphs) \X (1 .. n) |-> p[1] \o CharAt(u, s[p[2]])]
           Rule(h) == h = [x \in SUBSET (DOMAIN s) |->
                              IF x = {} THEN <<>> ELSE h[x \ {Max(x)}] \o CharAt(u, s[Max(x)])]
<1>1. /\ n \in Nat /\ DOMAIN s = 1 .. n /\ <<>> \in Seq(Glyphs)
      /\ \A r \in Seq(Glyphs), i \in 1 .. n : r \o CharAt(u, s[i]) \in Seq(Glyphs)
  <2>1. \A i \in 1 .. Len(u) : CharAt(u, i) \in Seq(Glyphs)
    BY CharTyped
  <2>2. n \in Nat /\ DOMAIN s = 1 .. n /\ \A i \in 1 .. n : s[i] \in 1 .. Len(u)
    OBVIOUS
  <2>3. <<>> \in Seq(Glyphs)
    OBVIOUS
  <2>4. ASSUME NEW r \in Seq(Glyphs), NEW i \in 1 .. n PROVE r \o CharAt(u, s[i]) \in Seq(Glyphs)
    <3>1. CharAt(u, s[i]) \in Seq(Glyphs)
      BY <2>1, <2>2
    <3> QED
      BY <3>1, ConcatProperties
  <2> QED
    BY <2>2, <2>3, <2>4
<1>2. /\ op \in [Seq(Glyphs) \X (1 .. n) -> Seq(Glyphs)]
      /\ \A r \in Seq(Glyphs), i \in 1 .. n : op[<<r, i>>] = r \o CharAt(u, s[i])
  <2> SUFFICES ASSUME NEW p \in Seq(Glyphs) \X (1 .. n) PROVE op[p] \in Seq(Glyphs)
    OBVIOUS
  <2> QED
    BY <1>1
<1> HIDE DEF n, op
<1>3. ASSUME NEW g, FoldTable(g, Seq(Glyphs), <<>>, op, n) PROVE Rule(g)
  <2>1. g \in [SUBSET (1 .. n) -> Seq(Glyphs)] /\ g[{}] = <<>>
    BY <1>3 DEF FoldTable
  <2>2. ASSUME NEW x \in SUBSET (1 .. n), x # {} PROVE g[x] = g[x \ {Max(x)}] \o CharAt(u, s[Max(x)])
    <3>1. Max(x) \in 1 .. n /\ g[x \ {Max(x)}] \in Seq(Glyphs)
      BY <1>1, <2>1, <2>2, MaxIsMember
    <3>2. g[x] = op[<<g[x \ {Max(x)}], Max(x)>>]
      BY <1>3, <2>2 DEF FoldTable
    <3> QED
      BY <1>2, <3>1, <3>2
  <2> QED
    BY <1>1, <2>1, <2>2
<1>4. ASSUME NEW h, Rule(h) PROVE FollowsRule(h, Seq(Glyphs), <<>>, op, n)
  <2>1. h[{}] = <<>>
    BY <1>1, <1>4
  <2>2. ASSUME NEW x \in SUBSET (1 .. n), x # {}, h[x \ {Max(x)}] \in Seq(Glyphs)
        PROVE  h[x] = op[<<h[x \ {Max(x)}], Max(x)>>]
    <3>1. Max(x) \in 1 .. n /\ h[x] = h[x \ {Max(x)}] \o CharAt(u, s[Max(x)])
      BY <1>1, <1>4, <2>2, MaxIsMember
    <3> HIDE DEF Rule
    <3> QED
      BY <1>2, <2>2, <3>1
  <2> HIDE DEF Rule
  <2> QED
    BY <1>1, <1>2, <2>1, <2>2 DEF FollowsRule
<1>5. Decoded(u, s) = (CHOOSE h : Rule(h))[1 .. n]
  BY <1>1 DEF Decoded, FoldLeft, MapThenFoldSet
<1> HIDE DEF Rule
<1>6. PICK h : Rule(h) /\ Decoded(u, s) = h[1 .. n]
  BY <1>1, <1>2, <1>3, <1>5, FoldExists
<1>7. PICK c : Loop(c, Seq(Glyphs), <<>>, op, n) /\ c[n] = h[1 .. n]
  <2>1. FollowsRule(h, Seq(Glyphs), <<>>, op, n)
    BY <1>4, <1>6
  <2> QED
    BY <1>6, <2>1, RuleIsLoop
<1>8. ASSUME NEW i \in 1 .. n PROVE c[i] = c[i - 1] \o CharAt(u, s[i])
  <2>1. i - 1 \in 0 .. n
    BY <1>1
  <2>2. c[i - 1] \in Seq(Glyphs)
    BY <1>7, <2>1 DEF Loop
  <2> QED
    BY <1>2, <1>7, <2>2 DEF Loop
<1>9. c \in [0 .. n -> Seq(Glyphs)] /\ c[0] = <<>> /\ Decoded(u, s) = c[n]
  BY <1>6, <1>7 DEF Loop
<1> QED
  BY <1>8, <1>9 DEF n

\* The texts of the segments, one after the other.
LEMMA JoinLoop ==
    ASSUME NEW S, NEW s \in Seq(S), \A i \in 1 .. Len(s) : Decode(s[i]) \in Seq(Chars)
    PROVE  \E c \in [0 .. Len(s) -> Seq(Chars)] :
              /\ c[0] = <<>> /\ Joined(s) = c[Len(s)]
              /\ \A i \in 1 .. Len(s) : c[i] = c[i - 1] \o Decode(s[i])
<1> DEFINE n == Len(s)
           op == [p \in Seq(Chars) \X (1 .. n) |-> p[1] \o Decode(s[p[2]])]
           Rule(h) == h = [x \in SUBSET (DOMAIN s) |->
                              IF x = {} THEN <<>> ELSE h[x \ {Max(x)}] \o Decode(s[Max(x)])]
<1>1. /\ n \in Nat /\ DOMAIN s = 1 .. n /\ <<>> \in Seq(Chars)
      /\ \A r \in Seq(Chars), i \in 1 .. n : r \o Decode(s[i]) \in Seq(Chars)
  <2>2. n \in Nat /\ DOMAIN s = 1 .. n
    OBVIOUS
  <2>3. <<>> \in Seq(Chars)
    OBVIOUS
  <2>4. ASSUME NEW r \in Seq(Chars), NEW i \in 1 .. n PROVE r \o Decode(s[i]) \in Seq(Chars)
    <3>1. Decode(s[i]) \in Seq(Chars)
      OBVIOUS
    <3> QED
      BY <3>1, ConcatProperties
  <2> QED
    BY <2>2, <2>3, <2>4
<1>2. /\ op \in [Seq(Chars) \X (1 .. n) -> Seq(Chars)]
      /\ \A r \in Seq(Chars), i \in 1 .. n : op[<<r, i>>] = r \o Decode(s[i])
  <2> SUFFICES ASSUME NEW p \in Seq(Chars) \X (1 .. n) PROVE op[p] \in Seq(Chars)
    OBVIOUS
  <2> QED
    BY <1>1
<1> HIDE DEF n, op
<1>3. ASSUME NEW g, FoldTable(g, Seq(Chars), <<>>, op, n) PROVE Rule(g)
  <2>1. g \in [SUBSET (1 .. n) -> Seq(Chars)] /\ g[{}] = <<>>
    BY <1>3 DEF FoldTable
  <2>2. ASSUME NEW x \in SUBSET (1 .. n), x # {} PROVE g[x] = g[x \ {Max(x)}] \o Decode(s[Max(x)])
    <3>1. Max(x) \in 1 .. n /\ g[x \ {Max(x)}] \in Seq(Chars)
      BY <1>1, <2>1, <2>2, MaxIsMember
    <3>2. g[x] = op[<<g[x \ {Max(x)}], Max(x)>>]
      BY <1>3, <2>2 DEF FoldTable
    <3> QED
      BY <1>2, <3>1, <3>2
  <2> QED
    BY <1>1, <2>1, <2>2
<1>4. ASSUME NEW h, Rule(h) PROVE FollowsRule(h, Seq(Chars), <<>>, op, n)
  <2>1. h[{}] = <<>>
    BY <1>1, <1>4
  <2>2. ASSUME NEW x \in SUBSET (1 .. n), x # {}, h[x \ {Max(x)}] \in Seq(Chars)
        PROVE  h[x] = op[<<h[x \ {Max(x)}], Max(x)>>]
    <3>1. Max(x) \in 1 .. n /\ h[x] = h[x \ {Max(x)}] \o Decode(s[Max(x)])
      BY <1>1, <1>4, <2>2, MaxIsMember
    <3> HIDE DEF Rule
    <3> QED
      BY <1>2, <2>2, <3>1
  <2> HIDE DEF Rule
  <2> QED
    BY <1>1, <1>2, <2>1, <2>2 DEF FollowsRule
<1>5. Joined(s) = (CHOOSE h : Rule(h))[1 .. n]
  BY <1>1 DEF Joined, FoldLeft, MapThenFoldSet
<1> HIDE DEF Rule
<1>6. PICK h : Rule(h) /\ Joined(s) = h[1 .. n]
  BY <1>1, <1>2, <1>3, <1>5, FoldExists
<1>7. PICK c : Loop(c, Seq(Chars), <<>>, op, n) /\ c[n] = h[1 .. n]
  <2>1. FollowsRule(h, Seq(Chars), <<>>, op, n)
    BY <1>4, <1>6
  <2> QED
    BY <1>6, <2>1, RuleIsLoop
<1>8. ASSUME NEW i \in 1 .. n PROVE c[i] = c[i - 1] \o Decode(s[i])
  <2>1. i - 1 \in 0 .. n
    BY <1>1
  <2>2. c[i - 1] \in Seq(Chars)
    BY <1>7, <2>1 DEF Loop
  <2> QED
    BY <1>2, <1>7, <2>2 DEF Loop
<1>9. c \in [0 .. n -> Seq(Chars)] /\ c[0] = <<>> /\ Joined(s) = c[n]
  BY <1>6, <1>7 DEF Loop
<1> QED
  BY <1>8, <1>9 DEF n

\* The units after i characters are the first of all the units.
LEMMA EncodeChain ==
    ASSUME NEW x \in Seq(Chars)
    PROVE  \E d \in [0 .. Len(x) -> Seq(CodeUnits)] :
              /\ d[0] = <<>> /\ d[Len(x)] = Encode(x)
              /\ \A i \in 1 .. Len(x) : d[i] = d[i - 1] \o Units(x[i])
              /\ \A i \in 0 .. Len(x) :
                    /\ Len(d[i]) <= Len(Encode(x))
                    /\ \A j \in 1 .. Len(d[i]) : Encode(x)[j] = d[i][j]
<1>1. PICK d \in [0 .. Len(x) -> Seq(CodeUnits)] :
         /\ d[0] = <<>> /\ Encode(x) = d[Len(x)]
         /\ \A i \in 1 .. Len(x) : d[i] = d[i - 1] \o Units(x[i])
  BY EncodeLoop
<1> DEFINE n == Len(x)
<1>2. n \in Nat /\ \A i \in 1 .. n : x[i] \in Chars
  OBVIOUS
<1>3. ASSUME NEW i \in 1 .. n
      PROVE  /\ i \in 0 .. n /\ i - 1 \in 0 .. n
             /\ Len(d[i - 1]) <= Len(d[i]) /\ \A j \in 1 .. Len(d[i - 1]) : d[i][j] = d[i - 1][j]
  <2>1. i \in 0 .. n /\ i - 1 \in 0 .. n /\ Units(x[i]) \in Seq(CodeUnits)
    BY <1>2, UnitsTyped
  <2>2. d[i - 1] \in Seq(CodeUnits) /\ d[i] = d[i - 1] \o Units(x[i])
    BY <1>1, <2>1
  <2>3. Len(d[i]) = Len(d[i - 1]) + Len(Units(x[i])) /\ Len(Units(x[i])) \in Nat /\ Len(d[i - 1]) \in Nat
    BY <2>1, <2>2
  <2>4. \A j \in 1 .. Len(d[i - 1]) : d[i][j] = d[i - 1][j]
    BY <2>1, <2>2, <2>3
  <2> QED
    BY <2>1, <2>3, <2>4
<1>4. ASSUME NEW i \in 0 .. n
      PROVE  Len(d[i]) <= Len(d[n]) /\ \A j \in 1 .. Len(d[i]) : d[n][j] = d[i][j]
  <2> DEFINE m == n - i
             P == {k \in 0 .. m : Len(d[i]) <= Len(d[i + k]) /\ \A j \in 1 .. Len(d[i]) : d[i + k][j] = d[i][j]}
  <2>1. m \in Nat /\ i + m = n /\ i \in Nat /\ i + 0 = i /\ m \in 0 .. m /\ 0 \in 0 .. m
    BY <1>2
  <2>2. \A k \in 0 .. n : Len(d[k]) \in Nat
    BY <1>1
  <2>3. 0 \in P
    BY <2>1, <2>2
  <2>4. ASSUME NEW k \in 1 .. m, k - 1 \in P PROVE k \in P
    <3>1. i + k \in 1 .. n /\ i + (k - 1) = i + k - 1 /\ i + k \in 0 .. n /\ i + k - 1 \in 0 .. n /\ k \in 0 .. m
      BY <1>2, <2>1
    <3>2. Len(d[i]) <= Len(d[i + k - 1]) /\ \A j \in 1 .. Len(d[i]) : d[i + k - 1][j] = d[i][j]
      BY <2>4, <3>1
    <3>3. Len(d[i + k - 1]) <= Len(d[i + k]) /\ \A j \in 1 .. Len(d[i + k - 1]) : d[i + k][j] = d[i + k - 1][j]
      BY <1>3, <3>1
    <3>4. Len(d[i]) \in Nat /\ Len(d[i + k - 1]) \in Nat /\ Len(d[i + k]) \in Nat
      BY <2>2, <3>1
    <3>5. Len(d[i]) <= Len(d[i + k])
      BY <3>2, <3>3, <3>4
    <3>6. ASSUME NEW j \in 1 .. Len(d[i]) PROVE d[i + k][j] = d[i][j]
      <4>1. j \in 1 .. Len(d[i + k - 1])
        BY <3>2, <3>4
      <4> QED
        BY <3>2, <3>3, <4>1
    <3> QED
      BY <3>1, <3>5, <3>6
  <2> HIDE DEF P, m
  <2>5. m \in P
    BY <2>1, <2>3, <2>4, UpTo
  <2>6. Len(d[i]) <= Len(d[i + m]) /\ \A j \in 1 .. Len(d[i]) : d[i + m][j] = d[i][j]
    BY <2>5 DEF P
  <2> QED
    BY <2>1, <2>6
<1> QED
  BY <1>1, <1>4

\* encode_content gives as many bytes as the widths of the characters say.
LEMMA EncodedBytes ==
    ASSUME NEW x \in Seq(Chars), NEW e \in {"ascii", "ucs2"},
           e = "ascii" => \A i \in 1 .. Len(x) : x[i] = "a"
    PROVE  Bytes(Encode(x), e) = WideSum(e, x)
<1>1. PICK d \in [0 .. Len(x) -> Seq(CodeUnits)] :
         /\ d[0] = <<>> /\ Encode(x) = d[Len(x)]
         /\ \A i \in 1 .. Len(x) : d[i] = d[i - 1] \o Units(x[i])
  BY EncodeLoop
<1>2. PICK c \in [0 .. Len(x) -> Nat] :
         /\ c[0] = 0 /\ WideSum(e, x) = c[Len(x)]
         /\ \A i \in 1 .. Len(x) : c[i] = c[i - 1] + Width(e, x[i])
  BY WidthLoop
<1> DEFINE n == Len(x)
           P == {i \in 0 .. n : Bytes(d[i], e) = c[i]}
<1>3. n \in Nat /\ 0 \in 0 .. n /\ n \in 0 .. n /\ \A i \in 1 .. n : x[i] \in Chars
  OBVIOUS
<1>4. 0 \in P
  <2>1. Len(d[0]) = 0
    BY <1>1
  <2> QED
    BY <1>2, <1>3, <2>1 DEF Bytes
<1>5. ASSUME NEW i \in 1 .. n, i - 1 \in P PROVE i \in P
  <2>1. i \in 0 .. n /\ i - 1 \in 0 .. n /\ Units(x[i]) \in Seq(CodeUnits)
    BY <1>3, UnitsTyped
  <2>2. d[i - 1] \in Seq(CodeUnits) /\ d[i] = d[i - 1] \o Units(x[i]) /\ c[i] = c[i - 1] + Width(e, x[i])
    BY <1>1, <1>2, <2>1
  <2>3. Len(d[i]) = Len(d[i - 1]) + Len(Units(x[i])) /\ Len(Units(x[i])) \in Nat /\ Len(d[i - 1]) \in Nat
    BY <2>1, <2>2
  <2>4. Bytes(d[i - 1], e) = c[i - 1] /\ c[i - 1] \in Nat
    BY <1>2, <1>5, <2>1
  <2>5. CASE e = "ascii"
    <3>1. Len(Units(x[i])) = 1 /\ Width(e, x[i]) = 1
      BY <2>5 DEF Units, Width
    <3>2. Bytes(d[i], e) = c[i]
      BY <2>2, <2>3, <2>4, <2>5, <3>1 DEF Bytes
    <3> QED
      BY <2>1, <3>2
  <2>6. CASE e # "ascii"
    <3>1. Width(e, x[i]) = 2 * Len(Units(x[i]))
      BY <2>6 DEF Width
    <3>2. Bytes(d[i], e) = 2 * Len(d[i]) /\ Bytes(d[i - 1], e) = 2 * Len(d[i - 1])
      BY <2>6 DEF Bytes
    <3>3. Bytes(d[i], e) = c[i]
      <4>1. \A p, q \in Nat : 2 * (p + q) = 2 * p + 2 * q
        OBVIOUS
      <4>2. 2 * Len(d[i]) = 2 * Len(d[i - 1]) + 2 * Len(Units(x[i]))
        BY <2>3, <4>1
      <4>3. c[i] = c[i - 1] + Width(e, x[i])
        BY <2>2
      <4> QED
        BY <2>4, <3>1, <3>2, <4>2, <4>3
    <3> QED
      BY <2>1, <3>3
  <2> QED
    BY <2>5, <2>6
<1> HIDE DEF P, n
<1>6. n \in P
  BY <1>3, <1>4, <1>5, UpTo
<1> QED
  BY <1>1, <1>2, <1>6 DEF P, n

\* What the other side decodes is what was encoded.
LEMMA DecodeEncode ==
    ASSUME NEW x \in Seq(Chars), NEW s, s.units = Encode(x), s.udhi => x # <<>>
    PROVE  Decode(s) = x
<1> DEFINE n == Len(x)
           u == Encode(x)
<1>0. /\ n \in Nat /\ 0 \in 0 .. n /\ n \in 0 .. n
      /\ \A i \in 1 .. n : x[i] \in Chars /\ i \in 0 .. n /\ i - 1 \in 0 .. n
  OBVIOUS
<1>1. PICK d \in [0 .. Len(x) -> Seq(CodeUnits)] :
         /\ d[0] = <<>> /\ d[n] = u
         /\ \A i \in 1 .. n : d[i] = d[i - 1] \o Units(x[i])
         /\ \A i \in 0 .. n : /\ Len(d[i]) <= Len(u)
                              /\ \A j \in 1 .. Len(d[i]) : u[j] = d[i][j]
  BY EncodeChain
<1>2. u \in Seq(CodeUnits) /\ Len(u) \in Nat /\ DOMAIN u = 1 .. Len(u)
  <2>1. d[n] \in Seq(CodeUnits)
    BY <1>0, <1>1
  <2> QED
    BY <1>1, <2>1
<1> DEFINE z == [j \in DOMAIN u |-> j]
<1> HIDE DEF u
<1>3. z \in Seq(1 .. Len(u)) /\ Len(z) = Len(u) /\ \A j \in 1 .. Len(u) : z[j] = j
  BY <1>2
<1> HIDE DEF z
<1>4. PICK c \in [0 .. Len(z) -> Seq(Glyphs)] :
         /\ c[0] = <<>> /\ Decoded(u, z) = c[Len(z)]
         /\ \A j \in 1 .. Len(z) : c[j] = c[j - 1] \o CharAt(u, z[j])
  BY <1>2, <1>3, DecodeLoop
<1>5. ASSUME NEW j \in Nat, NEW k, k = j + 1, k \in 1 .. Len(u) PROVE c[k] = c[j] \o CharAt(u, k)
  <2>1. k - 1 = j
    BY <1>5
  <2> QED
    BY <1>3, <1>4, <1>5, <2>1
<1>6. \A i \in 0 .. n : Len(d[i]) \in Nat /\ d[i] \in Seq(CodeUnits)
  BY <1>1
\* The units of one character.
<1>7. ASSUME NEW i \in 1 .. n
      PROVE  /\ Len(d[i]) = Len(d[i - 1]) + Len(Units(x[i])) /\ Len(d[i]) <= Len(u)
             /\ \A k \in 1 .. Len(Units(x[i])) : u[Len(d[i - 1]) + k] = Units(x[i])[k]
  <2> DEFINE f == d[i - 1]
             g == d[i]
             w == Units(x[i])
  <2>1. g = f \o w /\ w \in Seq(CodeUnits) /\ f \in Seq(CodeUnits)
    BY <1>0, <1>1, <1>6, UnitsTyped
  <2>2. Len(g) <= Len(u) /\ \A j \in 1 .. Len(g) : u[j] = g[j]
    BY <1>0, <1>1
  <2> HIDE DEF f, g, w
  <2>3. Len(g) = Len(f) + Len(w) /\ Len(f) \in Nat /\ Len(w) \in Nat
    BY <2>1
  <2>4. ASSUME NEW k \in 1 .. Len(w) PROVE u[Len(f) + k] = w[k]
    <3>1. Len(f) + k \in 1 .. Len(g)
      BY <2>3
    <3>2. u[Len(f) + k] = g[Len(f) + k]
      BY <2>2, <3>1
    <3>3. g[Len(f) + k] = w[k]
      BY <2>1, <2>3, <3>1
    <3> QED
      BY <3>2, <3>3
  <2>5. /\ Len(g) = Len(f) + Len(w) /\ Len(g) <= Len(u)
        /\ \A k \in 1 .. Len(w) : u[Len(f) + k] = w[k]
    BY <2>2, <2>3, <2>4
  <2> QED
    BY <2>5 DEF f, g, w
<1> DEFINE P == {i \in 0 .. n : c[Len(d[i])] = SubSeq(x, 1, i)}
<1>8. 0 \in P
  BY <1>0, <1>1, <1>4
<1>9. ASSUME NEW i \in 1 .. n, i - 1 \in P PROVE i \in P
  <2> DEFINE l == Len(d[i - 1])
  <2>1. l \in Nat /\ x[i] \in Chars /\ i \in 0 .. n /\ i - 1 \in 0 .. n
    BY <1>0, <1>6
  <2>2. c[l] = SubSeq(x, 1, i - 1)
    BY <1>9
  <2>3. SubSeq(x, 1, i) = SubSeq(x, 1, i - 1) \o <<x[i]>> /\ SubSeq(x, 1, i - 1) \in Seq(Chars)
    <3>1. SubSeq(x, 1, i) = Append(SubSeq(x, 1, i - 1), x[i])
      BY <1>0, <2>1
    <3> QED
      BY <3>1, <1>0, <2>1
  <2> DEFINE w == Units(x[i])
             m == Len(d[i])
  <2>a. m = l + Len(w) /\ m <= Len(u) /\ \A k \in 1 .. Len(w) : u[l + k] = w[k]
    BY <1>7
  <2> HIDE DEF l, w, m
  <2>4. CASE x[i] # "s"
    <3>1. w = <<x[i]>> /\ x[i] \in {"a", "b"}
      BY <2>1, <2>4 DEF Units, Chars, w
    <3>2. m = l + 1 /\ l + 1 \in 1 .. Len(u) /\ u[l + 1] = x[i]
      <4>1. Len(w) = 1 /\ 1 \in 1 .. Len(w) /\ w[1] = x[i]
        BY <3>1
      <4> QED
        BY <1>2, <2>a, <2>1, <4>1
    <3>3. CharAt(u, l + 1) = <<x[i]>>
      BY <3>1, <3>2 DEF CharAt
    <3>4. l + 1 - 1 = l
      BY <2>1
    <3>5. c[l + 1] = c[l] \o <<x[i]>>
      <4>1. c[l + 1] = c[l] \o CharAt(u, l + 1)
        BY <1>5, <2>1, <3>2
      <4> QED
        BY <3>3, <4>1
    <3>6. c[m] = SubSeq(x, 1, i)
      BY <2>2, <2>3, <3>2, <3>5
    <3> QED
      BY <2>1, <3>6 DEF m
  <2>5. CASE x[i] = "s"
    <3>1. w = <<"hi", "lo">>
      BY <2>5 DEF Units, w
    <3>2. /\ m = l + 2 /\ l + 1 \in 1 .. Len(u) /\ l + 2 \in 1 .. Len(u)
          /\ u[l + 1] = "hi" /\ u[l + 2] = "lo"
      <4>1. Len(w) = 2 /\ 1 \in 1 .. Len(w) /\ 2 \in 1 .. Len(w) /\ w[1] = "hi" /\ w[2] = "lo"
        BY <3>1
      <4> QED
        BY <1>2, <2>a, <2>1, <4>1
    <3>3. l + 1 - 1 = l /\ l + 2 - 1 = l + 1 /\ l + 1 + 1 = l + 2 /\ l + 1 < Len(u) /\ l + 2 > 1
      BY <1>2, <2>1, <3>2
    <3>4. CharAt(u, l + 1) = <<"s">>
      BY <3>2, <3>3 DEF CharAt
    <3>5. CharAt(u, l + 2) = <<>>
      BY <3>2, <3>3 DEF CharAt
    <3>6. c[l + 1] = c[l] \o <<"s">> /\ c[l + 2] = c[l + 1] \o <<>>
      <4>1. c[l + 1] = c[l] \o CharAt(u, l + 1)
        BY <1>5, <2>1, <3>2
      <4>2. l + 1 \in Nat /\ l + 2 = l + 1 + 1
        BY <2>1
      <4>3. c[l + 2] = c[l + 1] \o CharAt(u, l + 2)
        BY <1>5, <3>2, <4>2
      <4> QED
        BY <3>4, <3>5, <4>1, <4>3
    <3>7. SubSeq(x, 1, i) \in Seq(Chars)
      BY <1>0, <2>1
    <3>8. c[l + 1] = SubSeq(x, 1, i)
      BY <2>2, <2>3, <2>5, <3>6
    <3>9. c[m] = SubSeq(x, 1, i)
      BY <3>2, <3>6, <3>7, <3>8
    <3> QED
      BY <2>1, <3>9 DEF m
  <2> QED
    BY <2>4, <2>5
<1> HIDE DEF P
<1>10. n \in P
  <2> HIDE DEF n
  <2> QED
    BY <1>0, <1>8, <1>9, UpTo
<1>11. Decoded(u, z) = x
  <2>1. c[Len(u)] = SubSeq(x, 1, n)
    BY <1>0, <1>1, <1>10 DEF P
  <2>2. SubSeq(x, 1, n) = x
    BY <1>0
  <2> QED
    BY <1>3, <1>4, <2>1, <2>2
<1>12. u = <<>> => x = <<>>
  <2> SUFFICES ASSUME u = <<>>, x # <<>> PROVE FALSE
    OBVIOUS
  <2>1. n >= 1 /\ 1 \in 1 .. n
    BY <1>0
  <2> DEFINE l == Len(d[0])
             w == Units(x[1])
  <2>2. Len(w) = 1 \/ Len(w) = 2
    BY DEF Units
  <2>3. l \in Nat /\ 1 - 1 = 0 /\ Len(u) = 0
    BY <1>0, <1>6
  <2>5. Len(d[1]) = l + Len(w) /\ Len(d[1]) <= Len(u)
    BY <1>7, <2>1, <2>3
  <2> HIDE DEF l, w
  <2>6. \A p, q, r \in Nat : p = q + r /\ p <= 0 => r = 0
    OBVIOUS
  <2>7. Len(d[1]) \in Nat
    BY <1>0, <1>6, <2>1
  <2>8. Len(w) \in Nat
    BY <2>2
  <2>9. Len(d[1]) <= 0
    BY <2>3, <2>5
  <2>10. Len(d[1]) = l + Len(w)
    BY <2>5
  <2>11. l \in Nat
    BY <2>3
  <2>12. Len(w) = 0
    BY <2>6, <2>7, <2>8, <2>9, <2>10, <2>11
  <2> QED
    BY <2>2, <2>12
<1> QED
  <2>1. ~(s.udhi /\ s.units = <<>>)
    BY <1>12 DEF u
  <2>2. s.units = u /\ Decode(s) = Decoded(s.units, [i \in DOMAIN s.units |-> i])
    BY <2>1 DEF Decode, Decoded, u
  <2>3. z = [i \in DOMAIN s.units |-> i]
    BY <2>2 DEF z
  <2> QED
    BY <1>11, <2>2, <2>3

\* Where a message is cut into m pieces that fit a segment.
Cutting(at, t, m) ==
    /\ at \in [0 .. m -> 0 .. Len(t)] /\ at[0] = 0 /\ at[m] = Len(t)
    /\ \A k \in 1 .. m :
          /\ at[k - 1] <= at[k]
          /\ WideAt(Encoding(t), t, at[k]) <= WideAt(Encoding(t), t, at[k - 1]) + MultiMax

\* The character sets.
LEMMA EncodingTyped ==
    ASSUME NEW t \in Seq(Chars)
    PROVE  /\ Encoding(t) \in {"ascii", "ucs2"}
           /\ Encoding(t) = "ascii" => \A i \in 1 .. Len(t) : t[i] = "a"
           /\ TotalBytes(t) = WideAt(Encoding(t), t, Len(t))
<1>1. /\ Encoding(t) \in {"ascii", "ucs2"}
      /\ Encoding(t) = "ascii" => \A i \in 1 .. Len(t) : t[i] = "a"
  BY DEF Encoding
<1>2. TotalBytes(t) = WideSum(Encoding(t), t)
  BY DEF TotalBytes, WideSum
<1> QED
  BY <1>1, <1>2, Widths

\* A message that can be cut in m pieces has such places.
LEMMA CuttingOf ==
    ASSUME NEW t \in Seq(Chars), NEW m \in Nat \ {0}, Cuttable(t, m)
    PROVE  \E at : Cutting(at, t, m)
<1> DEFINE n == Len(t)
           enc == Encoding(t)
<1>0. n \in Nat /\ enc \in {"ascii", "ucs2"} /\ 0 \in 0 .. n /\ n \in 0 .. n
  BY EncodingTyped
<1>1. PICK e \in [1 .. m - 1 -> 0 .. Len(t)] :
         LET At(k) == IF k = 0 THEN 0 ELSE IF k = m THEN Len(t) ELSE e[k]
         IN  \A k \in 1 .. m :
                /\ At(k - 1) <= At(k)
                /\ Total(SubSeq(t, At(k - 1) + 1, At(k)), LAMBDA ch : Width(Encoding(t), ch)) <= MultiMax
  BY DEF Cuttable
<1> DEFINE at == [k \in 0 .. m |-> IF k = 0 THEN 0 ELSE IF k = m THEN Len(t) ELSE e[k]]
<1>2. ASSUME NEW k \in 1 .. m
      PROVE  /\ at[k - 1] <= at[k]
             /\ WideSum(enc, SubSeq(t, at[k - 1] + 1, at[k])) <= MultiMax
  <2>1. k \in 0 .. m /\ k - 1 \in 0 .. m
    OBVIOUS
  <2> QED
    BY <1>1, <2>1 DEF WideSum
<1>3. at \in [0 .. m -> 0 .. n]
  <2> SUFFICES ASSUME NEW k \in 0 .. m
               PROVE  (IF k = 0 THEN 0 ELSE IF k = m THEN Len(t) ELSE e[k]) \in 0 .. n
    OBVIOUS
  <2>1. k # 0 /\ k # m => k \in 1 .. m - 1
    OBVIOUS
  <2> QED
    BY <1>0, <2>1
<1>4. at[0] = 0 /\ at[m] = n
  <2>1. 0 \in 0 .. m /\ m \in 0 .. m /\ m # 0
    OBVIOUS
  <2> QED
    BY <2>1
<1> HIDE DEF at, enc
<1>5. ASSUME NEW k \in 1 .. m PROVE WideAt(enc, t, at[k]) <= WideAt(enc, t, at[k - 1]) + MultiMax
  <2>1. at[k - 1] \in 0 .. n /\ at[k] \in at[k - 1] .. n /\ at[k] \in 0 .. n
    <3>1. k \in 0 .. m /\ k - 1 \in 0 .. m
      OBVIOUS
    <3>2. at[k - 1] \in 0 .. n /\ at[k] \in 0 .. n
      BY <1>3, <3>1
    <3> QED
      BY <1>0, <1>2, <3>2
  <2>2. WideSum(enc, SubSeq(t, at[k - 1] + 1, at[k])) = WideAt(enc, t, at[k]) - WideAt(enc, t, at[k - 1])
    BY <1>0, <2>1, Widths
  <2>3. WideAt(enc, t, at[k]) \in Nat /\ WideAt(enc, t, at[k - 1]) \in Nat
    BY <1>0, <2>1, Widths
  <2> QED
    BY <1>2, <2>2, <2>3, PlanAssumption
<1> QED
  BY <1>2, <1>3, <1>4, <1>5 DEF Cutting, enc

\* Opening a segment only when the character does not fit, the loop that counts
\* is never behind any cutting: when it has passed i characters, of which the
\* cutting holds all in its first k pieces, it is in its k-th segment at most,
\* and if it is in that one, it has put no more into it.
LEMMA GreedyStaysAhead ==
    ASSUME NEW t \in Seq(Chars), Encoding(t) = "ucs2", NEW m \in Nat \ {0}, NEW at, Cutting(at, t, m)
    PROVE  CountLoop(t) <= m
<1> DEFINE n == Len(t)
           W(i) == WideAt("ucs2", t, i)
<1>1. PICK c \in [0 .. Len(t) -> CountState] :
         /\ c[0] = [count |-> 1, filled |-> 0] /\ CountEnd(t) = c[Len(t)]
         /\ \A i \in 1 .. Len(t) : c[i] = CountStep(c[i - 1], t[i])
  BY CountingLoop
<1>2. /\ W(0) = 0 /\ \A i \in 0 .. n : W(i) \in Nat
      /\ \A i \in 1 .. n : W(i) = W(i - 1) + Width("ucs2", t[i])
      /\ \A a \in 0 .. n : \A b \in a .. n : W(a) <= W(b)
  BY Widths
<1>3. /\ n \in Nat /\ 0 \in 0 .. n /\ n \in 0 .. n /\ MultiMax \in Nat
      /\ \A i \in 1 .. n : i \in 0 .. n /\ i - 1 \in 0 .. n /\ i \in Nat /\ i > i - 1
  BY PlanAssumption
<1>4. /\ at \in [0 .. m -> 0 .. n] /\ at[0] = 0 /\ at[m] = n
      /\ \A k \in 1 .. m : at[k - 1] <= at[k] /\ W(at[k]) <= W(at[k - 1]) + MultiMax
  BY DEF Cutting
<1>5. \A i \in 0 .. n : c[i].count \in Nat /\ c[i].filled \in Nat
  BY <1>1 DEF CountState
<1>6. \A k \in 1 .. m : k \in Nat /\ k - 1 \in 0 .. m /\ k \in 0 .. m /\ at[k] \in 0 .. n /\ at[k - 1] \in 0 .. n
  BY <1>4
<1> DEFINE Ahead(i, k) ==
              at[k] >= i => /\ c[i].count <= k
                            /\ c[i].count = k => at[k - 1] <= i /\ c[i].filled + W(at[k - 1]) <= W(i)
           P == {i \in 0 .. n : c[i].count >= 1 /\ \A k \in 1 .. m : Ahead(i, k)}
<1> HIDE DEF n, W
<1>7. 0 \in P
  <2>1. c[0].count = 1 /\ c[0].filled = 0
    BY <1>1
  <2>2. ASSUME NEW k \in 1 .. m PROVE Ahead(0, k)
    <3>1. 1 <= k
      OBVIOUS
    <3>2. k = 1 => k - 1 = 0
      OBVIOUS
    <3>3. k = 1 => at[k - 1] = 0 /\ W(at[k - 1]) = 0
      BY <1>2, <1>4, <3>2
    <3> QED
      BY <1>2, <2>1, <3>1, <3>3
  <2> QED
    BY <1>3, <2>1, <2>2
<1>8. ASSUME NEW i \in 1 .. n, i - 1 \in P PROVE i \in P
  <2> DEFINE o == c[i - 1]
             w == Width("ucs2", t[i])
  <2>1. /\ o.count \in Nat /\ o.filled \in Nat /\ o.count >= 1 /\ i \in 0 .. n /\ i - 1 \in 0 .. n
        /\ W(i) = W(i - 1) + w /\ W(i - 1) \in Nat /\ W(i) \in Nat /\ W(i - 1) <= W(i)
    <3>1. i \in (i - 1) .. n
      BY <1>3
    <3> QED
      BY <1>2, <1>3, <1>5, <1>8, <3>1
  <2>2. w \in Nat
    <3>1. t[i] \in Chars
      BY DEF n
    <3> QED
      BY <3>1 DEF Chars, Width, Units
  <2>3. c[i] = IF StartsSegment(o.filled, w) THEN [count |-> o.count + 1, filled |-> w]
               ELSE [o EXCEPT !.filled = @ + w]
    BY <1>1 DEF CountStep, n
  <2>4. \A k \in 1 .. m : Ahead(i - 1, k)
    BY <1>8
  <2>5. c[i].count >= 1
    <3>1. c[i - 1] \in CountState
      BY <1>1, <2>1 DEF n
    <3> QED
      BY <2>1, <2>3, <3>1 DEF CountState
  <2> HIDE DEF P
  <2>6. ASSUME NEW k \in 1 .. m, at[k] >= i
        PROVE  c[i].count <= k /\ (c[i].count = k => at[k - 1] <= i /\ c[i].filled + W(at[k - 1]) <= W(i))
    <3>1. /\ o.count <= k
          /\ o.count = k => at[k - 1] <= i - 1 /\ o.filled + W(at[k - 1]) <= W(i - 1)
      <4>1. at[k] >= i - 1
        BY <1>3, <1>6, <2>6
      <4>2. Ahead(i - 1, k)
        BY <2>4
      <4> HIDE DEF o
      <4> QED
        BY <4>1, <4>2 DEF o
    <3>2. /\ at[k] \in 0 .. n /\ at[k - 1] \in 0 .. n /\ W(at[k]) \in Nat /\ W(at[k - 1]) \in Nat
          /\ W(at[k]) <= W(at[k - 1]) + MultiMax
      BY <1>2, <1>4, <1>6
    <3>3. W(i) <= W(at[k])
      <4>1. at[k] \in i .. n
        BY <2>6, <1>6
      <4> QED
        BY <1>2, <2>1, <4>1
    <3>4. CASE ~StartsSegment(o.filled, w)
      <4>1. c[i].count = o.count /\ c[i].filled = o.filled + w
        <5>1. c[i - 1] \in CountState
          BY <1>1, <2>1 DEF n
        <5> QED
          BY <2>3, <3>4, <5>1 DEF CountState
      <4> HIDE DEF o, w
      <4>2. c[i].count = k => at[k - 1] <= i
        <5>1. at[k - 1] \in Int /\ i \in Int
          BY <3>2
        <5> QED
          BY <3>1, <4>1, <5>1
      <4>3. c[i].count = k => c[i].filled + W(at[k - 1]) <= W(i)
        BY <2>1, <2>2, <3>1, <3>2, <4>1
      <4> QED
        BY <3>1, <4>1, <4>2, <4>3
    <3>5. CASE StartsSegment(o.filled, w)
      <4>1. c[i].count = o.count + 1 /\ c[i].filled = w /\ o.filled + w > MultiMax
        BY <2>3, <3>5 DEF StartsSegment
      <4> HIDE DEF o, w
      \* The piece that holds the character would be too wide.
      <4>2. ~(o.count = k)
        <5> SUFFICES ASSUME o.count = k PROVE FALSE
          OBVIOUS
        <5>1. o.filled + W(at[k - 1]) <= W(i - 1)
          BY <3>1
        <5>2. o.filled + w + W(at[k - 1]) <= W(i)
          BY <2>1, <2>2, <3>2, <5>1
        <5>3. o.filled + w + W(at[k - 1]) <= W(at[k - 1]) + MultiMax
          BY <2>1, <2>2, <3>2, <3>3, <5>2, <1>3
        <5> QED
          BY <2>1, <2>2, <3>2, <4>1, <5>3, <1>3
      <4>3. c[i].count <= k
        BY <2>1, <3>1, <4>1, <4>2, <1>6
      <4>4. ASSUME c[i].count = k PROVE at[k - 1] <= i /\ c[i].filled + W(at[k - 1]) <= W(i)
        <5>1. o.count = k - 1 /\ k - 1 \in 1 .. m
          BY <2>1, <4>1, <4>4
        <5>2. at[k - 1] <= i - 1
          <6> SUFFICES ASSUME at[k - 1] >= i PROVE FALSE
            BY <1>3, <3>2
          <6> DEFINE j == k - 1
          <6>1. j \in 1 .. m /\ o.count = j /\ at[j] >= i
            BY <5>1
          <6> HIDE DEF j
          <6>2. at[j] >= i - 1
            BY <1>3, <1>6, <6>1
          <6>3. Ahead(i - 1, j)
            BY <2>4, <6>1
          <6>4. o.filled + W(at[j - 1]) <= W(i - 1)
            BY <6>1, <6>2, <6>3 DEF o
          <6>5. /\ at[j] \in 0 .. n /\ at[j - 1] \in 0 .. n /\ W(at[j]) \in Nat /\ W(at[j - 1]) \in Nat
                /\ W(at[j]) <= W(at[j - 1]) + MultiMax
            BY <1>2, <1>4, <1>6, <6>1
          <6>6. W(i) <= W(at[j])
            <7>1. at[j] \in i .. n
              BY <6>1, <6>5, <1>3
            <7> QED
              BY <1>2, <2>1, <7>1
          <6>7. o.filled + w + W(at[j - 1]) <= W(i)
            BY <2>1, <2>2, <6>4, <6>5
          <6>8. o.filled + w + W(at[j - 1]) <= W(at[j - 1]) + MultiMax
            BY <2>1, <2>2, <6>5, <6>6, <6>7, <1>3
          <6> QED
            BY <2>1, <2>2, <4>1, <6>5, <6>8, <1>3
        <5>3. W(at[k - 1]) <= W(i - 1)
          <6>1. i - 1 \in at[k - 1] .. n
            BY <2>1, <3>2, <5>2
          <6> QED
            BY <1>2, <3>2, <6>1
        <5>4. at[k - 1] \in Int /\ i \in Int
          BY <3>2
        <5>5. at[k - 1] <= i
          BY <5>2, <5>4
        <5>6. c[i].filled + W(at[k - 1]) <= W(i)
          BY <2>1, <2>2, <3>2, <4>1, <5>3
        <5> QED
          BY <5>5, <5>6
      <4> QED
        BY <4>3, <4>4
    <3> QED
      BY <3>4, <3>5
  <2>7. \A k \in 1 .. m : Ahead(i, k)
    BY <2>6
  <2> QED
    BY <2>1, <2>5, <2>7 DEF P
<1> HIDE DEF P
<1>9. n \in P
  BY <1>3, <1>7, <1>8, UpTo
<1>10. c[n].count <= m
  <2>1. m \in 1 .. m /\ at[m] >= n
    BY <1>3, <1>4
  <2>2. Ahead(n, m)
    BY <1>9, <2>1 DEF P
  <2> QED
    BY <2>1, <2>2
<1>11. CountLoop(t) = CountEnd(t).count
  BY DEF CountLoop, CountEnd
<1> QED
  BY <1>1, <1>10, <1>11 DEF n

\* The loop that counts the segments and the loop that cuts them agree.
LEMMA LoopsAgree ==
    ASSUME NEW t \in Seq(Chars)
    PROVE  CountLoop(t) = Len(CutEnd(t).ranges) + 1
<1> DEFINE n == Len(t)
<1>1. PICK c \in [0 .. Len(t) -> CountState] :
         /\ c[0] = [count |-> 1, filled |-> 0] /\ CountEnd(t) = c[Len(t)]
         /\ \A i \in 1 .. Len(t) : c[i] = CountStep(c[i - 1], t[i])
  BY CountingLoop
<1>2. PICK d \in [0 .. Len(t) -> CutState] :
         /\ d[0] = CutStart /\ CutEnd(t) = d[Len(t)]
         /\ \A i \in 1 .. Len(t) : d[i] = CutStep(d[i - 1], t[i])
  BY CuttingLoop
<1>3. /\ n \in Nat /\ 0 \in 0 .. n /\ n \in 0 .. n
      /\ \A i \in 1 .. n : i \in 0 .. n /\ i - 1 \in 0 .. n /\ t[i] \in Chars
  OBVIOUS
<1> DEFINE P == {i \in 0 .. n : c[i].count = Len(d[i].ranges) + 1 /\ c[i].filled = d[i].filled}
<1>4. 0 \in P
  <2>1. c[0].count = 1 /\ c[0].filled = 0 /\ d[0].ranges = <<>> /\ d[0].filled = 0
    BY <1>1, <1>2 DEF CutStart
  <2>2. 0 \in 0 .. n /\ Len(<<>>) = 0
    BY <1>3
  <2> QED
    BY <2>1, <2>2
<1>5. ASSUME NEW i \in 1 .. n, i - 1 \in P PROVE i \in P
  <2> DEFINE o == c[i - 1]
             r == d[i - 1]
             w == Width("ucs2", t[i])
  <2>1. /\ i \in 0 .. n /\ o \in CountState /\ r \in CutState /\ w \in Nat /\ Utf8(t[i]) \in Nat
        /\ o.count = Len(r.ranges) + 1 /\ o.filled = r.filled
    <3>1. i \in 0 .. n /\ i - 1 \in 0 .. n /\ t[i] \in Chars
      BY <1>3
    <3>2. w \in Nat /\ Utf8(t[i]) \in Nat
      BY <3>1 DEF Chars, Width, Units, Utf8
    <3> QED
      BY <1>1, <1>2, <1>5, <3>1, <3>2
  <2>2. c[i] = CountStep(o, t[i]) /\ d[i] = CutStep(r, t[i])
    BY <1>1, <1>2
  <2> HIDE DEF o, r
  <2>3. r.ranges \in Seq(Nat \X Nat) /\ o.count \in Nat /\ o.filled \in Nat /\ r.start \in Nat /\ r.offset \in Nat
    BY <2>1 DEF CountState, CutState
  <2>4. CASE StartsSegment(o.filled, w)
    <3>1. c[i].count = o.count + 1 /\ c[i].filled = w
      BY <2>2, <2>4 DEF CountStep
    <3>2. d[i].ranges = Append(r.ranges, <<r.start, r.offset>>) /\ d[i].filled = w
      BY <2>1, <2>2, <2>4 DEF CutStep
    <3>3. Len(d[i].ranges) = Len(r.ranges) + 1 /\ Len(r.ranges) \in Nat
      BY <2>3, <3>2
    <3> QED
      BY <2>1, <3>1, <3>2, <3>3
  <2>5. CASE ~StartsSegment(o.filled, w)
    <3>1. c[i].count = o.count /\ c[i].filled = o.filled + w
      BY <2>1, <2>2, <2>5 DEF CountStep, CountState
    <3>2. d[i].ranges = r.ranges /\ d[i].filled = r.filled + w
      <4> HIDE DEF w
      <4>1. d[i] = [r EXCEPT !.filled = @ + w, !.offset = @ + Utf8(t[i])]
        BY <2>1, <2>2, <2>5 DEF CutStep, w
      <4> QED
        BY <2>1, <4>1 DEF CutState
    <3> QED
      BY <2>1, <3>1, <3>2
  <2> QED
    BY <2>4, <2>5
<1> HIDE DEF P, n
<1>6. n \in P
  BY <1>3, <1>4, <1>5, UpTo
<1>7. CountLoop(t) = CountEnd(t).count
  BY DEF CountLoop, CountEnd
<1> QED
  BY <1>1, <1>2, <1>6, <1>7 DEF P, n

\* How far the loop that cuts has come after i characters: the segments it has
\* closed and the one it is in.
CutSoFar(p, st, t, i) ==
    LET W(j) == WideAt("ucs2", t, j)
        L    == Len(st.ranges)
    IN  /\ p \in [0 .. L -> 0 .. i] /\ p[0] = 0 /\ (i > 0 => p[L] < i)
        /\ st.start = OffAt(t, p[L]) /\ st.offset = OffAt(t, i)
        /\ st.filled + W(p[L]) = W(i) /\ st.filled <= MultiMax
        /\ \A k \in 1 .. L : /\ st.ranges[k] = <<OffAt(t, p[k - 1]), OffAt(t, p[k])>>
                             /\ p[k - 1] < p[k] /\ W(p[k]) <= W(p[k - 1]) + MultiMax

\* One character further.
LEMMA CutFurther ==
    ASSUME NEW t \in Seq(Chars), NEW i \in 1 .. Len(t), NEW r \in CutState,
           NEW p, CutSoFar(p, r, t, i - 1)
    PROVE  \E q : CutSoFar(q, CutStep(r, t[i]), t, i)
<1> DEFINE n == Len(t)
           W(j) == WideAt("ucs2", t, j)
           O(j) == OffAt(t, j)
           L == Len(r.ranges)
           w == Width("ucs2", t[i])
           d == CutStep(r, t[i])
<1>1. /\ n \in Nat /\ i \in 0 .. n /\ i - 1 \in 0 .. n /\ i \in Nat /\ i - 1 \in Nat
      /\ L \in Nat /\ r.ranges \in Seq(Nat \X Nat) /\ r.filled \in Nat /\ r.start \in Nat /\ r.offset \in Nat
      /\ t[i] \in Chars /\ 0 \in 0 .. L /\ L \in 0 .. L
  BY DEF CutState
<1>2. w \in {2, 4} /\ Utf8(t[i]) \in Nat
  BY <1>1 DEF Chars, Width, Units, Utf8
<1>3. /\ W(i) = W(i - 1) + w /\ W(i) \in Nat /\ W(i - 1) \in Nat
      /\ O(i) = O(i - 1) + Utf8(t[i]) /\ O(i) \in Nat /\ O(i - 1) \in Nat
  BY <1>1, Widths, Offsets
<1>4. /\ p \in [0 .. L -> 0 .. i - 1] /\ p[0] = 0 /\ (i - 1 > 0 => p[L] < i - 1)
      /\ r.start = O(p[L]) /\ r.offset = O(i - 1)
      /\ r.filled + W(p[L]) = W(i - 1) /\ r.filled <= MultiMax
      /\ \A k \in 1 .. L : /\ r.ranges[k] = <<O(p[k - 1]), O(p[k])>>
                           /\ p[k - 1] < p[k] /\ W(p[k]) <= W(p[k - 1]) + MultiMax
  BY DEF CutSoFar
<1>5. p[L] \in 0 .. i - 1 /\ p[L] \in 0 .. n /\ W(p[L]) \in Nat
  <2>1. p[L] \in 0 .. i - 1
    BY <1>1, <1>4
  <2>2. p[L] \in 0 .. n
    BY <1>1, <2>1
  <2> QED
    BY <2>1, <2>2, Widths
<1>6. MultiMax \in Nat /\ MultiMax >= 4
  BY PlanAssumption
<1>7. CASE ~StartsSegment(r.filled, w)
  <2>1. d.ranges = r.ranges /\ d.filled = r.filled + w /\ d.start = r.start /\ d.offset = r.offset + Utf8(t[i])
    <3> HIDE DEF w
    <3>1. d = [r EXCEPT !.filled = @ + w, !.offset = @ + Utf8(t[i])]
      BY <1>7 DEF CutStep, w
    <3> QED
      BY <3>1 DEF CutState
  <2> HIDE DEF d, w, L, W, O
  <2>2. d.filled <= MultiMax
    BY <1>1, <1>2, <1>6, <1>7, <2>1 DEF StartsSegment
  <2>3. d.filled + W(p[L]) = W(i)
    BY <1>1, <1>2, <1>3, <1>4, <1>5, <2>1
  <2>4. p \in [0 .. L -> 0 .. i] /\ p[L] < i
    <3>1. \A j \in 0 .. L : p[j] \in 0 .. i
      <4>1. \A j \in 0 .. L : p[j] \in 0 .. i - 1
        BY <1>4
      <4>2. \A x \in 0 .. i - 1 : x \in 0 .. i
        BY <1>1
      <4> QED
        BY <4>1, <4>2
    <3> QED
      BY <1>1, <1>4, <1>5, <3>1
  <2>5. /\ p \in [0 .. L -> 0 .. i] /\ p[0] = 0 /\ (i > 0 => p[L] < i)
        /\ d.start = O(p[L]) /\ d.offset = O(i)
        /\ d.filled + W(p[L]) = W(i) /\ d.filled <= MultiMax
        /\ \A k \in 1 .. L : /\ d.ranges[k] = <<O(p[k - 1]), O(p[k])>>
                             /\ p[k - 1] < p[k] /\ W(p[k]) <= W(p[k - 1]) + MultiMax
    BY <1>3, <1>4, <2>1, <2>2, <2>3, <2>4
  <2>6. Len(d.ranges) = L
    BY <2>1 DEF L
  <2>7. CutSoFar(p, d, t, i)
    BY <2>5, <2>6 DEF CutSoFar, W, O
  <2> QED
    BY <2>7 DEF d
<1>8. CASE StartsSegment(r.filled, w)
  <2>1. /\ d.ranges = Append(r.ranges, <<r.start, r.offset>>) /\ d.start = r.offset
        /\ d.filled = w /\ d.offset = r.offset + Utf8(t[i])
    BY <1>8 DEF CutStep
  <2>2. r.filled # 0
    BY <1>8 DEF StartsSegment
  <2> HIDE DEF d, w, L, W, O
  <2>3. p[L] < i - 1
    <3>1. p[L] # i - 1
      BY <1>1, <1>3, <1>4, <2>2
    <3> QED
      BY <1>1, <1>5, <3>1
  <2>4. /\ Len(d.ranges) = L + 1 /\ d.ranges[L + 1] = <<r.start, r.offset>>
        /\ \A k \in 1 .. L : d.ranges[k] = r.ranges[k]
    BY <1>1, <2>1 DEF L
  <2> DEFINE q == [k \in 0 .. L + 1 |-> IF k = L + 1 THEN i - 1 ELSE p[k]]
  <2>5. /\ q[0] = 0 /\ q[L + 1] = i - 1 /\ q[L] = p[L]
        /\ \A k \in 0 .. L : q[k] = p[k]
    <3>1. \A k \in 0 .. L : k \in 0 .. L + 1 /\ k # L + 1
      BY <1>1
    <3>2. L + 1 \in 0 .. L + 1
      BY <1>1
    <3> QED
      BY <1>1, <1>4, <3>1, <3>2
  <2>6. q \in [0 .. L + 1 -> 0 .. i]
    <3> SUFFICES ASSUME NEW k \in 0 .. L + 1 PROVE (IF k = L + 1 THEN i - 1 ELSE p[k]) \in 0 .. i
      OBVIOUS
    <3>1. k # L + 1 => k \in 0 .. L
      BY <1>1
    <3>2. \A x \in 0 .. i - 1 : x \in 0 .. i
      BY <1>1
    <3>3. i - 1 \in 0 .. i
      BY <1>1
    <3> QED
      BY <1>4, <3>1, <3>2, <3>3
  <2> HIDE DEF q
  <2>7. ASSUME NEW k \in 1 .. L + 1
        PROVE  /\ d.ranges[k] = <<O(q[k - 1]), O(q[k])>>
               /\ q[k - 1] < q[k] /\ W(q[k]) <= W(q[k - 1]) + MultiMax
    <3>1. CASE k = L + 1
      <4>1. k - 1 = L /\ q[k - 1] = p[L] /\ q[k] = i - 1
        BY <1>1, <2>5, <3>1
      <4>2. W(i - 1) <= W(p[L]) + MultiMax
        BY <1>1, <1>3, <1>4, <1>5, <1>6
      <4> QED
        BY <1>4, <2>3, <2>4, <3>1, <4>1, <4>2
    <3>2. CASE k # L + 1
      <4>1. k \in 1 .. L /\ k \in 0 .. L /\ k - 1 \in 0 .. L
        BY <1>1, <3>2
      <4>2. q[k - 1] = p[k - 1] /\ q[k] = p[k] /\ d.ranges[k] = r.ranges[k]
        BY <2>4, <2>5, <4>1
      <4> QED
        BY <1>4, <4>1, <4>2
    <3> QED
      BY <3>1, <3>2
  <2>8. q[L + 1] < i /\ d.start = O(q[L + 1]) /\ d.offset = O(i)
    BY <1>1, <1>3, <1>4, <2>1, <2>5
  <2>9. d.filled + W(q[L + 1]) = W(i) /\ d.filled <= MultiMax
    BY <1>2, <1>3, <1>6, <2>1, <2>5
  <2>10. CutSoFar(q, d, t, i)
    BY <2>4, <2>5, <2>6, <2>7, <2>8, <2>9 DEF CutSoFar, W, O
  <2> QED
    BY <2>10 DEF d
<1> QED
  BY <1>7, <1>8

\* Ranges that cut a message between its characters, into pieces that fit.
Pieces(p, t, rs) ==
    LET W(j) == WideAt(Encoding(t), t, j)
        L    == Len(rs)
    IN  /\ L \in Nat \ {0} /\ p \in [0 .. L -> 0 .. Len(t)] /\ p[0] = 0 /\ p[L] = Len(t)
        /\ \A k \in 1 .. L : /\ rs[k][1] = OffAt(t, p[k - 1]) /\ rs[k][2] = OffAt(t, p[k])
                             /\ p[k - 1] <= p[k] /\ (L > 1 => p[k - 1] < p[k])
                             /\ W(p[k]) <= W(p[k - 1]) + (IF L > 1 THEN MultiMax ELSE SingleMax)

\* The ranges of the second loop.
LEMMA Ucs2Pieces ==
    ASSUME NEW t \in Seq(Chars), Encoding(t) = "ucs2", Len(t) > 0
    PROVE  /\ \E p : Pieces(p, t, Ucs2Ranges(t))
           /\ Len(Ucs2Ranges(t)) = CountLoop(t)
<1> DEFINE n == Len(t)
<1>1. PICK d \in [0 .. Len(t) -> CutState] :
         /\ d[0] = CutStart /\ CutEnd(t) = d[Len(t)]
         /\ \A i \in 1 .. Len(t) : d[i] = CutStep(d[i - 1], t[i])
  BY CuttingLoop
<1>2. n \in Nat /\ n > 0 /\ 0 \in 0 .. n /\ n \in 0 .. n /\ \A i \in 1 .. n : i \in 0 .. n /\ i - 1 \in 0 .. n
  OBVIOUS
<1> DEFINE P == {i \in 0 .. n : \E p : CutSoFar(p, d[i], t, i)}
<1>3. 0 \in P
  <2> DEFINE p == [k \in 0 .. 0 |-> 0]
             st == d[0]
  <2>1. st.ranges = <<>> /\ st.start = 0 /\ st.filled = 0 /\ st.offset = 0 /\ Len(st.ranges) = 0
    BY <1>1 DEF CutStart
  <2>2. OffAt(t, 0) = 0 /\ WideAt("ucs2", t, 0) = 0
    BY Offsets, Widths
  <2>3. p \in [0 .. 0 -> 0 .. 0] /\ p[0] = 0
    OBVIOUS
  <2>4. \A k \in 1 .. 0 : FALSE
    OBVIOUS
  <2>5. MultiMax \in Nat
    BY PlanAssumption
  <2> HIDE DEF p, st
  <2>6. CutSoFar(p, st, t, 0)
    BY <2>1, <2>2, <2>3, <2>4, <2>5 DEF CutSoFar
  <2> QED
    BY <1>2, <2>6 DEF st
<1>4. ASSUME NEW i \in 1 .. n, i - 1 \in P PROVE i \in P
  <2>1. PICK p : CutSoFar(p, d[i - 1], t, i - 1)
    BY <1>4
  <2>2. d[i - 1] \in CutState /\ d[i] = CutStep(d[i - 1], t[i]) /\ i \in 0 .. n
    BY <1>1, <1>2
  <2>3. \E q : CutSoFar(q, d[i], t, i)
    BY <2>1, <2>2, CutFurther
  <2> QED
    BY <2>2, <2>3
<1> HIDE DEF P
<1>5. n \in P
  <2> HIDE DEF n
  <2> QED
    BY <1>2, <1>3, <1>4, UpTo
<1> DEFINE st == d[n]
           L == Len(st.ranges)
           W(j) == WideAt("ucs2", t, j)
           O(j) == OffAt(t, j)
           rs == Ucs2Ranges(t)
<1>6. PICK p : CutSoFar(p, st, t, n)
  BY <1>5 DEF P
<1>7. /\ st.ranges \in Seq(Nat \X Nat) /\ st.filled \in Nat
      /\ rs = Append(st.ranges, <<st.start, Total(t, Utf8)>>)
  <2>1. st \in CutState /\ CutEnd(t) = st
    BY <1>1, <1>2
  <2>2. rs = Append(CutEnd(t).ranges, <<CutEnd(t).start, Total(t, Utf8)>>)
    BY DEF Ucs2Ranges, CutEnd, CutStart
  <2> QED
    BY <2>1, <2>2 DEF CutState
<1>8. /\ p \in [0 .. L -> 0 .. n] /\ p[0] = 0 /\ p[L] < n
      /\ st.start = O(p[L])
      /\ st.filled + W(p[L]) = W(n) /\ st.filled <= MultiMax
      /\ \A k \in 1 .. L : /\ st.ranges[k] = <<O(p[k - 1]), O(p[k])>>
                           /\ p[k - 1] < p[k] /\ W(p[k]) <= W(p[k - 1]) + MultiMax
  BY <1>2, <1>6 DEF CutSoFar
<1>9. Total(t, Utf8) = O(n)
  BY Offsets
<1> HIDE DEF st
<1>10. /\ L \in Nat /\ Len(rs) = L + 1 /\ rs[L + 1] = <<O(p[L]), O(n)>>
       /\ \A k \in 1 .. L : rs[k] = st.ranges[k]
  BY <1>7, <1>8, <1>9
<1>11. /\ W(p[L]) \in Nat /\ W(n) \in Nat /\ MultiMax \in Nat /\ SingleMax \in Nat /\ MultiMax <= SingleMax
       /\ p[L] \in 0 .. n
  <2>1. L \in 0 .. L
    BY <1>10
  <2>2. p[L] \in 0 .. n
    BY <1>8, <2>1
  <2>3. W(p[L]) \in Nat /\ W(n) \in Nat
    BY <1>2, <2>2, Widths
  <2> QED
    BY <2>2, <2>3, PlanAssumption DEF SingleMax
<1> DEFINE q == [k \in 0 .. L + 1 |-> IF k = L + 1 THEN n ELSE p[k]]
<1> HIDE DEF L, W, O, rs, n
<1>12. q[0] = 0 /\ q[L + 1] = n /\ \A k \in 0 .. L : q[k] = p[k]
  <2>1. \A k \in 0 .. L : k \in 0 .. L + 1 /\ k # L + 1
    BY <1>10
  <2>2. L + 1 \in 0 .. L + 1 /\ 0 \in 0 .. L
    BY <1>10
  <2> QED
    BY <1>8, <2>1, <2>2
<1>13. q \in [0 .. L + 1 -> 0 .. n]
  <2> SUFFICES ASSUME NEW k \in 0 .. L + 1 PROVE (IF k = L + 1 THEN n ELSE p[k]) \in 0 .. n
    OBVIOUS
  <2>1. k # L + 1 => k \in 0 .. L
    BY <1>10
  <2> QED
    BY <1>2, <1>8, <2>1
<1> HIDE DEF q
<1>14. ASSUME NEW k \in 1 .. L + 1
       PROVE  /\ rs[k] = <<O(q[k - 1]), O(q[k])>>
              /\ q[k - 1] < q[k] /\ W(q[k]) <= W(q[k - 1]) + MultiMax
              /\ W(q[k]) <= W(q[k - 1]) + SingleMax
  <2>1. CASE k = L + 1
    <3>1. k - 1 = L /\ L \in 0 .. L
      BY <1>10, <2>1
    <3>2. q[k - 1] = p[L] /\ q[k] = n
      BY <1>12, <2>1, <3>1
    <3>3. W(n) <= W(p[L]) + MultiMax /\ W(n) <= W(p[L]) + SingleMax
      BY <1>7, <1>8, <1>11
    <3> QED
      BY <1>8, <1>10, <2>1, <3>2, <3>3
  <2>2. CASE k # L + 1
    <3>1. k \in 1 .. L /\ k \in 0 .. L /\ k - 1 \in 0 .. L
      BY <1>10, <2>2
    <3>2. q[k - 1] = p[k - 1] /\ q[k] = p[k] /\ rs[k] = st.ranges[k]
      BY <1>10, <1>12, <3>1
    <3>3. p[k - 1] < p[k] /\ W(p[k]) <= W(p[k - 1]) + MultiMax
      BY <1>8, <3>1
    <3>4. W(p[k]) \in Nat /\ W(p[k - 1]) \in Nat
      <4>1. p[k] \in 0 .. n /\ p[k - 1] \in 0 .. n
        BY <1>8, <3>1
      <4> QED
        BY <4>1, Widths DEF W, n
    <3>5. W(p[k]) <= W(p[k - 1]) + SingleMax
      BY <1>11, <3>3, <3>4
    <3> QED
      BY <1>8, <3>1, <3>2, <3>3, <3>5
  <2> QED
    BY <2>1, <2>2
<1>15. \A k \in 1 .. L + 1 : q[k - 1] \in 0 .. n /\ q[k] \in 0 .. n
  <2>1. \A k \in 1 .. L + 1 : k \in 0 .. L + 1 /\ k - 1 \in 0 .. L + 1
    BY <1>10
  <2> QED
    BY <1>13, <2>1
<1>16. \A k \in 1 .. L + 1 : q[k - 1] <= q[k] /\ rs[k][1] = O(q[k - 1]) /\ rs[k][2] = O(q[k])
  BY <1>14, <1>15
<1>17. Pieces(q, t, rs)
  BY <1>10, <1>12, <1>13, <1>14, <1>16 DEF Pieces, W, O, n
<1>18. Len(rs) = CountLoop(t)
  BY <1>1, <1>10, LoopsAgree DEF L, st, n
<1> QED
  BY <1>17, <1>18 DEF rs

\* What the quotient rounded up is.
LEMMA DivCeilIs ==
    ASSUME NEW n \in Nat \ {0}, NEW d \in Nat \ {0}
    PROVE  /\ DivCeil(n, d) \in Nat \ {0}
           /\ (DivCeil(n, d) - 1) * d < n /\ n <= DivCeil(n, d) * d
           /\ \A m \in Nat : n <= m * d => DivCeil(n, d) <= m
<1> DEFINE x == n + d - 1
           q == x \div d
<1>1. x \in Nat /\ d \in Nat /\ d > 0 /\ x >= d
  OBVIOUS
<1>2. q \in Nat /\ d * q <= x /\ x < d * q + d
  BY <1>1
<1>3. DivCeil(n, d) = q
  BY DEF DivCeil
<1> HIDE DEF q
<1>4. (q - 1) * d = d * q - d /\ q * d = d * q
  BY <1>2
<1>5. q # 0
  <2> SUFFICES ASSUME q = 0 PROVE FALSE
    OBVIOUS
  <2>1. d * q = 0
    OBVIOUS
  <2> QED
    BY <1>1, <1>2, <2>1
<1>6. d * q \in Nat
  BY <1>2
<1>7. (q - 1) * d < n /\ n <= q * d
  BY <1>2, <1>4, <1>6
<1>8. ASSUME NEW m \in Nat, n <= m * d PROVE q <= m
  <2> SUFFICES ASSUME m <= q - 1 PROVE FALSE
    BY <1>2
  <2>1. m * d <= (q - 1) * d
    <3>1. q - 1 - m \in Nat
      BY <1>2
    <3>2. (q - 1 - m) * d \in Nat
      BY <3>1
    <3>3. (q - 1) * d = m * d + (q - 1 - m) * d
      BY <1>2
    <3>4. m * d \in Nat
      OBVIOUS
    <3> QED
      BY <3>2, <3>3, <3>4
  <2>2. m * d \in Nat /\ (q - 1) * d \in Int
    BY <1>2
  <2> QED
    BY <1>7, <1>8, <2>1, <2>2
<1> QED
  BY <1>2, <1>3, <1>5, <1>7, <1>8

\* In ASCII a character is a byte, in the text and in the segment.
LEMMA AsciiOffsets ==
    ASSUME NEW t \in Seq(Chars), Encoding(t) = "ascii"
    PROVE  \A i \in 0 .. Len(t) : WideAt("ascii", t, i) = i /\ OffAt(t, i) = i
<1> DEFINE n == Len(t)
           P == {i \in 0 .. n : WideAt("ascii", t, i) = i /\ OffAt(t, i) = i}
<1>1. n \in Nat /\ 0 \in 0 .. n /\ \A i \in 1 .. n : t[i] = "a"
  BY EncodingTyped
<1>2. 0 \in P
  BY <1>1, Widths, Offsets
<1>3. ASSUME NEW i \in 1 .. n, i - 1 \in P PROVE i \in P
  <2>1. i \in 0 .. n /\ i - 1 + 1 = i
    BY <1>1
  <2>2. Width("ascii", t[i]) = 1 /\ Utf8(t[i]) = 1
    BY <1>1 DEF Width, Utf8
  <2>3. WideAt("ascii", t, i) = WideAt("ascii", t, i - 1) + 1 /\ OffAt(t, i) = OffAt(t, i - 1) + 1
    BY <2>2, Widths, Offsets
  <2> QED
    BY <1>3, <2>1, <2>3
<1> HIDE DEF P, n
<1>4. \A i \in 0 .. n : i \in P
  BY <1>1, <1>2, <1>3, UpTo
<1> QED
  BY <1>4 DEF P, n

\* chunks(MULTIPART_MAX_BYTES).
LEMMA AsciiPieces ==
    ASSUME NEW t \in Seq(Chars), Encoding(t) = "ascii", Len(t) > 0
    PROVE  /\ \E p : Pieces(p, t, AsciiRanges(t))
           /\ Len(AsciiRanges(t)) = DivCeil(Len(t), MultiMax)
<1> DEFINE n == Len(t)
           L == DivCeil(n, MultiMax)
           rs == AsciiRanges(t)
           Until(k) == IF k * MultiMax < n THEN k * MultiMax ELSE n
           q == [k \in 0 .. L |-> Until(k)]
<1>1. n \in Nat \ {0} /\ MultiMax \in Nat \ {0} /\ SingleMax \in Nat /\ MultiMax <= SingleMax
  BY PlanAssumption DEF SingleMax
<1>2. L \in Nat \ {0} /\ (L - 1) * MultiMax < n /\ n <= L * MultiMax
  BY <1>1, DivCeilIs
<1> HIDE DEF L, n
<1>3. rs = [k \in 1 .. L |-> <<(k - 1) * MultiMax, Until(k)>>]
  BY DEF AsciiRanges, L, n
<1> HIDE DEF rs
<1>4. Len(rs) = L
  BY <1>2, <1>3
<1>5. \A k \in 0 .. L : k * MultiMax \in Nat /\ Until(k) \in 0 .. n
  <2> SUFFICES ASSUME NEW k \in 0 .. L PROVE k * MultiMax \in Nat /\ Until(k) \in 0 .. n
    OBVIOUS
  <2>1. k * MultiMax \in Nat
    BY <1>1, <1>2
  <2> QED
    BY <1>1, <2>1
<1>6. q \in [0 .. L -> 0 .. n] /\ q[0] = 0 /\ q[L] = n
  <2>1. 0 * MultiMax = 0 /\ 0 \in 0 .. L /\ L \in 0 .. L /\ 0 < n
    BY <1>1, <1>2
  <2>2. Until(0) = 0
    BY <2>1
  <2>3. L * MultiMax \in Nat
    BY <1>5, <2>1
  <2>4. Until(L) = n
    BY <1>1, <1>2, <2>3
  <2> QED
    BY <1>5, <2>1, <2>2, <2>4
<1>7. ASSUME NEW k \in 1 .. L
      PROVE  /\ q[k - 1] = (k - 1) * MultiMax /\ q[k] = Until(k) /\ q[k - 1] \in 0 .. n /\ q[k] \in 0 .. n
             /\ q[k - 1] < q[k] /\ q[k] <= q[k - 1] + MultiMax
  <2>1. k - 1 \in 0 .. L /\ k \in 0 .. L
    BY <1>2
  <2>2. k * MultiMax = (k - 1) * MultiMax + MultiMax /\ k * MultiMax \in Nat /\ (k - 1) * MultiMax \in Nat
    BY <1>1, <1>5, <2>1
  <2>3. (k - 1) * MultiMax < n
    <3>1. (L - 1) * MultiMax = (k - 1) * MultiMax + (L - k) * MultiMax
      BY <1>1, <1>2
    <3>2. (L - k) * MultiMax \in Nat /\ (L - 1) * MultiMax \in Nat
      <4>1. L - k \in Nat /\ L - 1 \in Nat
        BY <1>2
      <4> QED
        BY <1>1, <4>1
    <3> QED
      BY <1>1, <1>2, <2>2, <3>1, <3>2
  <2>4. Until(k - 1) = (k - 1) * MultiMax
    BY <2>3
  <2>5. Until(k) \in 0 .. n /\ Until(k - 1) \in 0 .. n
    BY <1>5, <2>1
  <2>6. q[k - 1] = Until(k - 1) /\ q[k] = Until(k)
    BY <2>1
  <2>7. (k - 1) * MultiMax < Until(k) /\ Until(k) <= (k - 1) * MultiMax + MultiMax
    BY <1>1, <2>2, <2>3
  <2> QED
    BY <2>4, <2>5, <2>6, <2>7
<1> HIDE DEF q
<1>8. ASSUME NEW k \in 1 .. L
      PROVE  /\ rs[k][1] = OffAt(t, q[k - 1]) /\ rs[k][2] = OffAt(t, q[k])
             /\ q[k - 1] <= q[k] /\ q[k - 1] < q[k]
             /\ WideAt("ascii", t, q[k]) <= WideAt("ascii", t, q[k - 1]) + MultiMax
             /\ WideAt("ascii", t, q[k]) <= WideAt("ascii", t, q[k - 1]) + SingleMax
  <2>1. rs[k] = <<q[k - 1], q[k]>>
    BY <1>3, <1>7
  <2>2. /\ OffAt(t, q[k - 1]) = q[k - 1] /\ OffAt(t, q[k]) = q[k]
        /\ WideAt("ascii", t, q[k - 1]) = q[k - 1] /\ WideAt("ascii", t, q[k]) = q[k]
    BY <1>7, AsciiOffsets DEF n
  <2>3. q[k - 1] <= q[k] /\ q[k - 1] < q[k] /\ q[k] <= q[k - 1] + MultiMax /\ q[k] <= q[k - 1] + SingleMax
    BY <1>1, <1>7
  <2> QED
    BY <2>1, <2>2, <2>3
<1>9. Pieces(q, t, rs)
  BY <1>2, <1>4, <1>6, <1>8 DEF Pieces, n
<1> QED
  BY <1>4, <1>9 DEF rs, L, n

\* The plan of every message cuts it between its characters, into as many
\* segments as were counted.
LEMMA RangesArePieces ==
    ASSUME NEW t \in Seq(Chars)
    PROVE  /\ \E p : Pieces(p, t, Ranges(t))
           /\ Len(Ranges(t)) = SegmentCount(t)
<1> DEFINE n == Len(t)
<1>1. /\ n \in Nat /\ Encoding(t) \in {"ascii", "ucs2"} /\ TotalBytes(t) = WideAt(Encoding(t), t, n)
      /\ TotalBytes(t) \in Nat /\ SingleMax \in Nat
  <2>1. n \in 0 .. n
    OBVIOUS
  <2> QED
    BY <2>1, EncodingTyped, Widths, PlanAssumption DEF SingleMax
<1>2. CASE TotalBytes(t) <= SingleMax
  <2> DEFINE p == [k \in 0 .. 1 |-> IF k = 0 THEN 0 ELSE n]
             rs == <<<<0, Total(t, Utf8)>>>>
  <2>1. Ranges(t) = rs /\ SegmentCount(t) = 1 /\ Len(rs) = 1
    BY <1>2 DEF Ranges, SegmentCount
  <2>2. p \in [0 .. 1 -> 0 .. n] /\ p[0] = 0 /\ p[1] = n
    BY <1>1
  <2>3. OffAt(t, 0) = 0 /\ OffAt(t, n) = Total(t, Utf8) /\ WideAt(Encoding(t), t, 0) = 0
    BY <1>1, Offsets, Widths
  <2>4. \A k \in 1 .. 1 : k = 1 /\ k - 1 = 0
    OBVIOUS
  <2>5. rs[1][1] = 0 /\ rs[1][2] = Total(t, Utf8)
    OBVIOUS
  <2>6. WideAt(Encoding(t), t, n) <= 0 + SingleMax
    BY <1>1, <1>2
  <2> HIDE DEF p, rs
  <2>7. ASSUME NEW k \in 1 .. 1
        PROVE  /\ rs[k][1] = OffAt(t, p[k - 1]) /\ rs[k][2] = OffAt(t, p[k])
               /\ p[k - 1] <= p[k]
               /\ WideAt(Encoding(t), t, p[k]) <= WideAt(Encoding(t), t, p[k - 1]) + SingleMax
    BY <1>1, <2>2, <2>3, <2>4, <2>5, <2>6
  <2>8. Pieces(p, t, rs)
    BY <2>1, <2>2, <2>7 DEF Pieces
  <2> QED
    BY <2>1, <2>8
<1>3. CASE ~(TotalBytes(t) <= SingleMax)
  <2>1. n > 0
    <3> SUFFICES ASSUME n = 0 PROVE FALSE
      BY <1>1
    <3>1. WideAt(Encoding(t), t, 0) = 0
      BY <1>1, Widths
    <3> QED
      BY <1>1, <1>3, <3>1
  <2>2. CASE Encoding(t) = "ascii"
    <3>1. TotalBytes(t) = n
      <4>1. n \in 0 .. n
        BY <1>1
      <4> QED
        BY <1>1, <2>2, <4>1, AsciiOffsets
    <3>2. Ranges(t) = AsciiRanges(t) /\ SegmentCount(t) = DivCeil(n, MultiMax)
      BY <1>3, <2>2, <3>1 DEF Ranges, SegmentCount
    <3> QED
      BY <2>1, <2>2, <3>2, AsciiPieces
  <2>3. CASE Encoding(t) = "ucs2"
    <3>1. Ranges(t) = Ucs2Ranges(t) /\ SegmentCount(t) = CountLoop(t)
      BY <1>3, <2>3 DEF Ranges, SegmentCount
    <3> QED
      BY <2>1, <2>3, <3>1, Ucs2Pieces
  <2> QED
    BY <1>1, <2>2, <2>3
<1> QED
  BY <1>2, <1>3

\* Of k pieces that fit, none reaches further than k segments.
LEMMA AsciiFewest ==
    ASSUME NEW t \in Seq(Chars), Encoding(t) = "ascii", Len(t) > 0,
           NEW m \in Nat \ {0}, NEW at, Cutting(at, t, m)
    PROVE  DivCeil(Len(t), MultiMax) <= m
<1> DEFINE n == Len(t)
<1>1. n \in Nat \ {0} /\ MultiMax \in Nat \ {0}
  BY PlanAssumption
<1>2. /\ at \in [0 .. m -> 0 .. n] /\ at[0] = 0 /\ at[m] = n
      /\ \A k \in 1 .. m : WideAt("ascii", t, at[k]) <= WideAt("ascii", t, at[k - 1]) + MultiMax
  BY DEF Cutting
<1>3. \A k \in 0 .. m : at[k] \in Nat /\ WideAt("ascii", t, at[k]) = at[k]
  <2>1. \A k \in 0 .. m : at[k] \in 0 .. n
    BY <1>2
  <2> QED
    BY <2>1, AsciiOffsets
<1> HIDE DEF n
<1> DEFINE P == {k \in 0 .. m : at[k] <= k * MultiMax}
<1>4. 0 \in P
  BY <1>1, <1>2
<1>5. ASSUME NEW k \in 1 .. m, k - 1 \in P PROVE k \in P
  <2>1. k \in 0 .. m /\ k - 1 \in 0 .. m
    OBVIOUS
  <2>2. at[k] <= at[k - 1] + MultiMax /\ at[k] \in Nat /\ at[k - 1] \in Nat
    BY <1>2, <1>3, <2>1
  <2>3. at[k - 1] <= (k - 1) * MultiMax
    BY <1>5
  <2>4. k * MultiMax = (k - 1) * MultiMax + MultiMax /\ (k - 1) * MultiMax \in Int
    BY <1>1
  <2>5. at[k] <= k * MultiMax
    BY <1>1, <2>2, <2>3, <2>4
  <2> QED
    BY <2>1, <2>5
<1> HIDE DEF P
<1>6. m \in 0 .. m
  OBVIOUS
<1>7. m \in P
  BY <1>4, <1>5, <1>6, UpTo
<1>8. n <= m * MultiMax
  BY <1>2, <1>7 DEF P
<1> QED
  BY <1>1, <1>8, DivCeilIs DEF n

\* No way of cutting a message that needs several segments takes fewer than
\* were counted.
LEMMA NoFewer ==
    ASSUME NEW t \in Seq(Chars), TotalBytes(t) > SingleMax, NEW m \in Nat \ {0}, Cuttable(t, m)
    PROVE  SegmentCount(t) <= m
<1>1. PICK at : Cutting(at, t, m)
  BY CuttingOf
<1>2. TotalBytes(t) \in Nat /\ SingleMax \in Nat /\ Len(t) \in 0 .. Len(t) /\ Len(t) \in Nat
  <2>1. Len(t) \in 0 .. Len(t) /\ Len(t) \in Nat
    OBVIOUS
  <2> QED
    BY <2>1, EncodingTyped, Widths, PlanAssumption DEF SingleMax
<1>3. Len(t) > 0
  <2> SUFFICES ASSUME Len(t) = 0 PROVE FALSE
    BY <1>2
  <2>1. TotalBytes(t) = WideAt(Encoding(t), t, 0)
    BY EncodingTyped
  <2>2. WideAt(Encoding(t), t, 0) = 0
    BY EncodingTyped, Widths
  <2> QED
    BY <1>2, <2>1, <2>2
<1>4. CASE Encoding(t) = "ascii"
  <2>1. TotalBytes(t) = Len(t)
    BY <1>2, <1>4, EncodingTyped, AsciiOffsets
  <2>2. SegmentCount(t) = DivCeil(Len(t), MultiMax)
    BY <1>2, <1>4, <2>1 DEF SegmentCount
  <2> QED
    BY <1>1, <1>3, <1>4, <2>2, AsciiFewest
<1>5. CASE Encoding(t) = "ucs2"
  <2>1. SegmentCount(t) = CountLoop(t)
    BY <1>2, <1>5 DEF SegmentCount
  <2> QED
    BY <1>1, <1>5, <2>1, GreedyStaysAhead
<1> QED
  BY <1>4, <1>5, EncodingTyped

Planned(t) == [enc |-> Encoding(t), ranges |-> Ranges(t)]

\* What one segment of a plan carries.
LEMMA SegmentCarries ==
    ASSUME NEW t \in Seq(Chars), NEW p, Pieces(p, t, Ranges(t)), NEW k \in 1 .. Len(Ranges(t))
    PROVE  LET s == Segment(t, Planned(t), k)
               x == SubSeq(t, p[k - 1] + 1, p[k])
           IN  /\ x \in Seq(Chars) /\ Decode(s) = x
               /\ ContentBytes(s) <= SingleMax
               /\ s.number = k /\ s.total = Len(Ranges(t))
               /\ p[k - 1] \in 0 .. Len(t) /\ p[k] \in p[k - 1] .. Len(t)
<1> DEFINE rs == Ranges(t)
           L == Len(rs)
           e == Encoding(t)
           a == p[k - 1]
           b == p[k]
           x == SubSeq(t, a + 1, b)
           s == Segment(t, Planned(t), k)
<1>1. /\ L \in Nat \ {0} /\ p \in [0 .. L -> 0 .. Len(t)]
      /\ rs[k][1] = OffAt(t, a) /\ rs[k][2] = OffAt(t, b) /\ a <= b /\ (L > 1 => a < b)
      /\ WideAt(e, t, b) <= WideAt(e, t, a) + (IF L > 1 THEN MultiMax ELSE SingleMax)
  BY DEF Pieces
<1>2. a \in 0 .. Len(t) /\ b \in 0 .. Len(t) /\ b \in a .. Len(t) /\ Len(t) \in Nat
  <2>1. k \in 0 .. L /\ k - 1 \in 0 .. L
    BY <1>1
  <2>2. a \in 0 .. Len(t) /\ b \in 0 .. Len(t)
    BY <1>1, <2>1
  <2> QED
    BY <1>1, <2>2
<1>3. /\ s.units = Encode(Slice(t, rs[k][1], rs[k][2])) /\ s.enc = e
      /\ s.udhi = (L > 1) /\ s.number = k /\ s.total = L
  BY DEF Segment, Planned
<1> HIDE DEF rs, L, s
<1>4. s.units = Encode(x)
  <2>1. Slice(t, OffAt(t, a), OffAt(t, b)) = x
    BY <1>2, SliceIsStretch
  <2> QED
    BY <1>1, <1>3, <2>1
<1>5. x \in Seq(Chars) /\ Len(x) = b - a /\ \A j \in 1 .. b - a : x[j] = t[a + j]
  BY <1>2, Stretch
<1>6. s.udhi => x # <<>>
  <2> SUFFICES ASSUME L > 1 PROVE x # <<>>
    BY <1>3
  <2>1. b - a # 0
    BY <1>1, <1>2
  <2>2. Len(x) # 0 /\ Len(<<>>) = 0
    BY <1>5, <2>1
  <2> HIDE DEF x
  <2> QED
    BY <2>2
<1>7. Decode(s) = x
  BY <1>4, <1>5, <1>6, DecodeEncode
<1>8. e \in {"ascii", "ucs2"} /\ WideSum(e, x) = WideAt(e, t, b) - WideAt(e, t, a)
  BY <1>2, EncodingTyped, Widths
<1>9. Bytes(Encode(x), e) = WideSum(e, x)
  <2>1. e = "ascii" => \A i \in 1 .. Len(x) : x[i] = "a"
    <3> SUFFICES ASSUME e = "ascii", NEW i \in 1 .. Len(x) PROVE x[i] = "a"
      OBVIOUS
    <3>1. i \in 1 .. b - a
      <4> HIDE DEF x, e
      <4> QED
        BY <1>5
    <3>2. x[i] = t[a + i]
      BY <1>5, <3>1
    <3>3. a + i \in 1 .. Len(t)
      BY <1>2, <3>1
    <3> QED
      BY <3>2, <3>3, EncodingTyped
  <2> HIDE DEF x, e
  <2> QED
    BY <1>5, <1>8, <2>1, EncodedBytes
<1>10. ContentBytes(s) <= SingleMax
  <2> DEFINE w == WideSum(e, x)
             h == IF L > 1 THEN UdhSize ELSE 0
  <2>1. ContentBytes(s) = w + h
    BY <1>3, <1>4, <1>9 DEF ContentBytes
  <2>2. /\ WideAt(e, t, b) \in Nat /\ WideAt(e, t, a) \in Nat /\ MultiMax \in Nat /\ UdhSize \in Nat
        /\ SingleMax = MultiMax + UdhSize
    BY <1>2, <1>8, Widths, PlanAssumption DEF SingleMax
  <2>3. w <= (IF L > 1 THEN MultiMax ELSE SingleMax)
    BY <1>1, <1>8, <2>2
  <2>4. w \in Int
    BY <1>8, <2>2
  <2> HIDE DEF w
  <2> QED
    BY <2>1, <2>2, <2>3, <2>4
<1> QED
  BY <1>2, <1>3, <1>5, <1>7, <1>10 DEF L, rs, s

\* Two stretches of a sequence that meet.
LEMMA StretchesMeet ==
    ASSUME NEW S, NEW t \in Seq(S), NEW a \in 0 .. Len(t), NEW b \in a .. Len(t)
    PROVE  SubSeq(t, 1, a) \o SubSeq(t, a + 1, b) = SubSeq(t, 1, b)
<1> DEFINE y == SubSeq(t, 1, a)
           z == SubSeq(t, a + 1, b)
           v == SubSeq(t, 1, b)
<1>0. a \in Nat /\ b \in Nat /\ a <= b /\ Len(t) \in Nat /\ b \in 0 .. Len(t)
  OBVIOUS
<1>1. y \in Seq(S) /\ Len(y) = a /\ \A j \in 1 .. a : y[j] = t[j]
  BY <1>0
<1>2. z \in Seq(S) /\ Len(z) = b - a /\ \A j \in 1 .. b - a : z[j] = t[a + j]
  BY Stretch
<1>3. v \in Seq(S) /\ Len(v) = b /\ \A j \in 1 .. b : v[j] = t[j]
  BY <1>0
<1> HIDE DEF y, z, v
<1>4. /\ y \o z \in Seq(S) /\ Len(y \o z) = Len(y) + Len(z)
      /\ \A i \in 1 .. Len(y) + Len(z) : (y \o z)[i] = IF i <= Len(y) THEN y[i] ELSE z[i - Len(y)]
  BY <1>1, <1>2, ConcatProperties
<1>5. a + (b - a) = b
  BY <1>0
<1>6. ASSUME NEW j \in 1 .. b PROVE (y \o z)[j] = v[j]
  <2>1. (y \o z)[j] = IF j <= a THEN y[j] ELSE z[j - a]
    BY <1>1, <1>2, <1>4, <1>5
  <2>2. CASE j <= a
    <3>1. j \in 1 .. a
      BY <1>0, <2>2
    <3> QED
      BY <1>1, <1>3, <2>1, <2>2, <3>1
  <2>3. CASE ~(j <= a)
    <3>1. j - a \in 1 .. b - a /\ a + (j - a) = j
      BY <1>0, <2>3
    <3> QED
      BY <1>2, <1>3, <2>1, <2>3, <3>1
  <2> QED
    BY <2>2, <2>3
<1>7. Len(y \o z) = b
  BY <1>1, <1>2, <1>4, <1>5
<1>8. y \o z = v
  BY <1>3, <1>4, <1>6, <1>7, SeqEqual
<1> QED
  BY <1>8 DEF y, z, v

\* The segments of a plan, decoded and joined, give the message back.
LEMMA SegmentsReassemble ==
    ASSUME NEW t \in Seq(Chars), NEW subs,
           subs = [k \in 1 .. Len(Ranges(t)) |-> Segment(t, Planned(t), k)]
    PROVE  Joined(subs) = t
<1>1. PICK p : Pieces(p, t, Ranges(t))
  BY RangesArePieces
<1> DEFINE L == Len(Ranges(t))
           X(k) == SubSeq(t, p[k - 1] + 1, p[k])
<1>2. L \in Nat \ {0} /\ p[0] = 0 /\ p[L] = Len(t)
  BY <1>1 DEF Pieces
<1>3. ASSUME NEW k \in 1 .. L
      PROVE  /\ X(k) \in Seq(Chars) /\ Decode(Segment(t, Planned(t), k)) = X(k)
             /\ p[k - 1] \in 0 .. Len(t) /\ p[k] \in p[k - 1] .. Len(t)
  BY <1>1, SegmentCarries
<1> DEFINE S == {Segment(t, Planned(t), k) : k \in 1 .. L}
<1>4. subs \in Seq(S) /\ Len(subs) = L /\ \A k \in 1 .. L : subs[k] = Segment(t, Planned(t), k)
  BY <1>2
<1> HIDE DEF L, S, X
<1>5. \A k \in 1 .. L : Decode(subs[k]) = X(k) /\ X(k) \in Seq(Chars)
  BY <1>3, <1>4
<1>6. PICK c \in [0 .. Len(subs) -> Seq(Chars)] :
         /\ c[0] = <<>> /\ Joined(subs) = c[Len(subs)]
         /\ \A k \in 1 .. Len(subs) : c[k] = c[k - 1] \o Decode(subs[k])
  <2>1. \A k \in 1 .. Len(subs) : Decode(subs[k]) \in Seq(Chars)
    BY <1>4, <1>5
  <2> QED
    BY <1>4, <2>1, JoinLoop
<1> DEFINE P == {k \in 0 .. L : c[k] = SubSeq(t, 1, p[k])}
<1>7. 0 \in P
  <2>1. SubSeq(t, 1, 0) = <<>>
    OBVIOUS
  <2> QED
    BY <1>2, <1>6, <2>1
<1>8. ASSUME NEW k \in 1 .. L, k - 1 \in P PROVE k \in P
  <2> DEFINE a == p[k - 1]
             b == p[k]
  <2>a. a \in 0 .. Len(t) /\ b \in a .. Len(t)
    BY <1>3
  <2>b. k \in 0 .. L /\ k \in 1 .. Len(subs)
    BY <1>2, <1>4
  <2>c. Decode(subs[k]) = X(k) /\ c[k] = c[k - 1] \o Decode(subs[k])
    BY <1>5, <1>6, <2>b
  <2>1. a \in 0 .. Len(t) /\ b \in a .. Len(t) /\ c[k] = c[k - 1] \o X(k) /\ k \in 0 .. L
    BY <2>a, <2>b, <2>c
  <2>2. c[k - 1] = SubSeq(t, 1, a)
    BY <1>8
  <2> HIDE DEF a, b
  <2>3. SubSeq(t, 1, a) \o SubSeq(t, a + 1, b) = SubSeq(t, 1, b)
    BY <2>1, StretchesMeet
  <2>4. c[k] = SubSeq(t, 1, b)
    BY <2>1, <2>2, <2>3 DEF X, a, b
  <2> QED
    BY <2>1, <2>4 DEF b
<1> HIDE DEF P
<1>9. L \in 0 .. L /\ L \in Nat
  BY <1>2
<1>10. L \in P
  BY <1>7, <1>8, <1>9, UpTo
<1>11. c[L] = SubSeq(t, 1, Len(t))
  BY <1>2, <1>10 DEF P
<1>12. SubSeq(t, 1, Len(t)) = t
  OBVIOUS
<1> QED
  BY <1>4, <1>6, <1>11, <1>12

-----------------------------------------------------------------------------
\* What every reachable state has: the plan is the one of the text, or a reason
\* not to have one, and the SUBMITs are the first of its segments.
PlanInv ==
    /\ text \in Seq(Chars)
    /\ plan = NoPlan => submits = <<>>
    /\ plan = Error => submits = <<>> /\ (dests > MaxDests \/ SegmentCount(text) > MaxSegments)
    /\ plan \notin {NoPlan, Error} =>
          /\ plan = Planned(text) /\ SegmentCount(text) <= MaxSegments
          /\ \E l \in 0 .. Len(Ranges(text)) :
                submits = [k \in 1 .. l |-> Segment(text, plan, k)]

\* No plan, the error and the plan of a text are three different things.
LEMMA PlansDiffer == NoPlan # Error /\ \A t : Planned(t) \notin {NoPlan, Error}
<1>1. NoPlan.error = FALSE /\ Error.error = TRUE
  BY DEF NoPlan, Error
<1>2. DOMAIN NoPlan = {"error"} /\ DOMAIN Error = {"error"} /\ \A t : DOMAIN Planned(t) = {"enc", "ranges"}
  BY DEF NoPlan, Error, Planned
<1>3. "enc" \in {"enc", "ranges"} /\ "enc" \notin {"error"}
  OBVIOUS
<1> QED
  BY <1>1, <1>2, <1>3

\* It holds at first.
LEMMA PlanInvInit == InitPlan => PlanInv
<1> SUFFICES ASSUME InitPlan PROVE PlanInv
  OBVIOUS
<1>1. text \in Seq(Chars)
  <2>1. text \in BoundedSeq(Chars, MaxChars) \cup BoundedSeq({"a"}, MaxAscii)
    BY DEF InitPlan, Messages
  <2>2. ASSUME NEW S, NEW n \in Nat, NEW t \in BoundedSeq(S, n) PROVE t \in Seq(S)
    BY DEF BoundedSeq, SeqOf
  <2>3. \A t \in Seq({"a"}) : t \in Seq(Chars)
    BY DEF Chars
  <2>4. text \in Seq(Chars) \/ text \in Seq({"a"})
    BY <2>1, <2>2, PlanAssumption
  <2> QED
    BY <2>3, <2>4
<1>2. plan = NoPlan /\ submits = <<>>
  BY DEF InitPlan
<1> QED
  BY <1>1, <1>2, PlansDiffer DEF PlanInv

\* It is inductive: planning takes the plan of the text, every SUBMIT is the next.
LEMMA PlanInvNext == PlanInv /\ [NextPlan]_planVars => PlanInv'
<1> SUFFICES ASSUME PlanInv, [NextPlan]_planVars PROVE PlanInv'
  OBVIOUS
<1>1. CASE UNCHANGED planVars
  BY <1>1 DEF PlanInv, planVars
<1>2. CASE PlanMessage
  <2>1. /\ text' = text /\ dests' = dests /\ submits' = <<>>
        /\ plan' = (IF dests > MaxDests THEN Error ELSE Prepare(text))
    BY <1>2 DEF PlanMessage, PlanInv
  <2>2. CASE dests > MaxDests \/ SegmentCount(text) > MaxSegments
    <3>1. plan' = Error
      BY <2>1, <2>2 DEF Prepare
    <3> QED
      BY <2>1, <2>2, <3>1, PlansDiffer DEF PlanInv
  <2>3. CASE ~(dests > MaxDests \/ SegmentCount(text) > MaxSegments)
    <3>1. plan' = Planned(text)
      BY <2>1, <2>3 DEF Prepare, Planned
    <3>2. SegmentCount(text) \in Nat /\ Len(Ranges(text)) \in Nat /\ text \in Seq(Chars)
      <4>1. text \in Seq(Chars)
        BY DEF PlanInv
      <4> QED
        BY <4>1, RangesArePieces DEF Pieces
    <3>3. SegmentCount(text) <= MaxSegments
      BY <2>3, <3>2, PlanAssumption
    <3>4. submits' = [k \in 1 .. 0 |-> Segment(text, Planned(text), k)] /\ 0 \in 0 .. Len(Ranges(text))
      BY <2>1, <3>2
    <3> QED
      BY <2>1, <3>1, <3>2, <3>3, <3>4, PlansDiffer DEF PlanInv
  <2> QED
    BY <2>2, <2>3
<1>3. CASE BuildSubmit
  <2>1. /\ plan \notin {NoPlan, Error} /\ Len(submits) < Len(plan.ranges)
        /\ submits' = Append(submits, Segment(text, plan, Len(submits) + 1))
        /\ text' = text /\ dests' = dests /\ plan' = plan
    BY <1>3 DEF BuildSubmit
  <2>2. text \in Seq(Chars) /\ plan = Planned(text) /\ SegmentCount(text) <= MaxSegments
    BY <2>1 DEF PlanInv
  <2>3. PICK l \in 0 .. Len(Ranges(text)) : submits = [k \in 1 .. l |-> Segment(text, plan, k)]
    BY <2>1 DEF PlanInv
  <2>4. plan.ranges = Ranges(text) /\ Len(Ranges(text)) \in Nat
    BY <2>2, RangesArePieces DEF Planned, Pieces
  <2>5. l \in Nat /\ Len(submits) = l /\ l + 1 \in 0 .. Len(Ranges(text))
    BY <2>1, <2>3, <2>4
  <2>6. submits' = [k \in 1 .. l + 1 |-> Segment(text, plan, k)]
    BY <2>1, <2>3, <2>5
  <2> QED
    BY <2>1, <2>2, <2>5, <2>6 DEF PlanInv
<1> QED
  BY <1>1, <1>2, <1>3 DEF NextPlan

\* The plan is right wherever the invariant holds.
LEMMA PlanInvExact == PlanInv => PlanExact
<1> SUFFICES ASSUME PlanInv PROVE PlanExact
  OBVIOUS
<1>1. text \in Seq(Chars) /\ MaxSegments \in Nat \ {0} /\ SingleMax \in Nat
  BY PlanAssumption DEF PlanInv, SingleMax
<1>2. PICK p : Pieces(p, text, Ranges(text))
  BY <1>1, RangesArePieces
<1>3. Len(Ranges(text)) = SegmentCount(text) /\ SegmentCount(text) \in Nat \ {0}
  BY <1>1, <1>2, RangesArePieces DEF Pieces
<1> DEFINE L == Len(Ranges(text))
<1>4. CASE plan = NoPlan
  <2>1. ~Built /\ DOMAIN submits = {} /\ plan # Error
    BY <1>4, PlansDiffer DEF Built, PlanInv
  <2> QED
    BY <1>4, <2>1 DEF PlanExact, Reassembles, SegmentsFit, CountAgrees, FewestSegments
<1>5. CASE plan = Error
  <2>1. ~Built /\ DOMAIN submits = {}
    BY <1>5 DEF Built, PlanInv
  <2>2. ASSUME ~(dests > MaxDests) PROVE TotalBytes(text) > SingleMax /\ ~Cuttable(text, MaxSegments)
    <3>1. SegmentCount(text) > MaxSegments
      BY <1>5, <2>2 DEF PlanInv
    <3>2. TotalBytes(text) > SingleMax
      <4>1. TotalBytes(text) \in Nat
        <5>1. Len(text) \in 0 .. Len(text)
          BY <1>1
        <5> QED
          BY <1>1, <5>1, EncodingTyped, Widths
      <4>2. TotalBytes(text) <= SingleMax => SegmentCount(text) = 1
        BY DEF SegmentCount
      <4> QED
        BY <1>1, <3>1, <4>1, <4>2
    <3>3. ~Cuttable(text, MaxSegments)
      <4>1. Cuttable(text, MaxSegments) => SegmentCount(text) <= MaxSegments
        BY <1>1, <3>2, NoFewer
      <4> QED
        BY <1>1, <1>3, <3>1, <4>1
    <3> QED
      BY <3>2, <3>3
  <2> QED
    BY <1>5, <2>1, <2>2 DEF PlanExact, Reassembles, SegmentsFit, CountAgrees, FewestSegments
<1>6. CASE plan \notin {NoPlan, Error}
  <2>1. plan = Planned(text) /\ SegmentCount(text) <= MaxSegments /\ plan.ranges = Ranges(text)
    BY <1>6 DEF PlanInv, Planned
  <2>2. PICK l \in 0 .. L : submits = [k \in 1 .. l |-> Segment(text, plan, k)]
    BY <1>6 DEF PlanInv
  <2>3. L \in Nat \ {0} /\ l \in Nat /\ Len(submits) = l /\ DOMAIN submits = 1 .. l
    BY <1>3, <2>2
  <2>4. CountAgrees
    BY <1>3, <2>1 DEF CountAgrees
  <2>5. Reassembles
    <3> SUFFICES ASSUME Built PROVE Joined(submits) = text
      BY DEF Reassembles, Joined
    <3>1. l = L
      BY <2>1, <2>3 DEF Built
    <3> QED
      BY <1>1, <2>1, <2>2, <3>1, SegmentsReassemble
  <2>6. SegmentsFit
    <3> SUFFICES ASSUME NEW k \in DOMAIN submits
                 PROVE  /\ ContentBytes(submits[k]) <= SingleMax
                        /\ submits[k].number = k /\ submits[k].number <= submits[k].total
                        /\ submits[k].total <= MaxSegments
                        /\ Built => submits[k].total = Len(submits)
      BY DEF SegmentsFit
    <3>1. k \in 1 .. l /\ k \in 1 .. L /\ k <= L
      BY <2>3
    <3>2. submits[k] = Segment(text, Planned(text), k)
      BY <2>1, <2>2, <3>1
    <3>3. ContentBytes(submits[k]) <= SingleMax /\ submits[k].number = k /\ submits[k].total = L
      BY <1>1, <1>2, <3>1, <3>2, SegmentCarries
    <3>4. Built => Len(submits) = L
      BY <2>1 DEF Built
    <3>5. L <= MaxSegments
      BY <1>3, <2>1
    <3> QED
      BY <3>1, <3>3, <3>4, <3>5
  <2>7. FewestSegments
    <3>1. ASSUME NEW m \in 1 .. L - 1 PROVE ~Cuttable(text, m)
      <4>1. m \in Nat \ {0} /\ m < L /\ L > 1
        BY <2>3
      <4>2. TotalBytes(text) > SingleMax
        <5>1. TotalBytes(text) \in Nat
          <6>1. Len(text) \in 0 .. Len(text)
            BY <1>1
          <6> QED
            BY <1>1, <6>1, EncodingTyped, Widths
        <5>2. TotalBytes(text) <= SingleMax => SegmentCount(text) = 1
          BY DEF SegmentCount
        <5> QED
          BY <1>1, <1>3, <4>1, <5>1, <5>2
      <4>3. Cuttable(text, m) => SegmentCount(text) <= m
        BY <1>1, <4>1, <4>2, NoFewer
      <4> QED
        BY <1>3, <2>3, <4>1, <4>3
    <3> QED
      BY <1>6, <2>1, <3>1 DEF FewestSegments
  <2> QED
    BY <2>4, <2>5, <2>6, <2>7 DEF PlanExact
<1> QED
  BY <1>4, <1>5, <1>6

\* Every message is cut into the fewest segments there can be, each of which
\* fits Msg_Content with its header; decoded and joined they give the message
\* back, the count that is checked against 255 is the number of segments that
\* are sent, and a message is refused only if no way of cutting it fits
\* (prepare_submit_content and segment, encoding.rs:99-197).
THEOREM PlanIsExact == SpecPlan => []PlanExact
<1>1. SpecPlan => []PlanInv
  BY PlanInvInit, PlanInvNext, PTL DEF SpecPlan
<1> QED
  BY <1>1, PlanInvExact, PTL

-----------------------------------------------------------------------------
\* PduCodec: joining sequences

\* One sequence after another, as a name of its own.
Then(a, b) == a \o b

\* What one sequence after another is.
LEMMA ThenIs ==
    ASSUME NEW S, NEW a \in Seq(S), NEW b \in Seq(S)
    PROVE  /\ Then(a, b) \in Seq(S) /\ Len(Then(a, b)) = Len(a) + Len(b)
           /\ \A i \in 1 .. Len(a) : Then(a, b)[i] = a[i]
           /\ \A i \in 1 .. Len(b) : Then(a, b)[Len(a) + i] = b[i]
<1>1. /\ a \o b \in Seq(S) /\ Len(a \o b) = Len(a) + Len(b)
      /\ \A i \in 1 .. Len(a) : (a \o b)[i] = a[i]
  BY ConcatProperties
<1>2. \A i \in 1 .. Len(b) : (a \o b)[Len(a) + i] = b[i]
  OBVIOUS
<1> QED
  BY <1>1, <1>2 DEF Then

\* What is there after each of the sequences is joined.
Joins(c, S, q, n) ==
    /\ c \in [0 .. n -> Seq(S)] /\ c[0] = <<>> /\ Join(q) = c[n]
    /\ \A i \in 1 .. n : c[i] = Then(c[i - 1], q[i])

\* encode_body, field by field.
LEMMA JoinChain ==
    ASSUME NEW S, NEW n \in Nat, NEW q, DOMAIN q = 1 .. n, \A i \in 1 .. n : q[i] \in Seq(S)
    PROVE  \E c : Joins(c, S, q, n)
<1> DEFINE op == [p \in Seq(S) \X (1 .. n) |-> Then(p[1], q[p[2]])]
           Rule(h) == h = [x \in SUBSET (DOMAIN q) |->
                              IF x = {} THEN <<>> ELSE Then(h[x \ {Max(x)}], q[Max(x)])]
<1>1. <<>> \in Seq(S) /\ \A r \in Seq(S), i \in 1 .. n : Then(r, q[i]) \in Seq(S)
  <2>1. <<>> \in Seq(S)
    OBVIOUS
  <2>2. ASSUME NEW r \in Seq(S), NEW i \in 1 .. n PROVE Then(r, q[i]) \in Seq(S)
    <3>1. q[i] \in Seq(S)
      OBVIOUS
    <3> QED
      BY <3>1, ThenIs
  <2> QED
    BY <2>1, <2>2
<1>2. /\ op \in [Seq(S) \X (1 .. n) -> Seq(S)]
      /\ \A r \in Seq(S), i \in 1 .. n : op[<<r, i>>] = Then(r, q[i])
  <2> SUFFICES ASSUME NEW p \in Seq(S) \X (1 .. n) PROVE op[p] \in Seq(S)
    OBVIOUS
  <2> QED
    BY <1>1
<1> HIDE DEF op
<1>3. ASSUME NEW g, FoldTable(g, Seq(S), <<>>, op, n) PROVE Rule(g)
  <2>1. g \in [SUBSET (1 .. n) -> Seq(S)] /\ g[{}] = <<>>
    BY <1>3 DEF FoldTable
  <2>2. ASSUME NEW x \in SUBSET (1 .. n), x # {} PROVE g[x] = Then(g[x \ {Max(x)}], q[Max(x)])
    <3>1. Max(x) \in 1 .. n /\ g[x \ {Max(x)}] \in Seq(S)
      BY <1>1, <2>1, <2>2, MaxIsMember
    <3>2. g[x] = op[<<g[x \ {Max(x)}], Max(x)>>]
      BY <1>3, <2>2 DEF FoldTable
    <3> QED
      BY <1>2, <3>1, <3>2
  <2> QED
    BY <1>1, <2>1, <2>2
<1>4. ASSUME NEW h, Rule(h) PROVE FollowsRule(h, Seq(S), <<>>, op, n)
  <2>1. h[{}] = <<>>
    BY <1>1, <1>4
  <2>2. ASSUME NEW x \in SUBSET (1 .. n), x # {}, h[x \ {Max(x)}] \in Seq(S)
        PROVE  h[x] = op[<<h[x \ {Max(x)}], Max(x)>>]
    <3>1. Max(x) \in 1 .. n /\ h[x] = Then(h[x \ {Max(x)}], q[Max(x)])
      BY <1>1, <1>4, <2>2, MaxIsMember
    <3> HIDE DEF Rule
    <3> QED
      BY <1>2, <2>2, <3>1
  <2> HIDE DEF Rule
  <2> QED
    BY <1>1, <1>2, <2>1, <2>2 DEF FollowsRule
<1>5. Join(q) = (CHOOSE h : Rule(h))[1 .. n]
  BY <1>1 DEF Join, FoldLeft, MapThenFoldSet, Then
<1> HIDE DEF Rule
<1>6. PICK h : Rule(h) /\ Join(q) = h[1 .. n]
  BY <1>1, <1>2, <1>3, <1>5, FoldExists
<1>7. PICK c : Loop(c, Seq(S), <<>>, op, n) /\ c[n] = h[1 .. n]
  <2>1. FollowsRule(h, Seq(S), <<>>, op, n)
    BY <1>4, <1>6
  <2> QED
    BY <1>6, <2>1, RuleIsLoop
<1>8. ASSUME NEW i \in 1 .. n PROVE c[i] = Then(c[i - 1], q[i])
  <2>1. i - 1 \in 0 .. n
    OBVIOUS
  <2>2. c[i - 1] \in Seq(S)
    BY <1>7, <2>1 DEF Loop
  <2> QED
    BY <1>2, <1>7, <2>2 DEF Loop
<1>9. c \in [0 .. n -> Seq(S)] /\ c[0] = <<>> /\ Join(q) = c[n]
  BY <1>6, <1>7 DEF Loop
<1> QED
  BY <1>8, <1>9 DEF Joins

\* Joined sequences of numbers are a sequence of numbers.
LEMMA JoinTyped ==
    ASSUME NEW S, NEW n \in Nat, NEW q, DOMAIN q = 1 .. n, \A i \in 1 .. n : q[i] \in Seq(S)
    PROVE  Join(q) \in Seq(S)
<1>1. PICK c : Joins(c, S, q, n)
  BY JoinChain
<1> QED
  BY <1>1 DEF Joins

\* Nothing joined is nothing.
LEMMA JoinNone ==
    ASSUME NEW q, DOMAIN q = {} PROVE Join(q) = <<>>
<1>1. 0 \in Nat /\ DOMAIN q = 1 .. 0 /\ \A i \in 1 .. 0 : q[i] \in Seq({})
  OBVIOUS
<1>2. PICK c : Joins(c, {}, q, 0)
  BY <1>1, JoinChain
<1> QED
  BY <1>2 DEF Joins

\* The last one is joined last.
LEMMA JoinLast ==
    ASSUME NEW S, NEW n \in Nat, NEW q, DOMAIN q = 1 .. n + 1, \A i \in 1 .. n + 1 : q[i] \in Seq(S),
           NEW p, DOMAIN p = 1 .. n, \A i \in 1 .. n : p[i] = q[i]
    PROVE  Join(q) = Then(Join(p), q[n + 1])
<1>1. PICK c : Joins(c, S, q, n + 1)
  <2>1. n + 1 \in Nat
    OBVIOUS
  <2> QED
    BY <2>1, JoinChain
<1>2. DOMAIN p = 1 .. n /\ \A i \in 1 .. n : p[i] = q[i] /\ p[i] \in Seq(S)
  OBVIOUS
<1>3. PICK d : Joins(d, S, p, n)
  BY <1>2, JoinChain
<1> DEFINE E == {i \in 0 .. n : c[i] = d[i]}
<1>4. 0 \in E
  BY <1>1, <1>3 DEF Joins
<1>5. ASSUME NEW i \in 1 .. n, i - 1 \in E PROVE i \in E
  <2>1. i \in 1 .. n + 1 /\ i \in 0 .. n
    OBVIOUS
  <2>2. c[i] = Then(c[i - 1], q[i]) /\ d[i] = Then(d[i - 1], p[i]) /\ p[i] = q[i] /\ c[i - 1] = d[i - 1]
    BY <1>1, <1>2, <1>3, <1>5, <2>1 DEF Joins
  <2> QED
    BY <2>1, <2>2
<1> HIDE DEF E
<1>6. n \in E
  <2>1. \A i \in 0 .. n : i \in E
    BY <1>4, <1>5, UpTo
  <2> QED
    BY <2>1
<1>7. c[n] = d[n]
  BY <1>6 DEF E
<1>8. c[n + 1] = Then(c[n], q[n + 1])
  <2>1. n + 1 \in 1 .. n + 1 /\ n + 1 - 1 = n
    OBVIOUS
  <2>2. \A i \in 1 .. n + 1 : c[i] = Then(c[i - 1], q[i])
    BY <1>1 DEF Joins
  <2> QED
    BY <2>1, <2>2
<1> QED
  BY <1>1, <1>3, <1>7, <1>8 DEF Joins

-----------------------------------------------------------------------------
\* PduCodec: the bytes of a string

\* The first of a sequence, as a name of its own.
Begin(s, m) == SubSeq(s, 1, m)

\* What the first of a sequence are.
LEMMA BeginIs ==
    ASSUME NEW S, NEW s \in Seq(S), NEW m \in 0 .. Len(s)
    PROVE  /\ Begin(s, m) \in Seq(S) /\ Len(Begin(s, m)) = m /\ DOMAIN Begin(s, m) = 1 .. m
           /\ \A i \in 1 .. m : Begin(s, m)[i] = s[i]
<1>1. /\ SubSeq(s, 1, m) \in Seq(S) /\ Len(SubSeq(s, 1, m)) = m
      /\ \A i \in 1 .. m : SubSeq(s, 1, m)[i] = s[i]
  OBVIOUS
<1> QED
  BY <1>1 DEF Begin

\* All of a sequence, and what is equal to the first of one.
LEMMA BeginAll ==
    ASSUME NEW S, NEW s \in Seq(S) PROVE Begin(s, Len(s)) = s
<1>1. Len(s) \in 0 .. Len(s)
  OBVIOUS
<1>2. /\ Begin(s, Len(s)) \in Seq(S) /\ Len(Begin(s, Len(s))) = Len(s)
      /\ \A i \in 1 .. Len(s) : Begin(s, Len(s))[i] = s[i]
  BY <1>1, BeginIs
<1> QED
  BY <1>2, SeqEqual

\* A sequence that has the same elements is the first of the other.
LEMMA IsBegin ==
    ASSUME NEW S, NEW s \in Seq(S), NEW a \in Seq(S), Len(a) <= Len(s),
           \A i \in 1 .. Len(a) : a[i] = s[i]
    PROVE  a = Begin(s, Len(a))
<1>1. Len(a) \in 0 .. Len(s)
  OBVIOUS
<1>2. /\ Begin(s, Len(a)) \in Seq(S) /\ Len(Begin(s, Len(a))) = Len(a)
      /\ \A i \in 1 .. Len(a) : Begin(s, Len(a))[i] = s[i]
  BY <1>1, BeginIs
<1> HIDE DEF Begin
<1> QED
  BY <1>2, SeqEqual

\* Nothing before the first.
LEMMA BeginNone ==
    ASSUME NEW S, NEW s \in Seq(S) PROVE Begin(s, 0) = <<>>
<1>1. 0 \in 0 .. Len(s)
  OBVIOUS
<1>2. Begin(s, 0) \in Seq(S) /\ Len(Begin(s, 0)) = 0
  BY <1>1, BeginIs
<1> QED
  BY <1>2

\* One more of a sequence.
LEMMA BeginNext ==
    ASSUME NEW S, NEW s \in Seq(S), NEW n \in Nat, n < Len(s)
    PROVE  Begin(s, n + 1) = Then(Begin(s, n), <<s[n + 1]>>)
<1>1. n \in 0 .. Len(s) /\ n + 1 \in 0 .. Len(s) /\ n + 1 \in 1 .. Len(s)
  OBVIOUS
<1> DEFINE a == Begin(s, n)
           b == Begin(s, n + 1)
           x == <<s[n + 1]>>
           t == Then(a, x)
<1>2. a \in Seq(S) /\ Len(a) = n /\ \A i \in 1 .. n : a[i] = s[i]
  BY <1>1, BeginIs
<1>3. b \in Seq(S) /\ Len(b) = n + 1 /\ \A i \in 1 .. n + 1 : b[i] = s[i]
  BY <1>1, BeginIs
<1>4. x \in Seq(S) /\ Len(x) = 1 /\ x[1] = s[n + 1]
  BY <1>1
<1> HIDE DEF a, b, x
<1>5. /\ t \in Seq(S) /\ Len(t) = n + 1 /\ \A i \in 1 .. n : t[i] = a[i]
      /\ \A i \in 1 .. 1 : t[n + i] = x[i]
  <2>0. a \in Seq(S) /\ x \in Seq(S)
    BY <1>2, <1>4
  <2> HIDE DEF t
  <2>1. t \in Seq(S) /\ Len(t) = Len(a) + Len(x) /\ \A i \in 1 .. Len(a) : t[i] = a[i]
    BY <2>0, ThenIs DEF t
  <2>2. \A i \in 1 .. Len(x) : t[Len(a) + i] = x[i]
    BY <2>0, ThenIs DEF t
  <2> QED
    BY <1>2, <1>4, <2>1, <2>2
<1> HIDE DEF t
<1>6. ASSUME NEW i \in 1 .. n + 1 PROVE b[i] = t[i]
  <2>1. CASE i \in 1 .. n
    BY <1>2, <1>3, <1>5, <2>1
  <2>2. CASE i = n + 1
    BY <1>3, <1>4, <1>5, <2>2
  <2> QED
    BY <2>1, <2>2
<1>7. b = t
  BY <1>3, <1>5, <1>6, SeqEqual
<1> QED
  BY <1>7 DEF a, b, t, x

\* A sequence over a set is one over every larger set.
LEMMA SeqLarger ==
    ASSUME NEW S, NEW T, S \subseteq T, NEW s \in Seq(S) PROVE s \in Seq(T)
<1>1. Len(s) \in Nat /\ s \in [1 .. Len(s) -> S]
  OBVIOUS
<1>2. s \in [1 .. Len(s) -> T]
  BY <1>1
<1> QED
  BY <1>1, <1>2

\* Bytes and code points are numbers.
LEMMA NumbersAre ==
    /\ Octets \subseteq Nat /\ CodePoints \subseteq Nat
    /\ \A s \in Seq(Octets) : s \in Seq(Nat)
    /\ \A s \in Seq(CodePoints) : s \in Seq(Nat)
<1>1. Octets \subseteq Nat /\ CodePoints \subseteq Nat
  BY DEF Octets, CodePoints, Wide
<1>2. ASSUME NEW s \in Seq(Octets) PROVE s \in Seq(Nat)
  BY <1>1, SeqLarger
<1>3. ASSUME NEW s \in Seq(CodePoints) PROVE s \in Seq(Nat)
  BY <1>1, SeqLarger
<1> QED
  BY <1>1, <1>2, <1>3

\* The bytes of a character.
Utf8Char(ch) == IF ch = Wide THEN <<195, 169>> ELSE <<ch>>

\* One or two bytes, of which the last is never the first of two.
LEMMA Utf8CharIs ==
    ASSUME NEW ch \in CodePoints
    PROVE  /\ Utf8Char(ch) \in Seq(Octets) /\ Len(Utf8Char(ch)) \in {1, 2}
           /\ ch = Wide => /\ Len(Utf8Char(ch)) = 2
                           /\ Utf8Char(ch)[1] = 195 /\ Utf8Char(ch)[2] = 169
           /\ ch # Wide => /\ Len(Utf8Char(ch)) = 1 /\ Utf8Char(ch)[1] = ch /\ ch <= 127
<1>1. CASE ch = Wide
  <2>1. <<195, 169>> \in Seq(Octets) /\ Len(<<195, 169>>) = 2
    BY DEF Octets
  <2> QED
    BY <1>1, <2>1 DEF Utf8Char
<1>2. CASE ch # Wide
  <2>1. ch \in 0 .. 127
    BY <1>2 DEF CodePoints
  <2>2. <<ch>> \in Seq(Octets) /\ Len(<<ch>>) = 1
    BY <2>1 DEF Octets
  <2> QED
    BY <1>2, <2>1, <2>2 DEF Utf8Char
<1> QED
  BY <1>1, <1>2

\* The bytes of the first characters of a string.
Written(s, m) == Utf8Bytes(Begin(s, m))

\* Without characters there are no bytes.
LEMMA WrittenNone ==
    ASSUME NEW s \in Seq(CodePoints) PROVE Written(s, 0) = <<>>
<1>1. Written(s, 0) = Join([i \in DOMAIN <<>> |-> IF <<>>[i] = Wide THEN <<195, 169>> ELSE <<<<>>[i]>>])
  BY BeginNone DEF Written, Utf8Bytes
<1> DEFINE q == [i \in DOMAIN <<>> |-> IF <<>>[i] = Wide THEN <<195, 169>> ELSE <<<<>>[i]>>]
<1>2. DOMAIN q = {}
  OBVIOUS
<1> HIDE DEF q
<1>3. Join(q) = <<>>
  BY <1>2, JoinNone
<1> QED
  BY <1>1, <1>3 DEF q

\* The bytes of one character more.
LEMMA WrittenNext ==
    ASSUME NEW s \in Seq(CodePoints), NEW n \in Nat, n < Len(s)
    PROVE  Written(s, n + 1) = Then(Written(s, n), Utf8Char(s[n + 1]))
<1>1. n \in 0 .. Len(s) /\ n + 1 \in 0 .. Len(s)
  OBVIOUS
<1> DEFINE a == Begin(s, n)
           b == Begin(s, n + 1)
           p == [i \in DOMAIN a |-> Utf8Char(a[i])]
           q == [i \in DOMAIN b |-> Utf8Char(b[i])]
<1>2. DOMAIN a = 1 .. n /\ \A i \in 1 .. n : a[i] = s[i]
  BY <1>1, BeginIs
<1>3. DOMAIN b = 1 .. n + 1 /\ \A i \in 1 .. n + 1 : b[i] = s[i]
  BY <1>1, BeginIs
<1> HIDE DEF a, b
<1>4. ASSUME NEW i \in 1 .. n + 1 PROVE q[i] = Utf8Char(s[i]) /\ q[i] \in Seq(Octets)
  <2>1. s[i] \in CodePoints
    <3>1. i \in 1 .. Len(s)
      OBVIOUS
    <3> QED
      BY <3>1
  <2>2. q[i] = Utf8Char(s[i])
    BY <1>3
  <2> QED
    BY <2>1, <2>2, Utf8CharIs
<1>5. DOMAIN q = 1 .. n + 1
  BY <1>3
<1>6. DOMAIN p = 1 .. n /\ \A i \in 1 .. n : p[i] = q[i]
  BY <1>2, <1>3
<1> HIDE DEF p, q
<1>7. Join(q) = Then(Join(p), q[n + 1])
  BY <1>4, <1>5, <1>6, JoinLast
<1>8. Join(q) = Then(Join(p), Utf8Char(s[n + 1]))
  BY <1>4, <1>7
<1>9. Written(s, n) = Join(p)
  BY DEF Written, Utf8Bytes, Utf8Char, p, a
<1>10. Written(s, n + 1) = Join(q)
  BY DEF Written, Utf8Bytes, Utf8Char, q, b
<1> QED
  BY <1>8, <1>9, <1>10

\* Bytes that do not end within a character.
Uncut(b) == b \in Seq(Octets) /\ (Len(b) # 0 => b[Len(b)] # 195)

\* With a character after them they still do not, and the last byte is blank
\* only if the character is.
LEMMA UncutNext ==
    ASSUME NEW b, Uncut(b), NEW ch \in CodePoints
    PROVE  LET t == Then(b, Utf8Char(ch))
           IN  /\ Uncut(t) /\ Len(t) > Len(b) /\ \A j \in 1 .. Len(b) : t[j] = b[j]
               /\ ch \in Blank => Len(t) = Len(b) + 1 /\ t[Len(b) + 1] = ch
               /\ ch \notin Blank => t[Len(t)] \notin Blank
<1> DEFINE u == Utf8Char(ch)
           t == Then(b, u)
<1>1. /\ u \in Seq(Octets) /\ Len(u) \in {1, 2}
      /\ ch = Wide => Len(u) = 2 /\ u[1] = 195 /\ u[2] = 169
      /\ ch # Wide => Len(u) = 1 /\ u[1] = ch /\ ch <= 127
  BY Utf8CharIs
<1>2. b \in Seq(Octets) /\ Len(b) \in Nat
  BY DEF Uncut
<1> HIDE DEF u, t
<1>3. t \in Seq(Octets) /\ Len(t) = Len(b) + Len(u) /\ \A j \in 1 .. Len(b) : t[j] = b[j]
  BY <1>1, <1>2, ThenIs DEF t
<1>4. \A j \in 1 .. Len(u) : t[Len(b) + j] = u[j]
  BY <1>1, <1>2, ThenIs DEF t
<1>5. ch \in Nat
  BY NumbersAre
<1>6. CASE ch = Wide
  <2>0. Len(u) = 2
    BY <1>1, <1>6
  <2>1. 2 \in 1 .. Len(u) /\ Len(t) = Len(b) + 2
    BY <1>3, <2>0
  <2>2. t[Len(t)] = 169
    BY <1>1, <1>4, <1>6, <2>1
  <2>3. ch \notin Blank /\ 169 \notin Blank /\ 169 # 195
    BY <1>6 DEF Wide, Blank, Nul
  <2> QED
    BY <1>2, <1>3, <2>1, <2>2, <2>3 DEF t, u, Uncut
<1>7. CASE ch # Wide
  <2>0. Len(u) = 1
    BY <1>1, <1>7
  <2>1. 1 \in 1 .. Len(u) /\ Len(t) = Len(b) + 1
    BY <1>3, <2>0
  <2>2. t[Len(b) + 1] = ch /\ ch # 195
    BY <1>1, <1>4, <1>5, <1>7, <2>1
  <2> QED
    BY <1>2, <1>3, <2>1, <2>2 DEF t, u, Uncut
<1> QED
  BY <1>6, <1>7

\* The bytes of the first characters end with a character.
LEMMA WrittenUncut ==
    ASSUME NEW s \in Seq(CodePoints), NEW m \in 0 .. Len(s) PROVE Uncut(Written(s, m))
<1> DEFINE P == {i \in 0 .. Len(s) : Uncut(Written(s, i))}
<1>1. 0 \in P
  <2>1. Uncut(<<>>)
    BY DEF Uncut
  <2> QED
    BY <2>1, WrittenNone
<1>2. ASSUME NEW i \in 1 .. Len(s), i - 1 \in P PROVE i \in P
  <2>1. i - 1 \in Nat /\ i - 1 < Len(s) /\ i - 1 + 1 = i /\ s[i] \in CodePoints
    OBVIOUS
  <2>2. Written(s, i) = Then(Written(s, i - 1), Utf8Char(s[i]))
    BY <2>1, WrittenNext
  <2>3. Uncut(Then(Written(s, i - 1), Utf8Char(s[i])))
    BY <1>2, <2>1, UncutNext
  <2> QED
    BY <2>2, <2>3
<1> HIDE DEF P
<1>3. \A i \in 0 .. Len(s) : i \in P
  <2>1. Len(s) \in Nat
    OBVIOUS
  <2> QED
    BY <1>1, <1>2, <2>1, UpTo
<1> QED
  BY <1>3 DEF P

\* The bytes of one character more.
LEMMA WrittenStep ==
    ASSUME NEW s \in Seq(CodePoints), NEW m \in Nat, m < Len(s)
    PROVE  LET b == Written(s, m)
               t == Written(s, m + 1)
               ch == s[m + 1]
           IN  /\ Uncut(b) /\ Uncut(t) /\ Len(t) > Len(b) /\ \A j \in 1 .. Len(b) : t[j] = b[j]
               /\ ch \in Blank => Len(t) = Len(b) + 1 /\ t[Len(b) + 1] = ch
               /\ ch \notin Blank => t[Len(t)] \notin Blank
<1>1. m \in 0 .. Len(s) /\ m + 1 \in 1 .. Len(s)
  OBVIOUS
<1>2. s[m + 1] \in CodePoints
  BY <1>1
<1>3. Uncut(Written(s, m))
  BY <1>1, WrittenUncut
<1>4. Written(s, m + 1) = Then(Written(s, m), Utf8Char(s[m + 1]))
  BY WrittenNext
<1> QED
  BY <1>2, <1>3, <1>4, UncutNext

\* How the bytes of the first k characters and of the first m are related.
Grown(s, k, m) ==
    LET b == Written(s, k)
        t == Written(s, m)
    IN  /\ Len(b) <= Len(t) /\ \A j \in 1 .. Len(b) : t[j] = b[j]
        /\ k < m => Len(b) < Len(t)
        /\ (\A i \in k + 1 .. m : s[i] \in Blank) => \A j \in Len(b) + 1 .. Len(t) : t[j] \in Blank

\* More characters keep the bytes there are, and blank ones add blank bytes.
LEMMA WrittenGrows ==
    ASSUME NEW s \in Seq(CodePoints), NEW k \in 0 .. Len(s), NEW m \in k .. Len(s)
    PROVE  Grown(s, k, m)
<1> DEFINE n == Len(s) - k
           P == {d \in 0 .. n : Grown(s, k, k + d)}
<1>0. \A i \in 0 .. Len(s) : Uncut(Written(s, i)) /\ Len(Written(s, i)) \in Nat
  <2>1. \A i \in 0 .. Len(s) : Uncut(Written(s, i))
    BY WrittenUncut
  <2> QED
    BY <2>1 DEF Uncut
<1>1. 0 \in P
  <2>1. k + 0 = k /\ k \in Nat /\ Len(Written(s, k)) \in Nat
    BY <1>0
  <2> QED
    BY <2>1 DEF Grown
<1>2. ASSUME NEW d \in 1 .. n, d - 1 \in P PROVE d \in P
  <2> DEFINE l == k + (d - 1)
             a == Written(s, k)
             b == Written(s, l)
             t == Written(s, l + 1)
  <2>1. l \in Nat /\ l < Len(s) /\ l + 1 = k + d /\ l \in 0 .. Len(s) /\ l + 1 \in 0 .. Len(s) /\ k <= l
    OBVIOUS
  <2> HIDE DEF l
  <2>2. /\ Len(t) > Len(b) /\ \A j \in 1 .. Len(b) : t[j] = b[j]
        /\ s[l + 1] \in Blank => Len(t) = Len(b) + 1 /\ t[Len(b) + 1] = s[l + 1]
    BY <2>1, WrittenStep
  <2>3. Grown(s, k, l)
    BY <1>2, <2>1 DEF l
  <2>4. Len(a) \in Nat /\ Len(b) \in Nat /\ Len(t) \in Nat
    BY <1>0, <2>1
  <2>5. /\ Len(a) <= Len(b) /\ \A j \in 1 .. Len(a) : b[j] = a[j]
        /\ (\A i \in k + 1 .. l : s[i] \in Blank) => \A j \in Len(a) + 1 .. Len(b) : b[j] \in Blank
    BY <2>3 DEF Grown
  <2> HIDE DEF a, b, t
  <2>6. Len(a) < Len(t)
    BY <2>2, <2>4, <2>5
  <2>7. \A j \in 1 .. Len(a) : t[j] = a[j]
    BY <2>2, <2>4, <2>5
  <2>8. ASSUME \A i \in k + 1 .. l + 1 : s[i] \in Blank, NEW j \in Len(a) + 1 .. Len(t) PROVE t[j] \in Blank
    <3>1. (\A i \in k + 1 .. l : s[i] \in Blank) /\ s[l + 1] \in Blank
      BY <2>1, <2>8
    <3>2. CASE j <= Len(b)
      BY <2>2, <2>4, <2>5, <3>1, <3>2
    <3>3. CASE j > Len(b)
      <4>1. j = Len(b) + 1
        BY <2>2, <2>4, <3>1, <3>3
      <4> QED
        BY <2>2, <3>1, <4>1
    <3> QED
      BY <2>4, <3>2, <3>3
  <2>9. Grown(s, k, l + 1)
    BY <2>4, <2>6, <2>7, <2>8 DEF Grown, a, t
  <2> QED
    BY <2>1, <2>9
<1> HIDE DEF P
<1>3. \A d \in 0 .. n : d \in P
  <2>1. n \in Nat
    OBVIOUS
  <2> HIDE DEF n
  <2> QED
    BY <1>1, <1>2, <2>1, UpTo
<1>4. m - k \in 0 .. n /\ k + (m - k) = m
  OBVIOUS
<1> HIDE DEF n
<1> QED
  BY <1>3, <1>4 DEF P

\* One sequence of numbers after another.
Glued(t, a, b) ==
    /\ t \in Seq(Nat) /\ Len(t) = Len(a) + Len(b)
    /\ \A i \in 1 .. Len(a) : t[i] = a[i]
    /\ \A i \in 1 .. Len(b) : t[Len(a) + i] = b[i]

\* What that is.
LEMMA ThenGlues ==
    ASSUME NEW a \in Seq(Nat), NEW b \in Seq(Nat) PROVE Glued(Then(a, b), a, b)
<1>1. Then(a, b) \in Seq(Nat) /\ Len(Then(a, b)) = Len(a) + Len(b) /\ \A i \in 1 .. Len(a) : Then(a, b)[i] = a[i]
  BY ThenIs
<1>2. \A i \in 1 .. Len(b) : Then(a, b)[Len(a) + i] = b[i]
  BY ThenIs
<1> QED
  BY <1>1, <1>2 DEF Glued

\* Some sequences of numbers.
Lists(q, n) == n \in Nat /\ DOMAIN q = 1 .. n /\ \A i \in 1 .. n : q[i] \in Seq(Nat)

\* The last of them is joined last.
LEMMA JoinOneMore ==
    ASSUME NEW n \in Nat, NEW q, Lists(q, n + 1), NEW p, DOMAIN p = 1 .. n, \A i \in 1 .. n : p[i] = q[i]
    PROVE  Lists(p, n) /\ Join(p) \in Seq(Nat) /\ Join(q) = Then(Join(p), q[n + 1])
<1>1. Join(q) = Then(Join(p), q[n + 1])
  BY JoinLast DEF Lists
<1>2. \A i \in 1 .. n : p[i] \in Seq(Nat)
  BY DEF Lists
<1>3. Lists(p, n)
  BY <1>2 DEF Lists
<1>4. Join(p) \in Seq(Nat)
  BY <1>2, JoinTyped
<1> QED
  BY <1>1, <1>3, <1>4

\* Bytes after whole characters.
Continues(t, b) ==
    /\ b \in Seq(Nat) /\ (Len(b) # 0 => b[Len(b)] # 195)
    /\ t \in Seq(Nat) /\ Len(b) <= Len(t) /\ \A i \in 1 .. Len(b) : t[i] = b[i]

\* What a byte adds is a sequence of numbers.
LEMMA LossyCharTyped ==
    ASSUME NEW b \in Seq(Nat), NEW i \in 1 .. Len(b) PROVE LossyChar(b, i) \in Seq(Nat)
<1>1. b[i] \in Nat /\ <<b[i]>> \in Seq(Nat)
  OBVIOUS
<1>2. <<Wide>> \in Seq(Nat) /\ <<Broken>> \in Seq(Nat) /\ <<>> \in Seq(Nat)
  BY DEF Wide, Broken
<1> QED
  BY <1>1, <1>2 DEF LossyChar

\* What the first bytes add does not depend on those after them, unless they
\* end within a character.
LEMMA LossyFront ==
    ASSUME NEW b, NEW t, Continues(t, b)
    PROVE  [i \in 1 .. Len(b) |-> LossyChar(t, i)] = [i \in DOMAIN b |-> LossyChar(b, i)]
<1>1. DOMAIN b = 1 .. Len(b) /\ Len(b) \in Nat /\ Len(t) \in Nat /\ Len(b) <= Len(t)
  BY DEF Continues
<1>2. ASSUME NEW i \in 1 .. Len(b) PROVE LossyChar(t, i) = LossyChar(b, i)
  <2>1. t[i] = b[i] /\ (i > 1 => t[i - 1] = b[i - 1])
    BY <1>1 DEF Continues
  <2>2. CASE b[i] = 195
    <3>1. i < Len(b) /\ i < Len(t) /\ t[i + 1] = b[i + 1]
      BY <1>1, <2>2 DEF Continues
    <3> QED
      BY <2>1, <2>2, <3>1 DEF LossyChar
  <2>3. CASE b[i] # 195
    BY <2>1, <2>3 DEF LossyChar
  <2> QED
    BY <2>2, <2>3
<1> QED
  BY <1>1, <1>2

\* The character that a byte after whole characters adds.
LEMMA LossyNext ==
    ASSUME NEW b, NEW t, Continues(t, b), Len(t) = Len(b) + 1
    PROVE  Lossy(t) = Then(Lossy(b), LossyChar(t, Len(b) + 1))
<1> DEFINE n == Len(b)
           q == [i \in DOMAIN t |-> LossyChar(t, i)]
           p == [i \in 1 .. n |-> LossyChar(t, i)]
<1>1. n \in Nat /\ DOMAIN t = 1 .. n + 1 /\ Len(t) = n + 1 /\ t \in Seq(Nat)
  BY DEF Continues
<1>2. \A i \in 1 .. n + 1 : q[i] = LossyChar(t, i) /\ q[i] \in Seq(Nat)
  BY <1>1, LossyCharTyped
<1>3. Lists(q, n + 1)
  BY <1>1, <1>2 DEF Lists
<1>4. DOMAIN p = 1 .. n /\ \A i \in 1 .. n : p[i] = q[i]
  BY <1>1, <1>2
<1>5. p = [i \in DOMAIN b |-> LossyChar(b, i)]
  BY LossyFront
<1>6. Lossy(t) = Join(q)
  BY DEF Lossy
<1>7. q[n + 1] = LossyChar(t, n + 1)
  BY <1>1, <1>2
<1>8. Lossy(b) = Join(p)
  BY <1>5 DEF Lossy
<1> HIDE DEF n, p, q
<1>9. Join(q) = Then(Join(p), q[n + 1])
  BY <1>1, <1>3, <1>4, JoinOneMore
<1> QED
  BY <1>6, <1>7, <1>8, <1>9 DEF n

\* Nothing after a sequence.
LEMMA ThenNothing ==
    ASSUME NEW S, NEW a \in Seq(S) PROVE Then(a, <<>>) = a
<1>1. <<>> \in Seq(S) /\ Len(<<>>) = 0 /\ Len(a) \in Nat
  OBVIOUS
<1>2. /\ Then(a, <<>>) \in Seq(S) /\ Len(Then(a, <<>>)) = Len(a) + Len(<<>>)
      /\ \A i \in 1 .. Len(a) : Then(a, <<>>)[i] = a[i]
  BY <1>1, ThenIs
<1>3. Len(Then(a, <<>>)) = Len(a)
  BY <1>1, <1>2
<1> QED
  BY <1>2, <1>3, SeqEqual

\* The character that two bytes after whole characters add.
LEMMA LossyWide ==
    ASSUME NEW b, NEW t, Continues(t, b), Len(t) = Len(b) + 2,
           t[Len(b) + 1] = 195, t[Len(b) + 2] = 169
    PROVE  Lossy(t) = Then(Lossy(b), <<Wide>>)
<1> DEFINE n == Len(b)
           q == [i \in DOMAIN t |-> LossyChar(t, i)]
           p == [i \in 1 .. n + 1 |-> q[i]]
           o == [i \in 1 .. n |-> LossyChar(t, i)]
<1>1. n \in Nat /\ n + 1 \in Nat /\ n + 1 + 1 = n + 2 /\ DOMAIN t = 1 .. n + 2 /\ Len(t) = n + 2 /\ t \in Seq(Nat)
  BY DEF Continues
<1>2. \A i \in 1 .. n + 2 : q[i] = LossyChar(t, i) /\ q[i] \in Seq(Nat)
  BY <1>1, LossyCharTyped
<1>3. DOMAIN q = 1 .. n + 1 + 1
  BY <1>1
<1>4. DOMAIN o = 1 .. n /\ \A i \in 1 .. n : o[i] = p[i]
  BY <1>1, <1>2
<1>5. o = [i \in DOMAIN b |-> LossyChar(b, i)]
  BY LossyFront
<1>6. Lossy(t) = Join(q)
  BY DEF Lossy
<1>7. q[n + 1] = <<Wide>> /\ q[n + 1 + 1] = <<>> /\ p[n + 1] = q[n + 1]
  <2>1. n + 1 \in 1 .. n + 2 /\ n + 2 \in 1 .. n + 2 /\ n + 1 < Len(t) /\ n + 2 > 1 /\ n + 2 - 1 = n + 1
    BY <1>1
  <2>2. LossyChar(t, n + 1) = <<Wide>>
    BY <1>1, <2>1 DEF LossyChar
  <2>3. LossyChar(t, n + 2) = <<>>
    BY <1>1, <2>1 DEF LossyChar
  <2>4. n + 1 \in 1 .. n + 1
    BY <1>1
  <2> HIDE DEF q
  <2>5. p[n + 1] = q[n + 1]
    BY <2>4
  <2> QED
    BY <1>1, <1>2, <2>1, <2>2, <2>3, <2>5
<1>8. Lists(q, n + 1 + 1)
  BY <1>1, <1>2, <1>3 DEF Lists
<1>9. Lossy(b) = Join(o)
  BY <1>5 DEF Lossy
<1>13. DOMAIN p = 1 .. n + 1 /\ \A i \in 1 .. n + 1 : p[i] = q[i]
  <2> HIDE DEF q
  <2> QED
    OBVIOUS
<1> HIDE DEF q, n, p, o
<1>10. Lists(p, n + 1) /\ Join(p) \in Seq(Nat) /\ Join(q) = Then(Join(p), q[n + 1 + 1])
  BY <1>1, <1>8, <1>13, JoinOneMore
<1>11. Join(p) = Then(Join(o), p[n + 1])
  <2>1. n \in Nat /\ Lists(p, n + 1)
    BY <1>1, <1>10
  <2> QED
    BY <1>4, <2>1, JoinOneMore
<1>12. Then(Join(p), <<>>) = Join(p)
  BY <1>10, ThenNothing
<1> QED
  BY <1>6, <1>7, <1>9, <1>10, <1>11, <1>12

\* The characters of the first bytes of a string are its first characters, and
\* half of the next one is a broken character.
LEMMA LossyOfWritten ==
    ASSUME NEW s \in Seq(CodePoints), NEW m \in 0 .. Len(s)
    PROVE  /\ Lossy(Written(s, m)) = Begin(s, m)
           /\ Lossy(Then(Written(s, m), <<195>>)) = Then(Begin(s, m), <<Broken>>)
<1> DEFINE P == {i \in 0 .. Len(s) : Lossy(Written(s, i)) = Begin(s, i)}
<1>1. 0 \in P
  <2>1. Lossy(<<>>) = Join([i \in DOMAIN <<>> |-> LossyChar(<<>>, i)])
    BY DEF Lossy
  <2> DEFINE q == [i \in DOMAIN <<>> |-> LossyChar(<<>>, i)]
  <2>2. DOMAIN q = {}
    OBVIOUS
  <2> HIDE DEF q
  <2>3. Join(q) = <<>>
    BY <2>2, JoinNone
  <2> QED
    BY <2>1, <2>3, WrittenNone, BeginNone DEF q
<1>2. \A i \in 0 .. Len(s) : /\ Written(s, i) \in Seq(Nat)
                             /\ Len(Written(s, i)) # 0 => Written(s, i)[Len(Written(s, i))] # 195
  BY WrittenUncut, NumbersAre DEF Uncut
<1>3. ASSUME NEW i \in 1 .. Len(s), i - 1 \in P PROVE i \in P
  <2> DEFINE b == Written(s, i - 1)
             t == Written(s, i)
             u == Utf8Char(s[i])
             c == s[i]
  <2>1. /\ i - 1 \in Nat /\ i - 1 < Len(s) /\ i - 1 + 1 = i /\ c \in CodePoints
        /\ i \in 0 .. Len(s) /\ i - 1 \in 0 .. Len(s)
    OBVIOUS
  <2>2. t = Then(b, u)
    BY <2>1, WrittenNext
  <2>3. b \in Seq(Nat) /\ t \in Seq(Nat) /\ (Len(b) # 0 => b[Len(b)] # 195)
    BY <1>2, <2>1
  <2>4. /\ u \in Seq(Nat)
        /\ c = Wide => Len(u) = 2 /\ u[1] = 195 /\ u[2] = 169
        /\ c # Wide => Len(u) = 1 /\ u[1] = c /\ c <= 127
    BY <2>1, Utf8CharIs, NumbersAre
  <2>5. Begin(s, i) = Then(Begin(s, i - 1), <<c>>)
    BY <2>1, BeginNext
  <2>6. Lossy(b) = Begin(s, i - 1)
    BY <1>3
  <2>7. c \in Nat
    BY <2>1, NumbersAre
  <2> HIDE DEF b, t, u, c
  <2>8. Glued(t, b, u)
    <3>1. b \in Seq(Nat) /\ u \in Seq(Nat)
      BY <2>3, <2>4
    <3> QED
      BY <2>2, <3>1, ThenGlues
  <2>9. /\ Len(t) = Len(b) + Len(u) /\ Continues(t, b)
        /\ \A j \in 1 .. Len(u) : t[Len(b) + j] = u[j]
    <3>1. Len(b) \in Nat /\ Len(u) \in Nat
      BY <2>3, <2>4
    <3> QED
      BY <2>3, <2>8, <3>1 DEF Glued, Continues
  <2>10. CASE c = Wide
    <3>1. Len(u) = 2 /\ 1 \in 1 .. 2 /\ 2 \in 1 .. 2
      BY <2>4, <2>10
    <3>2. Len(t) = Len(b) + 2 /\ t[Len(b) + 1] = 195 /\ t[Len(b) + 2] = 169
      BY <2>4, <2>9, <2>10, <3>1
    <3>3. Lossy(t) = Then(Lossy(b), <<Wide>>)
      BY <2>9, <3>2, LossyWide
    <3> QED
      BY <2>1, <2>5, <2>6, <2>10, <3>3 DEF t, c
  <2>11. CASE c # Wide
    <3>1. Len(u) = 1 /\ 1 \in 1 .. 1 /\ c <= 127
      BY <2>4, <2>11
    <3>2. Len(t) = Len(b) + 1 /\ t[Len(b) + 1] = c
      BY <2>4, <2>9, <2>11, <3>1
    <3>3. Lossy(t) = Then(Lossy(b), LossyChar(t, Len(b) + 1))
      BY <2>9, <3>2, LossyNext
    <3>4. LossyChar(t, Len(b) + 1) = <<c>>
      BY <2>7, <3>1, <3>2 DEF LossyChar
    <3> QED
      BY <2>1, <2>5, <2>6, <3>3, <3>4 DEF t, c
  <2> QED
    BY <2>10, <2>11
<1> HIDE DEF P
<1>4. \A i \in 0 .. Len(s) : i \in P
  <2>1. Len(s) \in Nat
    OBVIOUS
  <2> QED
    BY <1>1, <1>3, <2>1, UpTo
<1>5. Lossy(Written(s, m)) = Begin(s, m)
  BY <1>4 DEF P
<1>6. Lossy(Then(Written(s, m), <<195>>)) = Then(Begin(s, m), <<Broken>>)
  <2> DEFINE b == Written(s, m)
             x == <<195>>
             t == Then(b, x)
  <2>1. b \in Seq(Nat) /\ (Len(b) # 0 => b[Len(b)] # 195) /\ x \in Seq(Nat) /\ Len(x) = 1 /\ x[1] = 195
    BY <1>2
  <2> HIDE DEF b, x, t
  <2>2. Glued(t, b, x)
    BY <2>1, ThenGlues DEF t
  <2>3. Continues(t, b) /\ Len(t) = Len(b) + 1 /\ \A j \in 1 .. Len(x) : t[Len(b) + j] = x[j]
    BY <2>1, <2>2 DEF Glued, Continues
  <2>4. t[Len(b) + 1] = 195
    BY <2>1, <2>3
  <2>5. Lossy(t) = Then(Lossy(b), LossyChar(t, Len(b) + 1))
    BY <2>3, LossyNext
  <2>6. LossyChar(t, Len(b) + 1) = <<Broken>>
    BY <2>3, <2>4 DEF LossyChar
  <2> QED
    BY <1>5, <2>5, <2>6 DEF t, b, x
<1> QED
  BY <1>5, <1>6

\* The last element that is not blank, if there is one.
EndsAt(s, e) ==
    /\ e \in 0 .. Len(s) /\ (e # 0 => s[e] \notin Blank)
    /\ \A i \in e + 1 .. Len(s) : s[i] \in Blank

\* There always is such an end.
LEMMA EndExists ==
    ASSUME NEW s \in Seq(Nat) PROVE \E e : EndsAt(s, e)
<1> DEFINE EndIn(e, i) == e \in 0 .. i /\ (e # 0 => s[e] \notin Blank) /\ \A j \in e + 1 .. i : s[j] \in Blank
           P == {i \in 0 .. Len(s) : \E e : EndIn(e, i)}
<1>0. Len(s) \in Nat
  OBVIOUS
<1>1. 0 \in P
  <2>1. EndIn(0, 0)
    OBVIOUS
  <2> HIDE DEF EndIn
  <2> QED
    BY <1>0, <2>1
<1>2. ASSUME NEW i \in 1 .. Len(s), i - 1 \in P PROVE i \in P
  <2>1. PICK e : EndIn(e, i - 1)
    BY <1>2
  <2>2. CASE s[i] \in Blank
    <3>1. e \in 0 .. i /\ \A j \in e + 1 .. i : s[j] \in Blank
      BY <1>0, <2>1, <2>2
    <3>2. EndIn(e, i)
      BY <2>1, <3>1
    <3> HIDE DEF EndIn
    <3> QED
      BY <1>0, <3>2
  <2>3. CASE s[i] \notin Blank
    <3>1. EndIn(i, i)
      BY <1>0, <2>3
    <3> HIDE DEF EndIn
    <3> QED
      BY <1>0, <3>1
  <2> QED
    BY <2>2, <2>3
<1> HIDE DEF P
<1>3. Len(s) \in P
  <2>1. \A i \in 0 .. Len(s) : i \in P
    BY <1>0, <1>1, <1>2, UpTo
  <2> QED
    BY <1>0, <2>1
<1>4. PICK e : EndIn(e, Len(s))
  BY <1>3 DEF P
<1> QED
  BY <1>4 DEF EndsAt

\* read_octet_str reads up to there.
LEMMA ReadIs ==
    ASSUME NEW b \in Seq(Nat), NEW e, EndsAt(b, e) PROVE ReadStr(b) = Lossy(Begin(b, e))
<1> DEFINE solid == {i \in DOMAIN b : b[i] \notin Blank}
           last == IF solid = {} THEN 0 ELSE CHOOSE i \in solid : \A j \in solid : j <= i
<1>1. DOMAIN b = 1 .. Len(b) /\ Len(b) \in Nat /\ e \in Nat
  BY DEF EndsAt
<1>2. \A i \in solid : i \in Nat /\ i <= e
  BY <1>1 DEF EndsAt
<1>3. last = e
  <2>1. CASE e = 0
    <3>1. solid = {}
      BY <1>1, <1>2, <2>1
    <3> QED
      BY <2>1, <3>1
  <2>2. CASE e # 0
    <3>1. e \in solid
      BY <1>1, <2>2 DEF EndsAt
    <3> HIDE DEF solid
    <3>2. \A i \in solid : (\A j \in solid : j <= i) => i = e
      BY <1>1, <1>2, <3>1
    <3>3. (CHOOSE i \in solid : \A j \in solid : j <= i) = e
      BY <1>2, <3>1, <3>2
    <3> QED
      BY <3>1, <3>3
  <2> QED
    BY <2>1, <2>2
<1>4. ReadStr(b) = Lossy(SubSeq(b, 1, last))
  BY DEF ReadStr
<1> HIDE DEF last, solid
<1> QED
  BY <1>3, <1>4 DEF Begin

\* Stripping blanks cuts there.
LEMMA StrippedIs ==
    ASSUME NEW s \in Seq(Nat), NEW e, EndsAt(s, e) PROVE Stripped(s) = Begin(s, e)
<1> DEFINE ends == {m \in 0 .. Len(s) : \A i \in m + 1 .. Len(s) : s[i] \in Blank}
<1>1. Len(s) \in Nat /\ e \in 0 .. Len(s) /\ e \in Nat
  BY DEF EndsAt
<1>2. e \in ends
  BY <1>1 DEF EndsAt
<1>3. ASSUME NEW m \in ends PROVE m \in Nat /\ e <= m
  <2>1. m \in Nat
    BY <1>1
  <2>2. ASSUME m < e PROVE FALSE
    <3>1. e \in m + 1 .. Len(s) /\ s[e] \notin Blank
      BY <1>1, <2>1, <2>2 DEF EndsAt
    <3> QED
      BY <3>1
  <2> QED
    BY <1>1, <2>1, <2>2
<1>4. Stripped(s) = SubSeq(s, 1, CHOOSE m \in ends : \A x \in ends : m <= x)
  BY DEF Stripped
<1> HIDE DEF ends
<1>5. \A m \in ends : (\A x \in ends : m <= x) => m = e
  BY <1>1, <1>2, <1>3
<1>6. (CHOOSE m \in ends : \A x \in ends : m <= x) = e
  BY <1>2, <1>3, <1>5
<1> QED
  BY <1>4, <1>6 DEF Begin

\* The characters that fit into n bytes as a whole.
FitsTo(s, n, m) ==
    /\ m \in 0 .. Len(s) /\ Len(Written(s, m)) <= n
    /\ m < Len(s) => Len(Written(s, m + 1)) > n

\* There are lengths to speak of.
LEMMA WrittenTyped ==
    ASSUME NEW s \in Seq(CodePoints)
    PROVE  \A m \in 0 .. Len(s) :
              Written(s, m) \in Seq(Octets) /\ Written(s, m) \in Seq(Nat) /\ Len(Written(s, m)) \in Nat
<1>1. \A m \in 0 .. Len(s) : Written(s, m) \in Seq(Octets)
  BY WrittenUncut DEF Uncut
<1>2. \A m \in 0 .. Len(s) : Written(s, m) \in Seq(Nat)
  BY <1>1, NumbersAre
<1>3. \A m \in 0 .. Len(s) : Len(Written(s, m)) \in Nat
  BY <1>2
<1> QED
  BY <1>1, <1>2, <1>3

\* Some characters are the last that fit.
LEMMA LastFits ==
    ASSUME NEW s \in Seq(CodePoints), NEW n \in Nat PROVE \E m : FitsTo(s, n, m)
<1> DEFINE w(m) == Len(Written(s, m))
           FitIn(m, i) == m \in 0 .. i /\ w(m) <= n /\ (m < i => w(m + 1) > n)
           P == {i \in 0 .. Len(s) : \E m : FitIn(m, i)}
<1>0. Len(s) \in Nat /\ w(0) = 0 /\ \A i \in 0 .. Len(s) : w(i) \in Nat
  BY WrittenNone, WrittenTyped
<1> HIDE DEF w
<1>1. 0 \in P
  <2>1. FitIn(0, 0)
    BY <1>0
  <2> HIDE DEF FitIn
  <2> QED
    BY <1>0, <2>1
<1>2. ASSUME NEW i \in 1 .. Len(s), i - 1 \in P PROVE i \in P
  <2>1. PICK m : FitIn(m, i - 1)
    BY <1>2
  <2>2. CASE m < i - 1 \/ w(i) > n
    <3>1. FitIn(m, i)
      BY <1>0, <2>1, <2>2
    <3> HIDE DEF FitIn
    <3> QED
      BY <1>0, <3>1
  <2>3. CASE ~(m < i - 1 \/ w(i) > n)
    <3>1. w(i) \in Nat
      BY <1>0
    <3>2. FitIn(i, i)
      BY <1>0, <2>3, <3>1
    <3> HIDE DEF FitIn
    <3> QED
      BY <1>0, <3>2
  <2> QED
    BY <2>2, <2>3
<1> HIDE DEF P
<1>3. Len(s) \in P
  <2>1. \A i \in 0 .. Len(s) : i \in P
    BY <1>0, <1>1, <1>2, UpTo
  <2> QED
    BY <1>0, <2>1
<1>4. PICK m : FitIn(m, Len(s))
  BY <1>3 DEF P
<1> QED
  BY <1>4 DEF FitsTo, w

\* Whether the next character is cut in two.
CutIn(s, n, m) == m < Len(s) /\ Len(Written(s, m)) < n

\* What is kept are the characters that fit, and a broken one for the next.
LEMMA KeptIs ==
    ASSUME NEW s \in Seq(CodePoints), NEW n \in Nat, NEW m, FitsTo(s, n, m)
    PROVE  Kept(s, n) = IF CutIn(s, n, m) THEN Then(Begin(s, m), <<Broken>>) ELSE Begin(s, m)
<1> DEFINE fits == Fits(s, n)
<1>1. Len(s) \in Nat /\ m \in 0 .. Len(s) /\ m \in Nat
  BY DEF FitsTo
<1>2. fits = {x \in 0 .. Len(s) : Len(Written(s, x)) <= n}
  BY DEF Fits, Written, Begin
<1>3. m \in fits
  BY <1>1, <1>2 DEF FitsTo
<1>4. ASSUME NEW y \in fits PROVE y \in Nat /\ y <= m
  <2>1. y \in 0 .. Len(s) /\ Len(Written(s, y)) <= n
    BY <1>2
  <2>2. ASSUME y > m PROVE FALSE
    <3>1. m + 1 \in 0 .. Len(s) /\ y \in m + 1 .. Len(s) /\ m < Len(s)
      BY <1>1, <2>1, <2>2
    <3>2. Len(Written(s, m + 1)) <= Len(Written(s, y))
      BY <3>1, WrittenGrows DEF Grown
    <3>3. Len(Written(s, m + 1)) \in Nat /\ Len(Written(s, y)) \in Nat
      BY <2>1, <3>1, WrittenTyped
    <3>4. Len(Written(s, m + 1)) > n
      BY <3>1 DEF FitsTo
    <3> QED
      BY <2>1, <3>2, <3>3, <3>4
  <2> QED
    BY <1>1, <2>1, <2>2
<1> HIDE DEF fits
<1>5. (CHOOSE x \in fits : \A y \in fits : y <= x) = m
  <2>1. \A x \in fits : (\A y \in fits : y <= x) => x = m
    BY <1>1, <1>3, <1>4
  <2> QED
    BY <1>3, <1>4, <2>1
<1>6. Kept(s, n) = Begin(s, m) \o (IF CutIn(s, n, m) THEN <<Broken>> ELSE <<>>)
  BY <1>5 DEF Kept, fits, CutIn, Written, Begin
<1>7. Begin(s, m) \in Seq(CodePoints)
  BY <1>1, BeginIs
<1>8. Then(Begin(s, m), <<>>) = Begin(s, m)
  BY <1>7, ThenNothing
<1> QED
  BY <1>6, <1>8 DEF Then

\* What does not fit although there is room has two bytes and room for one.
LEMMA RoomForOne ==
    ASSUME NEW a \in Nat, NEW n \in Nat, NEW c \in {1, 2}, a + c > n, a < n PROVE c = 2 /\ n = a + 1
OBVIOUS

\* The same of bytes.
LEMMA ThenOctets ==
    ASSUME NEW a \in Seq(Octets), NEW b \in Seq(Octets)
    PROVE  Then(a, b) \in Seq(Octets) /\ Glued(Then(a, b), a, b)
<1>1. a \in Seq(Nat) /\ b \in Seq(Nat)
  BY NumbersAre
<1>2. Then(a, b) \in Seq(Octets)
  BY ThenIs
<1> QED
  BY <1>1, <1>2, ThenGlues

\* put_octet_str writes the bytes of what fits, then half a character or NULs.
LEMMA PutShape ==
    ASSUME NEW s \in Seq(CodePoints), NEW n \in Nat, NEW m, FitsTo(s, n, m)
    PROVE  /\ PutStr(s, n) \in Seq(Octets) /\ Len(PutStr(s, n)) = n
           /\ CutIn(s, n, m) => PutStr(s, n) = Then(Written(s, m), <<195>>)
           /\ ~CutIn(s, n, m) =>
                 /\ \A j \in 1 .. Len(Written(s, m)) : PutStr(s, n)[j] = Written(s, m)[j]
                 /\ \A j \in Len(Written(s, m)) + 1 .. n : PutStr(s, n)[j] = 0
<1> DEFINE b == Utf8Bytes(s)
           w == Written(s, m)
           p == PutStr(s, n)
<1>1. /\ Len(s) \in Nat /\ m \in 0 .. Len(s) /\ m \in Nat /\ Len(w) <= n
      /\ m < Len(s) => Len(Written(s, m + 1)) > n
  BY DEF FitsTo
<1>2. b = Written(s, Len(s))
  BY BeginAll DEF Written
<1>3. b \in Seq(Octets) /\ Len(b) \in Nat /\ w \in Seq(Octets) /\ Len(w) \in Nat
  BY <1>1, <1>2, WrittenTyped
<1>4. Len(w) <= Len(b) /\ \A j \in 1 .. Len(w) : b[j] = w[j]
  <2>1. Grown(s, m, Len(s))
    BY <1>1, WrittenGrows
  <2> QED
    BY <1>2, <2>1 DEF Grown
<1>5. p = IF Len(b) >= n THEN SubSeq(b, 1, n) ELSE b \o Rep(Nul, n - Len(b))
  BY DEF PutStr
<1>6. CASE m < Len(s)
  <2> DEFINE t == Written(s, m + 1)
             u == Utf8Char(s[m + 1])
  <2>1. m + 1 \in 0 .. Len(s) /\ s[m + 1] \in CodePoints
    BY <1>1, <1>6
  <2>2. t = Then(w, u)
    BY <1>1, <1>6, WrittenNext
  <2>3. u \in Seq(Octets) /\ (Len(u) = 1 \/ (Len(u) = 2 /\ u[1] = 195))
    <3> DEFINE c == s[m + 1]
    <3>1. c \in CodePoints
      BY <2>1
    <3> HIDE DEF c
    <3>2. /\ Utf8Char(c) \in Seq(Octets)
          /\ c = Wide => Len(Utf8Char(c)) = 2 /\ Utf8Char(c)[1] = 195
          /\ c # Wide => Len(Utf8Char(c)) = 1
      BY <3>1, Utf8CharIs
    <3> QED
      BY <3>2 DEF c
  <2>4. /\ Len(t) <= Len(b) /\ \A j \in 1 .. Len(t) : b[j] = t[j]
    <3>1. Grown(s, m + 1, Len(s))
      BY <1>1, <2>1, WrittenGrows
    <3> QED
      BY <1>2, <3>1 DEF Grown
  <2>5. Len(t) > n
    BY <1>1, <1>6
  <2> HIDE DEF t, u, w, b, p
  <2>0. t \in Seq(Octets) /\ Glued(t, w, u)
    <3>1. w \in Seq(Octets) /\ u \in Seq(Octets)
      BY <1>3, <2>3
    <3> QED
      BY <2>2, <3>1, ThenOctets
  <2>6. Len(t) = Len(w) + Len(u) /\ \A j \in 1 .. Len(w) : t[j] = w[j]
    BY <2>0 DEF Glued
  <2>7. \A j \in 1 .. Len(u) : t[Len(w) + j] = u[j]
    BY <2>0 DEF Glued
  <2>8. Len(b) >= n /\ n \in 0 .. Len(b)
    BY <1>3, <2>3, <2>4, <2>5, <2>6
  <2>9. p = Begin(b, n)
    BY <1>5, <2>8 DEF Begin
  <2>10. p \in Seq(Octets) /\ Len(p) = n /\ \A j \in 1 .. n : p[j] = b[j]
    BY <1>3, <2>8, <2>9, BeginIs
  <2>11. CASE Len(w) < n
    <3>0. Len(w) + Len(u) > n
      BY <2>5, <2>6
    <3>11. Len(w) \in Nat
      BY <1>3
    <3>12. Len(u) \in {1, 2}
      BY <2>3
    <3>1. Len(u) = 2 /\ n = Len(w) + 1
      BY <2>11, <3>0, <3>11, <3>12, RoomForOne
    <3>2. 1 \in 1 .. Len(u) /\ n \in 1 .. Len(t)
      BY <1>3, <2>6, <3>1
    <3>3. b[n] = 195
      BY <2>3, <2>4, <2>7, <3>1, <3>2
    <3> DEFINE x == <<195>>
               r == Then(w, x)
    <3>4. x \in Seq(Octets) /\ Len(x) = 1 /\ x[1] = 195
      BY DEF Octets
    <3> HIDE DEF x, r
    <3>10. r \in Seq(Octets) /\ Glued(r, w, x)
      <4>1. w \in Seq(Octets) /\ x \in Seq(Octets)
        BY <1>3, <3>4
      <4> QED
        BY <4>1, ThenOctets DEF r
    <3>5. r \in Seq(Octets) /\ Len(r) = Len(w) + Len(x) /\ \A j \in 1 .. Len(w) : r[j] = w[j]
      BY <3>10 DEF Glued
    <3>6. \A j \in 1 .. Len(x) : r[Len(w) + j] = x[j]
      BY <3>10 DEF Glued
    <3>7. Len(r) = n
      BY <3>1, <3>4, <3>5
    <3>8. ASSUME NEW j \in 1 .. n PROVE r[j] = p[j]
      <4>1. CASE j = n
        BY <2>10, <3>1, <3>3, <3>4, <3>6, <4>1
      <4>2. CASE j # n
        <5>1. j \in 1 .. Len(w)
          BY <1>3, <3>1, <4>2
        <5> QED
          BY <1>4, <2>10, <3>5, <5>1
      <4> QED
        BY <4>1, <4>2
    <3>9. r = p
      BY <2>10, <3>5, <3>7, <3>8, SeqEqual
    <3> QED
      BY <1>6, <2>10, <2>11, <3>9 DEF p, r, w, x, CutIn
  <2>12. CASE ~(Len(w) < n)
    <3>1. Len(w) = n
      BY <1>1, <1>3, <2>12
    <3>2. \A j \in 1 .. Len(w) : p[j] = w[j]
      BY <1>4, <2>10, <3>1
    <3>3. \A j \in Len(w) + 1 .. n : FALSE
      BY <3>1
    <3> QED
      BY <2>10, <2>12, <3>2, <3>3 DEF p, w, CutIn
  <2> QED
    BY <2>11, <2>12
<1>7. CASE ~(m < Len(s))
  <2>1. w = b
    <3>1. m = Len(s)
      BY <1>1, <1>7
    <3> QED
      BY <1>2, <3>1
  <2> DEFINE z == Rep(Nul, n - Len(b))
  <2>2. n - Len(b) \in Nat
    BY <1>1, <1>3, <2>1
  <2>3. z \in Seq(Octets) /\ Len(z) = n - Len(b) /\ \A j \in 1 .. n - Len(b) : z[j] = 0
    <3> DEFINE l == n - Len(b)
    <3> HIDE DEF l, b
    <3>1. [i \in 1 .. l |-> 0] \in Seq(Octets) /\ Len([i \in 1 .. l |-> 0]) = l
      BY <2>2 DEF l, Octets
    <3> QED
      BY <3>1 DEF l, Rep, Nul
  <2> HIDE DEF z, b, w, p
  <2>10. Then(b, z) \in Seq(Octets) /\ Glued(Then(b, z), b, z)
    BY <1>3, <2>3, ThenOctets
  <2>4. Then(b, z) \in Seq(Octets) /\ Len(Then(b, z)) = Len(b) + Len(z) /\ \A j \in 1 .. Len(b) : Then(b, z)[j] = b[j]
    BY <2>10 DEF Glued
  <2>5. \A j \in 1 .. Len(z) : Then(b, z)[Len(b) + j] = z[j]
    BY <2>10 DEF Glued
  <2>6. p = Then(b, z)
    <3>1. CASE Len(b) >= n
      <4>1. Len(b) = n
        BY <1>3, <2>2, <3>1
      <4>2. p = Begin(b, Len(b))
        BY <1>5, <4>1 DEF Begin
      <4>3. p = b
        BY <1>3, <4>2, BeginAll
      <4>4. Len(z) = 0
        BY <2>3, <4>1
      <4>5. z = <<>>
        BY <2>3, <4>4
      <4> QED
        BY <1>3, <4>3, <4>5, ThenNothing
    <3>2. CASE ~(Len(b) >= n)
      BY <1>5, <3>2 DEF z, Then
    <3> QED
      BY <3>1, <3>2
  <2>7. Len(p) = n
    BY <1>3, <2>2, <2>3, <2>4, <2>6
  <2>8. ASSUME NEW j \in Len(b) + 1 .. n PROVE p[j] = 0
    <3>1. j - Len(b) \in 1 .. n - Len(b) /\ Len(b) + (j - Len(b)) = j
      BY <1>3
    <3> QED
      BY <2>3, <2>5, <2>6, <3>1
  <2>9. p \in Seq(Octets) /\ \A j \in 1 .. Len(b) : p[j] = b[j]
    BY <2>4, <2>6
  <2> QED
    BY <1>7, <2>1, <2>7, <2>8, <2>9 DEF p, w, CutIn
<1> QED
  BY <1>6, <1>7

\* The first characters up to the last that is not blank: their bytes end with
\* the last byte that is not blank.
LEMMA WrittenEnds ==
    ASSUME NEW s \in Seq(CodePoints), NEW m \in 0 .. Len(s), NEW k, EndsAt(Begin(s, m), k),
           NEW p \in Seq(Nat), Len(p) >= Len(Written(s, m)),
           \A j \in 1 .. Len(Written(s, m)) : p[j] = Written(s, m)[j],
           \A j \in Len(Written(s, m)) + 1 .. Len(p) : p[j] = 0
    PROVE  EndsAt(p, Len(Written(s, k))) /\ Begin(p, Len(Written(s, k))) = Written(s, k)
<1> DEFINE w == Written(s, m)
           v == Written(s, k)
<1>1. Len(s) \in Nat /\ m \in Nat /\ k \in Nat /\ k \in 0 .. m /\ k \in 0 .. Len(s)
      /\ (k # 0 => s[k] \notin Blank) /\ \A i \in k + 1 .. m : s[i] \in Blank
  <2>1. Len(Begin(s, m)) = m /\ \A i \in 1 .. m : Begin(s, m)[i] = s[i]
    BY BeginIs
  <2>2. m \in Nat /\ m <= Len(s) /\ Len(s) \in Nat
    OBVIOUS
  <2> QED
    BY <2>1, <2>2 DEF EndsAt
<1>2. w \in Seq(Nat) /\ v \in Seq(Nat) /\ Len(w) \in Nat /\ Len(v) \in Nat
  BY <1>1, WrittenTyped
<1>3. /\ Len(v) <= Len(w) /\ \A j \in 1 .. Len(v) : w[j] = v[j]
      /\ \A j \in Len(v) + 1 .. Len(w) : w[j] \in Blank
  <2>1. m \in k .. Len(s)
    BY <1>1
  <2>2. Grown(s, k, m)
    BY <1>1, <2>1, WrittenGrows
  <2> QED
    BY <1>1, <2>2 DEF Grown
<1>4. Len(v) # 0 => v[Len(v)] \notin Blank
  <2>1. CASE k = 0
    <3>1. Len(v) = 0
      BY <2>1, WrittenNone
    <3> QED
      BY <3>1
  <2>2. CASE k # 0
    <3>1. k - 1 \in Nat /\ k - 1 < Len(s) /\ k - 1 + 1 = k
      BY <1>1, <2>2
    <3>2. s[k] \notin Blank
      BY <1>1, <2>2
    <3> QED
      BY <3>1, <3>2, WrittenStep
  <2> QED
    BY <2>1, <2>2
<1> HIDE DEF w, v
<1>5. Len(v) \in 0 .. Len(p) /\ \A j \in 1 .. Len(v) : p[j] = v[j]
  BY <1>2, <1>3 DEF w
<1>6. Len(v) # 0 => p[Len(v)] \notin Blank
  BY <1>2, <1>4, <1>5
<1>7. ASSUME NEW j \in Len(v) + 1 .. Len(p) PROVE p[j] \in Blank
  <2>1. CASE j <= Len(w)
    BY <1>2, <1>3, <2>1 DEF w
  <2>2. CASE j > Len(w)
    <3>1. p[j] = 0
      BY <1>2, <2>2 DEF w
    <3> QED
      BY <3>1 DEF Blank, Nul
  <2> QED
    BY <1>2, <2>1, <2>2
<1>8. EndsAt(p, Len(v))
  BY <1>5, <1>6, <1>7 DEF EndsAt
<1>9. v = Begin(p, Len(v))
  BY <1>2, <1>5, IsBegin
<1> QED
  BY <1>8, <1>9 DEF v

\* A string that was put into a field is read as what the field can keep of it.
LEMMA StrRoundTrip ==
    ASSUME NEW s \in Seq(CodePoints), NEW n \in Nat
    PROVE  /\ PutStr(s, n) \in Seq(Octets) /\ Len(PutStr(s, n)) = n
           /\ ReadStr(PutStr(s, n)) = Stripped(Kept(s, n))
<1>1. PICK m : FitsTo(s, n, m)
  BY LastFits
<1> DEFINE p == PutStr(s, n)
           w == Written(s, m)
           b == Begin(s, m)
<1>2. p \in Seq(Octets) /\ p \in Seq(Nat) /\ Len(p) = n
  BY <1>1, PutShape, NumbersAre
<1>3. m \in 0 .. Len(s) /\ m \in Nat /\ Len(w) <= n
  BY <1>1 DEF FitsTo
<1>4. b \in Seq(CodePoints) /\ b \in Seq(Nat) /\ Len(b) = m
  BY <1>3, BeginIs, NumbersAre
<1>5. w \in Seq(Nat) /\ Len(w) \in Nat
  BY <1>3, WrittenTyped
<1>6. CASE CutIn(s, n, m)
  <2> DEFINE x == <<195>>
             y == <<Broken>>
             q == Then(b, y)
  <2>1. p = Then(w, x)
    BY <1>1, <1>6, PutShape
  <2>2. Kept(s, n) = q
    BY <1>1, <1>6, KeptIs
  <2>3. Lossy(p) = q
    BY <1>3, <2>1, LossyOfWritten
  <2>4. x \in Seq(Nat) /\ Len(x) = 1 /\ x[1] = 195 /\ y \in Seq(Nat) /\ Len(y) = 1 /\ y[1] = Broken
    BY DEF Broken
  <2> HIDE DEF x, y, q, p, w, b
  <2>5. Glued(p, w, x)
    BY <1>5, <2>1, <2>4, ThenGlues
  <2>6. Glued(q, b, y)
    BY <1>4, <2>4, ThenGlues DEF q
  <2>7. EndsAt(p, Len(p))
    <3>1. Len(p) = Len(w) + 1 /\ p[Len(w) + 1] = 195
      BY <2>4, <2>5 DEF Glued
    <3>2. 195 \notin Blank
      BY DEF Blank, Nul
    <3> QED
      BY <1>2, <3>1, <3>2 DEF EndsAt
  <2>8. q \in Seq(Nat) /\ EndsAt(q, Len(q))
    <3>1. q \in Seq(Nat) /\ Len(q) = Len(b) + 1 /\ q[Len(b) + 1] = Broken
      BY <2>4, <2>6 DEF Glued
    <3>2. Broken \notin Blank
      BY DEF Blank, Nul, Broken
    <3> QED
      BY <3>1, <3>2 DEF EndsAt
  <2>9. ReadStr(p) = Lossy(p)
    <3>1. Begin(p, Len(p)) = p
      BY <1>2, BeginAll
    <3> QED
      BY <1>2, <2>7, <3>1, ReadIs
  <2>10. Stripped(q) = q
    <3>1. Begin(q, Len(q)) = q
      BY <2>8, BeginAll
    <3> QED
      BY <2>8, <3>1, StrippedIs
  <2> QED
    BY <1>2, <2>2, <2>3, <2>9, <2>10 DEF p
<1>7. CASE ~CutIn(s, n, m)
  <2>1. Kept(s, n) = b
    BY <1>1, <1>7, KeptIs
  <2>2. PICK k : EndsAt(b, k)
    BY <1>4, EndExists
  <2>3. /\ \A j \in 1 .. Len(w) : p[j] = w[j]
        /\ \A j \in Len(w) + 1 .. Len(p) : p[j] = 0
    BY <1>1, <1>2, <1>7, PutShape
  <2>4. EndsAt(p, Len(Written(s, k))) /\ Begin(p, Len(Written(s, k))) = Written(s, k)
    <3>1. Len(p) >= Len(w)
      BY <1>2, <1>3, <1>5
    <3> HIDE DEF p
    <3> QED
      BY <1>2, <1>3, <2>2, <2>3, <3>1, WrittenEnds
  <2>5. k \in 0 .. m /\ k \in 0 .. Len(s)
    BY <1>3, <1>4, <2>2 DEF EndsAt
  <2>6. ReadStr(p) = Begin(s, k)
    <3>1. ReadStr(p) = Lossy(Written(s, k))
      BY <1>2, <2>4, ReadIs
    <3> QED
      BY <2>5, <3>1, LossyOfWritten
  <2>7. Begin(s, k) = Begin(b, k)
    <3> DEFINE a == Begin(s, k)
    <3>1. a \in Seq(CodePoints) /\ Len(a) = k /\ \A i \in 1 .. k : a[i] = s[i]
      BY <2>5, BeginIs
    <3>2. \A i \in 1 .. m : b[i] = s[i]
      BY <1>3, BeginIs
    <3> HIDE DEF a, b
    <3>3. Len(a) <= Len(b) /\ \A i \in 1 .. Len(a) : a[i] = b[i]
      BY <1>3, <1>4, <2>5, <3>1, <3>2
    <3>4. a = Begin(b, Len(a))
      BY <1>4, <3>1, <3>3, IsBegin
    <3> QED
      BY <3>1, <3>4 DEF a
  <2>8. Stripped(b) = Begin(b, k)
    BY <1>4, <2>2, StrippedIs
  <2> QED
    BY <1>2, <2>1, <2>6, <2>7, <2>8
<1> QED
  BY <1>6, <1>7

-----------------------------------------------------------------------------
\* PduCodec: what a field is written as

\* The fields there are.
IsField(f) ==
    /\ f.type \in {"raw", "str", "dests", "content", "reserved"} /\ f.width \in Nat
    /\ f.type = "dests" => f.width = 21

\* Its count fits its byte.
Countable(f, x) == f.type \in {"dests", "content"} => Len(x) <= Max8

\* The bytes it takes.
FieldSize(f, x) ==
    CASE f.type \in {"raw", "str", "reserved"} -> f.width
      [] f.type = "dests"   -> 1 + 21 * Len(x)
      [] f.type = "content" -> 1 + Len(x)

\* The place of a byte among strings of 21 bytes.
LEMMA Places ==
    /\ \A i \in Nat \ {0}, j \in 1 .. 21 :
          1 + (((i - 1) * 21 + j - 1) \div 21) = i /\ 1 + (((i - 1) * 21 + j - 1) % 21) = j
    /\ \A n \in Nat : \A j \in 1 .. 21 * n : /\ 1 + ((j - 1) \div 21) \in 1 .. n /\ 1 + ((j - 1) % 21) \in 1 .. 21
<1>1. ASSUME NEW i \in Nat \ {0}, NEW j \in 1 .. 21
      PROVE  1 + (((i - 1) * 21 + j - 1) \div 21) = i /\ 1 + (((i - 1) * 21 + j - 1) % 21) = j
  OBVIOUS
<1>2. ASSUME NEW n \in Nat, NEW j \in 1 .. 21 * n
      PROVE  1 + ((j - 1) \div 21) \in 1 .. n /\ 1 + ((j - 1) % 21) \in 1 .. 21
  OBVIOUS
<1> QED
  BY <1>1, <1>2

\* The destinations are written one after the other.
LEMMA PutStrsIs ==
    ASSUME NEW x \in Seq(Seq(CodePoints))
    PROVE  /\ PutStrs(x, 21) \in Seq(Octets) /\ Len(PutStrs(x, 21)) = 21 * Len(x)
           /\ \A i \in 1 .. Len(x), j \in 1 .. 21 : PutStrs(x, 21)[(i - 1) * 21 + j] = PutStr(x[i], 21)[j]
<1> DEFINE n == Len(x)
           put == [i \in 1 .. n |-> PutStr(x[i], 21)]
           p == [j \in 1 .. 21 * n |-> put[1 + ((j - 1) \div 21)][1 + ((j - 1) % 21)]]
<1>1. n \in Nat /\ DOMAIN x = 1 .. n /\ \A i \in 1 .. n : x[i] \in Seq(CodePoints)
  OBVIOUS
<1>2. PutStrs(x, 21) = p
  BY <1>1 DEF PutStrs
<1> HIDE DEF n
<1>3. \A i \in 1 .. n : put[i] = PutStr(x[i], 21) /\ put[i] \in Seq(Octets) /\ Len(put[i]) = 21
  BY <1>1, StrRoundTrip
<1> HIDE DEF put
<1>4. \A i \in 1 .. n, j \in 1 .. 21 : put[i][j] \in Octets
  BY <1>3
<1>5. ASSUME NEW j \in 1 .. 21 * n PROVE p[j] \in Octets
  <2>1. 1 + ((j - 1) \div 21) \in 1 .. n /\ 1 + ((j - 1) % 21) \in 1 .. 21
    BY <1>1, Places
  <2> QED
    BY <1>4, <2>1
<1>6. 21 * n \in Nat
  BY <1>1
<1>7. p \in Seq(Octets) /\ Len(p) = 21 * n
  <2> DEFINE l == 21 * n
  <2>1. p \in [1 .. l -> Octets] /\ l \in Nat
    BY <1>5, <1>6
  <2> HIDE DEF p, l
  <2> QED
    BY <2>1 DEF l
<1>8. ASSUME NEW i \in 1 .. n, NEW j \in 1 .. 21 PROVE p[(i - 1) * 21 + j] = PutStr(x[i], 21)[j]
  <2> DEFINE k == (i - 1) * 21 + j
  <2>1. k \in 1 .. 21 * n
    BY <1>1
  <2>2. 1 + ((k - 1) \div 21) = i /\ 1 + ((k - 1) % 21) = j
    <3>1. i \in Nat \ {0} /\ k - 1 = (i - 1) * 21 + j - 1
      BY <1>1
    <3> QED
      BY <3>1, Places
  <2> HIDE DEF k
  <2>3. p[k] = put[i][j]
    BY <2>1, <2>2
  <2> QED
    BY <1>3, <2>3 DEF k
<1> HIDE DEF p
<1> QED
  BY <1>2, <1>7, <1>8 DEF n

\* A count that fits a byte.
LEMMA CountIsOctet == \A m \in Nat : m <= 255 => m \in Octets
  BY DEF Octets

\* A counted field has its count before it.
LEMMA CountedIs ==
    ASSUME NEW n \in Octets, NEW x \in Seq(Octets)
    PROVE  /\ <<n>> \o x \in Seq(Octets) /\ Len(<<n>> \o x) = 1 + Len(x) /\ (<<n>> \o x)[1] = n
           /\ \A j \in 1 .. Len(x) : (<<n>> \o x)[1 + j] = x[j]
<1> DEFINE a == <<n>>
           t == Then(a, x)
<1>1. a \in Seq(Octets) /\ Len(a) = 1 /\ a[1] = n
  OBVIOUS
<1> HIDE DEF a, t
<1>2. t \in Seq(Octets) /\ Glued(t, a, x)
  BY <1>1, ThenOctets DEF t
<1>3. /\ Len(t) = 1 + Len(x) /\ t[1] = n
      /\ \A j \in 1 .. Len(x) : t[1 + j] = x[j]
  BY <1>1, <1>2 DEF Glued
<1>4. t = <<n>> \o x
  BY DEF t, a, Then
<1> QED
  BY <1>2, <1>3, <1>4

\* A fixed width of one byte.
LEMMA RepIs ==
    ASSUME NEW n \in Nat PROVE Rep(0, n) \in Seq(Octets) /\ Len(Rep(0, n)) = n
<1>1. [i \in 1 .. n |-> 0] \in Seq(Octets) /\ Len([i \in 1 .. n |-> 0]) = n
  BY DEF Octets
<1> QED
  BY <1>1 DEF Rep

\* What is written for a field are as many bytes as it takes.
LEMMA EncodeFieldIs ==
    ASSUME NEW f, IsField(f), NEW x \in FieldValues(f), Countable(f, x)
    PROVE  /\ EncodeField(f, x) \in Seq(Octets) /\ Len(EncodeField(f, x)) = FieldSize(f, x)
           /\ FieldSize(f, x) \in Nat
<1>0. f.width \in Nat
  BY DEF IsField
<1>1. CASE f.type = "raw"
  <2>1. x \in [1 .. f.width -> Octets]
    BY <1>1 DEF FieldValues
  <2>2. x \in Seq(Octets) /\ Len(x) = f.width
    BY <1>0, <2>1
  <2> QED
    BY <1>0, <1>1, <2>2 DEF EncodeField, FieldSize
<1>2. CASE f.type = "str"
  <2>1. x \in Seq(CodePoints)
    BY <1>2 DEF FieldValues
  <2>2. PutStr(x, f.width) \in Seq(Octets) /\ Len(PutStr(x, f.width)) = f.width
    BY <1>0, <2>1, StrRoundTrip
  <2> QED
    BY <1>0, <1>2, <2>2 DEF EncodeField, FieldSize
<1>3. CASE f.type = "dests"
  <2>1. x \in Seq(Seq(CodePoints)) /\ f.width = 21
    BY <1>3 DEF FieldValues, IsField
  <2>2. Len(x) \in Nat /\ Len(x) \in Octets
    <3>1. Len(x) \in Nat
      BY <2>1
    <3>2. Len(x) <= 255
      BY <1>3 DEF Countable, Max8
    <3> QED
      BY <3>1, <3>2, CountIsOctet
  <2> DEFINE p == PutStrs(x, 21)
  <2>3. p \in Seq(Octets) /\ Len(p) = 21 * Len(x)
    BY <2>1, PutStrsIs
  <2> HIDE DEF p
  <2>4. <<Len(x)>> \o p \in Seq(Octets) /\ Len(<<Len(x)>> \o p) = 1 + Len(p)
    BY <2>2, <2>3, CountedIs
  <2>5. EncodeField(f, x) = <<Len(x)>> \o p
    BY <1>3, <2>1 DEF EncodeField, p
  <2>6. FieldSize(f, x) = 1 + 21 * Len(x) /\ 1 + 21 * Len(x) \in Nat
    BY <1>3, <2>2 DEF FieldSize
  <2> QED
    BY <2>3, <2>4, <2>5, <2>6
<1>4. CASE f.type = "content"
  <2>1. x \in Seq(Octets)
    BY <1>4 DEF FieldValues
  <2>2. Len(x) \in Nat /\ Len(x) \in Octets
    <3>1. Len(x) \in Nat
      BY <2>1
    <3>2. Len(x) <= 255
      BY <1>4 DEF Countable, Max8
    <3> QED
      BY <3>1, <3>2, CountIsOctet
  <2>4. <<Len(x)>> \o x \in Seq(Octets) /\ Len(<<Len(x)>> \o x) = 1 + Len(x)
    BY <2>1, <2>2, CountedIs
  <2>5. EncodeField(f, x) = <<Len(x)>> \o x
    BY <1>4 DEF EncodeField
  <2>6. FieldSize(f, x) = 1 + Len(x) /\ 1 + Len(x) \in Nat
    BY <1>4, <2>2 DEF FieldSize
  <2> QED
    BY <2>4, <2>5, <2>6
<1>5. CASE f.type = "reserved"
  <2>1. EncodeField(f, x) = Rep(0, f.width) /\ FieldSize(f, x) = f.width
    BY <1>5 DEF EncodeField, FieldSize
  <2> QED
    BY <1>0, <2>1, RepIs
<1> QED
  BY <1>1, <1>2, <1>3, <1>4, <1>5 DEF IsField

-----------------------------------------------------------------------------
\* PduCodec: where a field is in the body

\* Where each of the joined sequences ends, and what is there.
Laid(t, q, l, n) ==
    /\ t \in Seq(Octets) /\ n \in Nat /\ l \in [0 .. n -> Nat] /\ l[0] = 0 /\ Len(t) = l[n]
    /\ \A i \in 1 .. n : l[i] = l[i - 1] + Len(q[i]) /\ l[i] <= l[n]
    /\ \A i \in 1 .. n : \A j \in 1 .. Len(q[i]) : t[l[i - 1] + j] = q[i][j]

\* A sequence keeps its place when another one comes after it.
LEMMA ThenKeeps ==
    ASSUME NEW a \in Seq(Octets), NEW b \in Seq(Octets), NEW k \in Nat, NEW x \in Seq(Octets),
           k + Len(x) <= Len(a), \A j \in 1 .. Len(x) : a[k + j] = x[j]
    PROVE  \A j \in 1 .. Len(x) : Then(a, b)[k + j] = x[j]
<1>1. Glued(Then(a, b), a, b) /\ Len(a) \in Nat /\ Len(x) \in Nat
  BY ThenOctets
<1>2. ASSUME NEW j \in 1 .. Len(x) PROVE Then(a, b)[k + j] = x[j]
  <2>1. k + j \in 1 .. Len(a)
    BY <1>1
  <2>2. \A i \in 1 .. Len(a) : Then(a, b)[i] = a[i]
    BY <1>1 DEF Glued
  <2> QED
    BY <2>1, <2>2
<1> QED
  BY <1>2

\* Joined sequences are found one after the other.
LEMMA JoinLaid ==
    ASSUME NEW n \in Nat, NEW q, DOMAIN q = 1 .. n, \A i \in 1 .. n : q[i] \in Seq(Octets)
    PROVE  \E l : Laid(Join(q), q, l, n)
<1>1. PICK c : Joins(c, Octets, q, n)
  BY JoinChain
<1> DEFINE l == [i \in 0 .. n |-> Len(c[i])]
           At(m, i) == \A j \in 1 .. Len(q[i]) : c[m][l[i - 1] + j] = q[i][j]
           P == {m \in 0 .. n : \A i \in 1 .. m : l[i] <= l[m] /\ At(m, i)}
<1>2. c \in [0 .. n -> Seq(Octets)] /\ c[0] = <<>> /\ Join(q) = c[n] /\ \A i \in 1 .. n : c[i] = Then(c[i - 1], q[i])
  BY <1>1 DEF Joins
<1>3. l \in [0 .. n -> Nat] /\ \A i \in 0 .. n : l[i] = Len(c[i]) /\ c[i] \in Seq(Octets) /\ l[i] \in Nat
  BY <1>2
<1>4. l[0] = 0
  BY <1>2, <1>3
<1> HIDE DEF l
<1>5. ASSUME NEW i \in 1 .. n
      PROVE  /\ i - 1 \in 0 .. n /\ i \in 0 .. n /\ c[i - 1] \in Seq(Octets) /\ q[i] \in Seq(Octets)
             /\ Len(q[i]) \in Nat
             /\ l[i] = l[i - 1] + Len(q[i]) /\ \A j \in 1 .. Len(q[i]) : c[i][l[i - 1] + j] = q[i][j]
  <2>1. i - 1 \in 0 .. n /\ i \in 0 .. n
    OBVIOUS
  <2>2. c[i - 1] \in Seq(Octets) /\ q[i] \in Seq(Octets) /\ c[i] = Then(c[i - 1], q[i])
    BY <1>2, <1>3, <2>1
  <2>3. Glued(c[i], c[i - 1], q[i])
    BY <2>2, ThenOctets
  <2>4. l[i - 1] = Len(c[i - 1]) /\ l[i] = Len(c[i])
    BY <1>3, <2>1
  <2>5. Len(q[i]) \in Nat
    BY <2>2
  <2> QED
    BY <2>1, <2>2, <2>3, <2>4, <2>5 DEF Glued
<1> HIDE DEF At
<1>6. 0 \in P
  OBVIOUS
<1>7. ASSUME NEW m \in 1 .. n, m - 1 \in P PROVE m \in P
  <2>1. /\ m \in 0 .. n /\ m - 1 \in 0 .. n /\ c[m] = Then(c[m - 1], q[m]) /\ c[m - 1] \in Seq(Octets)
        /\ q[m] \in Seq(Octets) /\ l[m] = l[m - 1] + Len(q[m]) /\ Len(q[m]) \in Nat
        /\ l[m] \in Nat /\ l[m - 1] \in Nat /\ l[m - 1] = Len(c[m - 1])
    BY <1>2, <1>3, <1>5
  <2>2. \A i \in 1 .. m - 1 : l[i] <= l[m - 1] /\ At(m - 1, i)
    BY <1>7
  <2> HIDE DEF P
  <2>3. ASSUME NEW i \in 1 .. m - 1 PROVE l[i] <= l[m] /\ At(m, i)
    <3>1. i \in 1 .. n /\ i \in 0 .. n /\ i - 1 \in 0 .. n
      OBVIOUS
    <3>2. l[i] \in Nat /\ l[i - 1] \in Nat /\ q[i] \in Seq(Octets) /\ l[i] = l[i - 1] + Len(q[i])
      BY <1>3, <1>5, <3>1
    <3>3. l[i - 1] + Len(q[i]) <= Len(c[m - 1])
      BY <2>1, <2>2, <3>2
    <3>4. \A j \in 1 .. Len(q[i]) : c[m - 1][l[i - 1] + j] = q[i][j]
      BY <2>2 DEF At
    <3>5. \A j \in 1 .. Len(q[i]) : Then(c[m - 1], q[m])[l[i - 1] + j] = q[i][j]
      <4> DEFINE a == c[m - 1]
                 b == q[m]
                 x == q[i]
                 k == l[i - 1]
      <4>1. a \in Seq(Octets) /\ b \in Seq(Octets) /\ x \in Seq(Octets) /\ k \in Nat /\ k + Len(x) <= Len(a)
        BY <2>1, <3>2, <3>3
      <4>2. \A j \in 1 .. Len(x) : a[k + j] = x[j]
        BY <3>4
      <4> HIDE DEF a, b, x, k
      <4>3. \A j \in 1 .. Len(x) : Then(a, b)[k + j] = x[j]
        BY <4>1, <4>2, ThenKeeps
      <4> QED
        BY <4>3 DEF a, b, x, k
    <3>6. l[i] <= l[m]
      BY <2>1, <2>2, <3>2
    <3> QED
      BY <2>1, <3>5, <3>6 DEF At
  <2>4. At(m, m)
    BY <1>5 DEF At
  <2>5. \A i \in 1 .. m : i \in 1 .. m - 1 \/ i = m
    OBVIOUS
  <2>6. \A i \in 1 .. m : l[i] <= l[m] /\ At(m, i)
    BY <2>1, <2>3, <2>4, <2>5
  <2> QED
    BY <2>1, <2>6 DEF P
<1> HIDE DEF P
<1>8. n \in P
  <2>1. \A i \in 0 .. n : i \in P
    BY <1>6, <1>7, UpTo
  <2> QED
    BY <2>1
<1>9. \A i \in 1 .. n : l[i] <= l[n] /\ At(n, i)
  BY <1>8 DEF P
<1>10. Join(q) = c[n] /\ c[n] \in Seq(Octets) /\ Len(c[n]) = l[n]
  BY <1>2, <1>3
<1>11. \A i \in 1 .. n : l[i] = l[i - 1] + Len(q[i])
  BY <1>5
<1>12. \A i \in 1 .. n : \A j \in 1 .. Len(q[i]) : Join(q)[l[i - 1] + j] = q[i][j]
  BY <1>9, <1>10 DEF At
<1>13. Laid(Join(q), q, l, n)
  BY <1>3, <1>4, <1>9, <1>10, <1>11, <1>12 DEF Laid
<1> QED
  BY <1>13

\* A PDU that can be encoded: its fields can hold what they do, and its counts
\* fit their byte.
IsPdu(k, v) ==
    /\ k \in PduKinds /\ DOMAIN v = DOMAIN Layout[k]
    /\ \A i \in DOMAIN v : v[i] \in FieldValues(Layout[k][i]) /\ Countable(Layout[k][i], v[i])

\* The bytes of its fields.
Fields(k, v) == [i \in DOMAIN v |-> EncodeField(Layout[k][i], v[i])]

\* The layout of each kind.
LEMMA LayoutOf ==
    /\ PduKinds = {"Connect", "ConnectResp", "Submit", "SubmitResp", "Deliver", "DeliverResp",
                   "ActiveTest", "ActiveTestResp", "Terminate", "TerminateResp"}
    /\ Layout["Connect"] = ConnectBody /\ Layout["ConnectResp"] = ConnectRespBody
    /\ Layout["Submit"] = SubmitBody /\ Layout["SubmitResp"] = SubmitRespBody
    /\ Layout["Deliver"] = DeliverBody /\ Layout["DeliverResp"] = DeliverRespBody
    /\ Layout["ActiveTest"] = <<>> /\ Layout["ActiveTestResp"] = <<Reserved(1)>>
    /\ Layout["Terminate"] = <<>> /\ Layout["TerminateResp"] = <<>>
  BY DEF Layout, PduKinds

\* A layout is a sequence of the fields there are.
LEMMA LayoutIs ==
    ASSUME NEW k \in PduKinds
    PROVE  /\ Len(Layout[k]) \in Nat /\ DOMAIN Layout[k] = 1 .. Len(Layout[k])
           /\ \A i \in 1 .. Len(Layout[k]) : IsField(Layout[k][i])
<1> DEFINE Known == {[type |-> "raw", width |-> n] : n \in Nat} \cup {[type |-> "str", width |-> n] : n \in Nat}
                     \cup {[type |-> "reserved", width |-> n] : n \in Nat} \cup {Dests, Content}
<1>1. \A f \in Known : IsField(f)
  BY DEF IsField, Dests, Content
<1>2. \A n \in Nat : Raw(n) \in Known /\ Str(n) \in Known /\ Reserved(n) \in Known
  BY DEF Raw, Str, Reserved
<1>3. Dests \in Known /\ Content \in Known
  OBVIOUS
<1> HIDE DEF Known
<1>4. ConnectBody \in Seq(Known) /\ ConnectRespBody \in Seq(Known)
  BY <1>2 DEF ConnectBody, ConnectRespBody
<1>5. SubmitBody \in Seq(Known)
  BY <1>2, <1>3 DEF SubmitBody
<1>6. DeliverBody \in Seq(Known)
  BY <1>2, <1>3 DEF DeliverBody
<1>7. /\ SubmitRespBody \in Seq(Known) /\ DeliverRespBody \in Seq(Known)
      /\ <<>> \in Seq(Known) /\ <<Reserved(1)>> \in Seq(Known)
  BY <1>2 DEF SubmitRespBody, DeliverRespBody
<1>8. Layout[k] \in Seq(Known)
  BY <1>4, <1>5, <1>6, <1>7, LayoutOf
<1> HIDE DEF PduKinds
<1>9. /\ Len(Layout[k]) \in Nat /\ DOMAIN Layout[k] = 1 .. Len(Layout[k])
      /\ \A i \in 1 .. Len(Layout[k]) : Layout[k][i] \in Known
  BY <1>8
<1> QED
  BY <1>1, <1>9

\* The body of a PDU: each field after the ones before it.
LEMMA BodyLaid ==
    ASSUME NEW k, NEW v, IsPdu(k, v), NEW n, n = Len(Layout[k])
    PROVE  /\ n \in Nat /\ DOMAIN v = 1 .. n /\ DOMAIN Layout[k] = 1 .. n
           /\ \A i \in 1 .. n :
                 /\ IsField(Layout[k][i]) /\ v[i] \in FieldValues(Layout[k][i]) /\ Countable(Layout[k][i], v[i])
                 /\ Fields(k, v)[i] = EncodeField(Layout[k][i], v[i])
           /\ \E l : Laid(EncodeBody(k, v), Fields(k, v), l, n)
<1>1. /\ n \in Nat /\ DOMAIN v = 1 .. n /\ DOMAIN Layout[k] = 1 .. n
      /\ \A i \in 1 .. n : IsField(Layout[k][i]) /\ v[i] \in FieldValues(Layout[k][i]) /\ Countable(Layout[k][i], v[i])
  BY LayoutIs DEF IsPdu
<1>2. DOMAIN Fields(k, v) = 1 .. n /\ \A i \in 1 .. n : Fields(k, v)[i] = EncodeField(Layout[k][i], v[i])
  BY <1>1 DEF Fields
<1>3. \A i \in 1 .. n : Fields(k, v)[i] \in Seq(Octets)
  BY <1>1, <1>2, EncodeFieldIs
<1>4. EncodeBody(k, v) = Join(Fields(k, v))
  BY DEF EncodeBody, Fields
<1>5. \E l : Laid(Join(Fields(k, v)), Fields(k, v), l, n)
  BY <1>1, <1>2, <1>3, JoinLaid
<1> QED
  BY <1>1, <1>2, <1>4, <1>5

-----------------------------------------------------------------------------
\* PduCodec: a body read field by field

\* What a field can be read as, and the reader with the fields read so far.
ReadValues == Seq(Nat) \cup Seq(Seq(Nat))
Readers    == [ok : BOOLEAN, at : Nat, fields : Seq(ReadValues)]

\* The reader after a field of n bytes.
Took(r, n, x) == [r EXCEPT !.at = @ + n, !.fields = Append(@, x)]

\* A record of three with two of them new.
LEMMA ReaderWith ==
    ASSUME NEW S, NEW r \in [ok : BOOLEAN, at : Nat, fields : S], NEW a \in Nat, NEW y \in S
    PROVE  /\ [r EXCEPT !.at = a, !.fields = y] \in [ok : BOOLEAN, at : Nat, fields : S]
           /\ [r EXCEPT !.at = a, !.fields = y].ok = r.ok
           /\ [r EXCEPT !.at = a, !.fields = y].at = a
           /\ [r EXCEPT !.at = a, !.fields = y].fields = y
<1>1. [r EXCEPT !.at = a, !.fields = y] \in [ok : BOOLEAN, at : Nat, fields : S]
  OBVIOUS
<1>2. [r EXCEPT !.at = a, !.fields = y].ok = r.ok
  OBVIOUS
<1>3. [r EXCEPT !.at = a, !.fields = y].at = a
  OBVIOUS
<1>4. [r EXCEPT !.at = a, !.fields = y].fields = y
  OBVIOUS
<1> QED
  BY <1>1, <1>2, <1>3, <1>4

\* Those stay readers.
LEMMA ReadersStay ==
    ASSUME NEW r \in Readers
    PROVE  /\ Fail(r) \in Readers /\ ~Fail(r).ok /\ Fail(r).at = r.at /\ Fail(r).fields = r.fields
           /\ \A n \in Nat : \A x \in ReadValues :
                 /\ Took(r, n, x) \in Readers /\ Took(r, n, x).ok = r.ok /\ Took(r, n, x).at = r.at + n
                 /\ Took(r, n, x).fields = Append(r.fields, x)
<1>1. r.ok \in BOOLEAN /\ r.at \in Nat /\ r.fields \in Seq(ReadValues)
  BY DEF Readers
<1> HIDE DEF ReadValues
<1>2. Fail(r) \in Readers /\ ~Fail(r).ok /\ Fail(r).at = r.at /\ Fail(r).fields = r.fields
  BY <1>1 DEF Fail, Readers
<1>3. ASSUME NEW n \in Nat, NEW x \in ReadValues
      PROVE  /\ Took(r, n, x) \in Readers /\ Took(r, n, x).ok = r.ok /\ Took(r, n, x).at = r.at + n
             /\ Took(r, n, x).fields = Append(r.fields, x)
  <2>1. Append(r.fields, x) \in Seq(ReadValues) /\ r.at + n \in Nat
    BY <1>1
  <2> DEFINE y == Append(r.fields, x)
             a == r.at + n
  <2>2. Took(r, n, x) = [r EXCEPT !.at = a, !.fields = y]
    BY DEF Took
  <2>3. y \in Seq(ReadValues) /\ a \in Nat
    BY <2>1
  <2> HIDE DEF y, a
  <2> DEFINE S == Seq(ReadValues)
             t == [r EXCEPT !.at = a, !.fields = y]
  <2>4. r \in [ok : BOOLEAN, at : Nat, fields : S] /\ y \in S /\ a \in Nat
    BY <2>3 DEF Readers
  <2>5. Readers = [ok : BOOLEAN, at : Nat, fields : S]
    BY DEF Readers
  <2> HIDE DEF S
  <2>6. t \in [ok : BOOLEAN, at : Nat, fields : S] /\ t.ok = r.ok /\ t.at = a /\ t.fields = y
    BY <2>4, ReaderWith
  <2> HIDE DEF t
  <2>7. Took(r, n, x) = t
    BY <2>2 DEF t
  <2> QED
    BY <2>5, <2>6, <2>7 DEF y, a
<1> QED
  BY <1>2, <1>3

\* Text that is read is a sequence of code points.
LEMMA ReadStrTyped ==
    ASSUME NEW b \in Seq(Nat) PROVE ReadStr(b) \in Seq(Nat)
<1>1. PICK e : EndsAt(b, e)
  BY EndExists
<1>2. ReadStr(b) = Lossy(Begin(b, e)) /\ e \in 0 .. Len(b)
  BY <1>1, ReadIs DEF EndsAt
<1> DEFINE t == Begin(b, e)
           q == [i \in DOMAIN t |-> LossyChar(t, i)]
<1>3. t \in Seq(Nat) /\ DOMAIN t = 1 .. Len(t) /\ Len(t) \in Nat
  BY <1>2, BeginIs
<1> HIDE DEF t
<1>4. DOMAIN q = 1 .. Len(t) /\ \A i \in 1 .. Len(t) : q[i] \in Seq(Nat)
  BY <1>3, LossyCharTyped
<1>5. Lossy(t) = Join(q)
  BY DEF Lossy
<1> HIDE DEF q
<1>6. Join(q) \in Seq(Nat)
  BY <1>3, <1>4, JoinTyped
<1> QED
  BY <1>2, <1>5, <1>6 DEF t

\* The bytes of a part.
LEMMA PartIs ==
    ASSUME NEW b \in Seq(Nat), NEW r \in Readers, NEW from \in Nat, NEW n \in Nat, r.at + from + n <= Len(b)
    PROVE  /\ Part(b, r, from, n) \in Seq(Nat) /\ Len(Part(b, r, from, n)) = n
           /\ \A j \in 1 .. n : Part(b, r, from, n)[j] = b[r.at + from + j]
<1> DEFINE k == r.at + from
<1>1. k \in Nat /\ k + n <= Len(b) /\ Len(b) \in Nat
  BY DEF Readers
<1>2. Part(b, r, from, n) = SubSeq(b, k + 1, k + n)
  BY DEF Part
<1>3. \A j \in 1 .. n : b[r.at + from + j] = b[k + j]
  OBVIOUS
<1> HIDE DEF k
<1>4. /\ SubSeq(b, k + 1, k + n) \in Seq(Nat) /\ Len(SubSeq(b, k + 1, k + n)) = n
      /\ \A j \in 1 .. n : SubSeq(b, k + 1, k + n)[j] = b[k + j]
  BY <1>1, SubSeqProperties
<1> QED
  BY <1>2, <1>3, <1>4

\* What take does.
LEMMA TakeIs ==
    ASSUME NEW b \in Seq(Nat), NEW r \in Readers, NEW n \in Nat, NEW x
    PROVE  /\ Left(b, r) = Len(b) - r.at /\ Len(b) \in Nat /\ r.at \in Nat
           /\ r.at + n <= Len(b) => Take(b, r, n, x) = Took(r, n, x)
           /\ ~(r.at + n <= Len(b)) => Take(b, r, n, x) = Fail(r)
<1>1. Left(b, r) = Len(b) - r.at /\ Len(b) \in Nat /\ r.at \in Nat
  BY DEF Left, Readers
<1> QED
  BY <1>1 DEF Take, Took

\* Reading a field leaves a reader.
LEMMA TakeTyped ==
    ASSUME NEW b \in Seq(Nat), NEW r \in Readers, NEW n \in Nat, NEW x, r.at + n <= Len(b) => x \in ReadValues
    PROVE  Take(b, r, n, x) \in Readers
  BY TakeIs, ReadersStay

\* So does reading the destinations.
LEMMA DestsTyped ==
    ASSUME NEW b \in Seq(Nat), NEW r \in Readers, NEW f, f.width = 21
    PROVE  DecodeDests(b, r, f) \in Readers
<1> DEFINE n == b[r.at + 1]
           x == [i \in 1 .. n |-> ReadStr(Part(b, r, 1 + (i - 1) * 21, 21))]
<1>1. Left(b, r) = Len(b) - r.at /\ Len(b) \in Nat /\ r.at \in Nat
  BY DEF Left, Readers
<1>2. CASE Left(b, r) < 1
  BY <1>2, ReadersStay DEF DecodeDests
<1>3. CASE ~(Left(b, r) < 1)
  <2>1. n \in Nat
    BY <1>1, <1>3
  <2>2. DecodeDests(b, r, f) = IF Left(b, r) - 1 < n * 21 + 1 + 8 THEN Fail(r) ELSE Take(b, r, 1 + n * 21, x)
    BY <1>3 DEF DecodeDests
  <2> HIDE DEF n, x
  <2>3. CASE Left(b, r) - 1 < n * 21 + 1 + 8
    BY <2>2, <2>3, ReadersStay
  <2>4. CASE ~(Left(b, r) - 1 < n * 21 + 1 + 8)
    <3>1. 1 + n * 21 \in Nat
      BY <2>1
    <3>2. ASSUME NEW i \in 1 .. n PROVE ReadStr(Part(b, r, 1 + (i - 1) * 21, 21)) \in Seq(Nat)
      <4> DEFINE m == 1 + (i - 1) * 21
      <4>1. m \in Nat /\ r.at + m + 21 <= Len(b)
        BY <1>1, <2>1, <2>4
      <4> HIDE DEF m
      <4>2. Part(b, r, m, 21) \in Seq(Nat)
        BY <4>1, PartIs
      <4> QED
        BY <4>2, ReadStrTyped DEF m
    <3>3. x \in Seq(Seq(Nat))
      <4>1. \A i \in 1 .. n : x[i] \in Seq(Nat)
        BY <3>2 DEF x
      <4>2. x \in [1 .. n -> Seq(Nat)]
        BY <4>1 DEF x
      <4> QED
        BY <2>1, <4>2
    <3>4. Take(b, r, 1 + n * 21, x) \in Readers
      BY <3>1, <3>3, TakeTyped DEF ReadValues
    <3> QED
      BY <2>2, <2>4, <3>4
  <2> QED
    BY <2>3, <2>4
<1> QED
  BY <1>2, <1>3

\* And the content.
LEMMA ContentTyped ==
    ASSUME NEW b \in Seq(Nat), NEW r \in Readers PROVE DecodeContent(b, r) \in Readers
<1> DEFINE n == b[r.at + 1]
<1>1. Left(b, r) = Len(b) - r.at /\ Len(b) \in Nat /\ r.at \in Nat
  BY DEF Left, Readers
<1>2. CASE Left(b, r) < 1
  BY <1>2, ReadersStay DEF DecodeContent
<1>3. CASE ~(Left(b, r) < 1)
  <2>1. n \in Nat /\ 1 + n \in Nat
    BY <1>1, <1>3
  <2>2. DecodeContent(b, r) = Take(b, r, 1 + n, Part(b, r, 1, n))
    BY <1>3 DEF DecodeContent
  <2> HIDE DEF n
  <2>3. r.at + (1 + n) <= Len(b) => Part(b, r, 1, n) \in Seq(Nat)
    <3> SUFFICES ASSUME r.at + (1 + n) <= Len(b) PROVE Part(b, r, 1, n) \in Seq(Nat)
      OBVIOUS
    <3>1. r.at + 1 + n <= Len(b)
      BY <1>1, <2>1
    <3> QED
      BY <2>1, <3>1, PartIs
  <2> QED
    BY <2>1, <2>2, <2>3, TakeTyped DEF ReadValues
<1> QED
  BY <1>2, <1>3

\* And any field.
LEMMA FieldTyped ==
    ASSUME NEW b \in Seq(Nat), NEW r \in Readers, NEW f, IsField(f)
    PROVE  DecodeField(b, r, f) \in Readers
<1>1. f.width \in Nat /\ r.at \in Nat
  BY DEF IsField, Readers
<1>2. r.at + f.width <= Len(b) => Part(b, r, 0, f.width) \in Seq(Nat)
  <2> SUFFICES ASSUME r.at + f.width <= Len(b) PROVE Part(b, r, 0, f.width) \in Seq(Nat)
    OBVIOUS
  <2>1. r.at + 0 + f.width <= Len(b) /\ 0 \in Nat
    BY <1>1
  <2> QED
    BY <1>1, <2>1, PartIs
<1>3. r.at + f.width <= Len(b) => ReadStr(Part(b, r, 0, f.width)) \in Seq(Nat)
  BY <1>2, ReadStrTyped
<1>4. Take(b, r, f.width, Part(b, r, 0, f.width)) \in Readers
  BY <1>1, <1>2, TakeTyped DEF ReadValues
<1>5. Take(b, r, f.width, ReadStr(Part(b, r, 0, f.width))) \in Readers
  BY <1>1, <1>3, TakeTyped DEF ReadValues
<1>6. Take(b, r, f.width, <<>>) \in Readers
  <2>1. <<>> \in Seq(Nat)
    OBVIOUS
  <2> QED
    BY <1>1, <2>1, TakeTyped DEF ReadValues
<1>7. (f.type = "dests" => DecodeDests(b, r, f) \in Readers) /\ DecodeContent(b, r) \in Readers
  BY DestsTyped, ContentTyped DEF IsField
<1> QED
  BY <1>4, <1>5, <1>6, <1>7 DEF DecodeField, IsField

\* What the reader is after each of the fields.
Reads(b, fs, c, n) ==
    /\ c \in [0 .. n -> Readers] /\ c[0] = [ok |-> TRUE, at |-> 0, fields |-> <<>>]
    /\ \A i \in 1 .. n : c[i] = DecodeField(b, c[i - 1], fs[i])

\* decode, field by field.
LEMMA ReadLoops ==
    ASSUME NEW b \in Seq(Nat), NEW k \in PduKinds, NEW n, n = Len(Layout[k])
    PROVE  \E c : Reads(b, Layout[k], c, n) /\ ReadBody(k, b) = c[n]
<1> DEFINE q == Layout[k]
           base == [ok |-> TRUE, at |-> 0, fields |-> <<>>]
           op == [p \in Readers \X (1 .. n) |-> DecodeField(b, p[1], q[p[2]])]
           Rule(h) == h = [x \in SUBSET (DOMAIN q) |->
                              IF x = {} THEN base ELSE DecodeField(b, h[x \ {Max(x)}], q[Max(x)])]
<1>0. n \in Nat /\ DOMAIN q = 1 .. n /\ \A i \in 1 .. n : IsField(q[i])
  BY LayoutIs
<1>1. base \in Readers /\ \A r \in Readers, i \in 1 .. n : DecodeField(b, r, q[i]) \in Readers
  <2>1. base \in Readers
    BY DEF Readers
  <2> QED
    BY <1>0, <2>1, FieldTyped
<1> HIDE DEF q, base
<1>2. /\ op \in [Readers \X (1 .. n) -> Readers]
      /\ \A r \in Readers, i \in 1 .. n : op[<<r, i>>] = DecodeField(b, r, q[i])
  <2> SUFFICES ASSUME NEW p \in Readers \X (1 .. n) PROVE op[p] \in Readers
    OBVIOUS
  <2> QED
    BY <1>1
<1> HIDE DEF op
<1>3. ASSUME NEW g, FoldTable(g, Readers, base, op, n) PROVE Rule(g)
  <2>1. g \in [SUBSET (1 .. n) -> Readers] /\ g[{}] = base
    BY <1>3 DEF FoldTable
  <2>2. ASSUME NEW x \in SUBSET (1 .. n), x # {} PROVE g[x] = DecodeField(b, g[x \ {Max(x)}], q[Max(x)])
    <3>1. Max(x) \in 1 .. n /\ g[x \ {Max(x)}] \in Readers
      BY <1>0, <2>1, <2>2, MaxIsMember
    <3>2. g[x] = op[<<g[x \ {Max(x)}], Max(x)>>]
      BY <1>3, <2>2 DEF FoldTable
    <3> QED
      BY <1>2, <3>1, <3>2
  <2> QED
    BY <1>0, <2>1, <2>2
<1>4. ASSUME NEW h, Rule(h) PROVE FollowsRule(h, Readers, base, op, n)
  <2>1. h[{}] = base
    BY <1>0, <1>4
  <2>2. ASSUME NEW x \in SUBSET (1 .. n), x # {}, h[x \ {Max(x)}] \in Readers
        PROVE  h[x] = op[<<h[x \ {Max(x)}], Max(x)>>]
    <3>1. Max(x) \in 1 .. n /\ h[x] = DecodeField(b, h[x \ {Max(x)}], q[Max(x)])
      BY <1>0, <1>4, <2>2, MaxIsMember
    <3> HIDE DEF Rule
    <3> QED
      BY <1>2, <2>2, <3>1
  <2> HIDE DEF Rule
  <2> QED
    BY <1>0, <1>1, <1>2, <2>1, <2>2 DEF FollowsRule
<1>5. ReadBody(k, b) = (CHOOSE h : Rule(h))[1 .. n]
  BY <1>0 DEF ReadBody, FoldLeft, MapThenFoldSet, q, base
<1> HIDE DEF Rule
<1>6. PICK h : Rule(h) /\ ReadBody(k, b) = h[1 .. n]
  BY <1>0, <1>1, <1>2, <1>3, <1>5, FoldExists
<1>7. PICK c : Loop(c, Readers, base, op, n) /\ c[n] = h[1 .. n]
  <2>1. FollowsRule(h, Readers, base, op, n)
    BY <1>4, <1>6
  <2> QED
    BY <1>6, <2>1, RuleIsLoop
<1>8. ASSUME NEW i \in 1 .. n PROVE c[i] = DecodeField(b, c[i - 1], q[i])
  <2>1. i - 1 \in 0 .. n
    BY <1>0
  <2>2. c[i - 1] \in Readers
    BY <1>7, <2>1 DEF Loop
  <2> QED
    BY <1>2, <1>7, <2>2 DEF Loop
<1>9. c \in [0 .. n -> Readers] /\ c[0] = base /\ ReadBody(k, b) = c[n]
  BY <1>6, <1>7 DEF Loop
<1> QED
  BY <1>8, <1>9 DEF Reads, q, base

\* The body goes on with these bytes, as far as it goes.
Follows(b, at, e) == \A j \in 1 .. Len(e) : at + j <= Len(b) => b[at + j] = e[j]

\* What must be left behind the destinations before they are read.
Behind(f) == IF f.type = "dests" THEN 9 ELSE 0

\* A part of a body is what the body goes on with there.
LEMMA PartWritten ==
    ASSUME NEW b \in Seq(Nat), NEW r \in Readers, NEW from \in Nat, NEW n \in Nat, r.at + from + n <= Len(b),
           NEW e \in Seq(Octets), Len(e) = n, \A j \in 1 .. n : b[r.at + from + j] = e[j]
    PROVE  Part(b, r, from, n) = e
<1> DEFINE p == Part(b, r, from, n)
<1>1. p \in Seq(Nat) /\ Len(p) = n /\ \A j \in 1 .. n : p[j] = e[j]
  BY PartIs
<1>2. e \in Seq(Nat)
  BY NumbersAre
<1> HIDE DEF p
<1>3. p = e
  BY <1>1, <1>2, SeqEqual
<1> QED
  BY <1>3 DEF p

\* Every place in a field that fits is in the body.
LEMMA FollowsIn ==
    ASSUME NEW b \in Seq(Nat), NEW at \in Nat, NEW e \in Seq(Octets), Follows(b, at, e),
           NEW m \in Nat, m <= Len(e), at + m <= Len(b)
    PROVE  \A j \in 1 .. m : b[at + j] = e[j]
<1>1. \A j \in 1 .. m : j \in 1 .. Len(e) /\ at + j <= Len(b)
  OBVIOUS
<1> QED
  BY <1>1 DEF Follows

\* A field of a body that goes on as the field was written: it is read as what
\* the field keeps, if all of it is there, or the body is refused.
ReadsAs(b, r, f, x) ==
    /\ Normal(f, x) \in ReadValues
    /\ r.at + FieldSize(f, x) + Behind(f) <= Len(b) =>
          DecodeField(b, r, f) = Took(r, FieldSize(f, x), Normal(f, x))
    /\ ~(r.at + FieldSize(f, x) + Behind(f) <= Len(b)) => DecodeField(b, r, f) = Fail(r)

\* What the body goes on with is the next part of it.
LEMMA FrontPart ==
    ASSUME NEW b \in Seq(Nat), NEW r \in Readers, NEW w, NEW e \in Seq(Octets), Len(e) = w, Follows(b, r.at, e),
           r.at + w <= Len(b)
    PROVE  Part(b, r, 0, w) = e
<1> DEFINE at == r.at
<1>1. at \in Nat /\ w \in Nat /\ Len(b) \in Nat
  BY DEF Readers
<1>2. Follows(b, at, e) /\ w <= Len(e) /\ at + w <= Len(b)
  BY <1>1
<1>3. 0 \in Nat /\ r.at = at
  OBVIOUS
<1> HIDE DEF at
<1>4. \A j \in 1 .. w : b[at + j] = e[j]
  BY <1>1, <1>2, FollowsIn
<1>5. at + 0 + w <= Len(b) /\ \A j \in 1 .. w : b[at + 0 + j] = e[j]
  BY <1>1, <1>2, <1>4
<1>6. r.at + 0 + w <= Len(b) /\ \A j \in 1 .. w : b[r.at + 0 + j] = e[j]
  BY <1>5 DEF at
<1> QED
  BY <1>1, <1>3, <1>6, PartWritten

\* Raw bytes.
LEMMA RawReads ==
    ASSUME NEW b \in Seq(Nat), NEW r \in Readers, r.ok, NEW f, IsField(f), f.type = "raw",
           NEW x \in FieldValues(f), Follows(b, r.at, EncodeField(f, x))
    PROVE  ReadsAs(b, r, f, x)
<1> DEFINE w == f.width
           p == Part(b, r, 0, w)
<1>1. w \in Nat /\ r.at \in Nat /\ Len(b) \in Nat
  BY DEF IsField, Readers
<1>2. x \in Seq(Octets) /\ Len(x) = w /\ x \in Seq(Nat)
  <2>1. x \in [1 .. w -> Octets]
    BY DEF FieldValues
  <2>2. x \in Seq(Octets) /\ Len(x) = w
    BY <1>1, <2>1
  <2> QED
    BY <2>2, NumbersAre
<1>3. EncodeField(f, x) = x /\ FieldSize(f, x) = w /\ Behind(f) = 0 /\ Normal(f, x) = x
  BY DEF EncodeField, FieldSize, Behind, Normal
<1>4. DecodeField(b, r, f) = Take(b, r, w, p)
  BY DEF DecodeField
<1> HIDE DEF w
<1>5. r.at + w <= Len(b) => p = x
  <2>1. Follows(b, r.at, x)
    BY <1>3
  <2> QED
    BY <1>1, <1>2, <2>1, FrontPart
<1> HIDE DEF p
<1>6. r.at + w <= Len(b) => Take(b, r, w, p) = Took(r, w, x)
  BY <1>1, <1>5, TakeIs
<1>7. ~(r.at + w <= Len(b)) => Take(b, r, w, p) = Fail(r)
  BY <1>1, TakeIs
<1>8. r.at + w + 0 = r.at + w
  BY <1>1
<1>9. x \in ReadValues
  BY <1>2 DEF ReadValues
<1> QED
  BY <1>3, <1>4, <1>6, <1>7, <1>8, <1>9 DEF ReadsAs

\* Octet strings.
LEMMA StrReads ==
    ASSUME NEW b \in Seq(Nat), NEW r \in Readers, r.ok, NEW f, IsField(f), f.type = "str",
           NEW x \in FieldValues(f), Follows(b, r.at, EncodeField(f, x))
    PROVE  ReadsAs(b, r, f, x)
<1> DEFINE w == f.width
           p == Part(b, r, 0, w)
           e == PutStr(x, w)
           y == Stripped(Kept(x, w))
<1>1. w \in Nat /\ r.at \in Nat /\ Len(b) \in Nat
  BY DEF IsField, Readers
<1>2. e \in Seq(Octets) /\ Len(e) = w /\ e \in Seq(Nat) /\ ReadStr(e) = y
  <2>1. x \in Seq(CodePoints)
    BY DEF FieldValues
  <2>2. e \in Seq(Octets) /\ Len(e) = w /\ ReadStr(e) = y
    BY <1>1, <2>1, StrRoundTrip
  <2> QED
    BY <2>2, NumbersAre
<1>3. EncodeField(f, x) = e /\ FieldSize(f, x) = w /\ Behind(f) = 0 /\ Normal(f, x) = y
  BY DEF EncodeField, FieldSize, Behind, Normal
<1>4. DecodeField(b, r, f) = Take(b, r, w, ReadStr(p))
  BY DEF DecodeField
<1> HIDE DEF w, e, y
<1>5. r.at + w <= Len(b) => p = e
  <2>1. Follows(b, r.at, e)
    BY <1>3
  <2> QED
    BY <1>1, <1>2, <2>1, FrontPart
<1> HIDE DEF p
<1>6. r.at + w <= Len(b) => Take(b, r, w, ReadStr(p)) = Took(r, w, y)
  BY <1>1, <1>2, <1>5, TakeIs
<1>7. ~(r.at + w <= Len(b)) => Take(b, r, w, ReadStr(p)) = Fail(r)
  BY <1>1, TakeIs
<1>8. r.at + w + 0 = r.at + w
  BY <1>1
<1>9. y \in ReadValues
  BY <1>2, ReadStrTyped DEF ReadValues
<1> QED
  BY <1>3, <1>4, <1>6, <1>7, <1>8, <1>9 DEF ReadsAs

\* Reserved bytes are skipped.
LEMMA ReservedReads ==
    ASSUME NEW b \in Seq(Nat), NEW r \in Readers, r.ok, NEW f, IsField(f), f.type = "reserved",
           NEW x \in FieldValues(f)
    PROVE  ReadsAs(b, r, f, x)
<1> DEFINE w == f.width
<1>1. w \in Nat /\ r.at \in Nat /\ Len(b) \in Nat
  BY DEF IsField, Readers
<1>2. x = <<>>
  BY DEF FieldValues
<1>3. FieldSize(f, x) = w /\ Behind(f) = 0 /\ Normal(f, x) = <<>>
  BY <1>2 DEF FieldSize, Behind, Normal
<1>4. DecodeField(b, r, f) = Take(b, r, w, <<>>)
  BY DEF DecodeField
<1> HIDE DEF w
<1>6. r.at + w <= Len(b) => Take(b, r, w, <<>>) = Took(r, w, <<>>)
  BY <1>1, TakeIs
<1>7. ~(r.at + w <= Len(b)) => Take(b, r, w, <<>>) = Fail(r)
  BY <1>1, TakeIs
<1>8. r.at + w + 0 = r.at + w
  BY <1>1
<1>9. <<>> \in ReadValues
  BY DEF ReadValues
<1> QED
  BY <1>3, <1>4, <1>6, <1>7, <1>8, <1>9 DEF ReadsAs

\* A count and what it counts, in the body.
LEMMA CountedFollows ==
    ASSUME NEW b \in Seq(Nat), NEW at \in Nat, NEW n \in Octets, NEW p \in Seq(Octets), Follows(b, at, <<n>> \o p)
    PROVE  /\ at + 1 <= Len(b) => b[at + 1] = n
           /\ at + 1 + Len(p) <= Len(b) => \A j \in 1 .. Len(p) : b[at + 1 + j] = p[j]
<1> DEFINE e == <<n>> \o p
<1>1. /\ e \in Seq(Octets) /\ Len(e) = 1 + Len(p) /\ e[1] = n /\ Len(p) \in Nat /\ Len(b) \in Nat
      /\ \A j \in 1 .. Len(p) : e[1 + j] = p[j]
  BY CountedIs
<1>2. \A j \in 1 .. Len(e) : at + j <= Len(b) => b[at + j] = e[j]
  BY DEF Follows
<1> HIDE DEF e
<1>3. at + 1 <= Len(b) => b[at + 1] = n
  <2>1. 1 \in 1 .. Len(e)
    BY <1>1
  <2> QED
    BY <1>1, <1>2, <2>1
<1>4. ASSUME at + 1 + Len(p) <= Len(b), NEW j \in 1 .. Len(p) PROVE b[at + 1 + j] = p[j]
  <2>1. 1 + j \in 1 .. Len(e) /\ at + (1 + j) <= Len(b) /\ at + (1 + j) = at + 1 + j
    BY <1>1, <1>4
  <2>2. b[at + (1 + j)] = e[1 + j]
    BY <1>2, <2>1
  <2> QED
    BY <1>1, <2>1, <2>2
<1> QED
  BY <1>3, <1>4

\* The content.
LEMMA ContentReads ==
    ASSUME NEW b \in Seq(Nat), NEW r \in Readers, r.ok, NEW f, IsField(f), f.type = "content",
           NEW x \in FieldValues(f), Countable(f, x), Follows(b, r.at, EncodeField(f, x))
    PROVE  ReadsAs(b, r, f, x)
<1> DEFINE n == Len(x)
           at == r.at
           p == Part(b, r, 1, n)
<1>1. at \in Nat /\ Len(b) \in Nat
  BY DEF Readers
<1>2. x \in Seq(Octets) /\ n \in Nat /\ n <= 255 /\ x \in Seq(Nat)
  <2>1. x \in Seq(Octets)
    BY DEF FieldValues
  <2>2. n <= 255
    BY DEF Countable, Max8
  <2> QED
    BY <2>1, <2>2, NumbersAre
<1>3. n \in Octets
  BY <1>2, CountIsOctet
<1>4. EncodeField(f, x) = <<n>> \o x /\ FieldSize(f, x) = 1 + n /\ Behind(f) = 0 /\ Normal(f, x) = x
  BY DEF EncodeField, FieldSize, Behind, Normal
<1>5. /\ at + 1 <= Len(b) => b[at + 1] = n
      /\ at + 1 + n <= Len(b) => \A j \in 1 .. n : b[at + 1 + j] = x[j]
  <2>1. Follows(b, at, <<n>> \o x)
    BY <1>4
  <2> HIDE DEF n, at
  <2>2. /\ at + 1 <= Len(b) => b[at + 1] = n
        /\ at + 1 + Len(x) <= Len(b) => \A j \in 1 .. Len(x) : b[at + 1 + j] = x[j]
    BY <1>1, <1>2, <1>3, <2>1, CountedFollows
  <2> QED
    BY <2>2 DEF n
<1>6. DecodeField(b, r, f) = DecodeContent(b, r)
  BY DEF DecodeField
<1>7. Left(b, r) = Len(b) - at
  BY DEF Left
<1>8. at + 1 <= Len(b) => DecodeContent(b, r) = Take(b, r, 1 + n, p)
  <2> SUFFICES ASSUME at + 1 <= Len(b) PROVE DecodeContent(b, r) = Take(b, r, 1 + n, p)
    OBVIOUS
  <2>1. ~(Left(b, r) < 1) /\ b[r.at + 1] = n
    BY <1>1, <1>5, <1>7
  <2> QED
    BY <2>1 DEF DecodeContent
<1>9. ~(at + 1 <= Len(b)) => DecodeContent(b, r) = Fail(r)
  <2> SUFFICES ASSUME ~(at + 1 <= Len(b)) PROVE DecodeContent(b, r) = Fail(r)
    OBVIOUS
  <2>1. Left(b, r) < 1
    BY <1>1, <1>7
  <2> QED
    BY <2>1 DEF DecodeContent
<1>10. at + 1 + n <= Len(b) => p = x
  <2> SUFFICES ASSUME at + 1 + n <= Len(b) PROVE p = x
    OBVIOUS
  <2>1. 1 \in Nat /\ r.at + 1 + n <= Len(b) /\ \A j \in 1 .. n : b[r.at + 1 + j] = x[j]
    BY <1>5
  <2> QED
    BY <1>2, <2>1, PartWritten
<1> HIDE DEF n, p, at
<1>11. 1 + n \in Nat /\ at + (1 + n) + 0 = at + 1 + n /\ at + (1 + n) = at + 1 + n
  BY <1>1, <1>2
<1>12. at + 1 + n <= Len(b) => Take(b, r, 1 + n, p) = Took(r, 1 + n, x)
  BY <1>10, <1>11, TakeIs DEF at
<1>13. ~(at + 1 + n <= Len(b)) => Take(b, r, 1 + n, p) = Fail(r)
  BY <1>11, TakeIs DEF at
<1>14. at + 1 + n <= Len(b) => at + 1 <= Len(b)
  BY <1>1, <1>2
<1>15. x \in ReadValues
  BY <1>2 DEF ReadValues
<1>16. /\ at + (1 + n) + 0 <= Len(b) => DecodeField(b, r, f) = Took(r, 1 + n, x)
       /\ ~(at + (1 + n) + 0 <= Len(b)) => DecodeField(b, r, f) = Fail(r)
  BY <1>6, <1>8, <1>9, <1>11, <1>12, <1>13, <1>14
<1> QED
  BY <1>4, <1>15, <1>16 DEF ReadsAs, at

\* The places of one of them.
LEMMA InRow ==
    \A at, m, w \in Nat : m + 21 <= w =>
        \A j \in 1 .. 21 : m + j \in 1 .. w /\ at + 1 + (m + j) = at + (1 + m) + j
  OBVIOUS

\* The destinations.
LEMMA DestsReads ==
    ASSUME NEW b \in Seq(Nat), NEW r \in Readers, r.ok, NEW f, IsField(f), f.type = "dests",
           NEW x \in FieldValues(f), Countable(f, x), Follows(b, r.at, EncodeField(f, x))
    PROVE  ReadsAs(b, r, f, x)
<1> DEFINE n == Len(x)
           at == r.at
           ps == PutStrs(x, 21)
           y == [i \in 1 .. n |-> ReadStr(Part(b, r, 1 + (i - 1) * 21, 21))]
           z == [i \in 1 .. n |-> Stripped(Kept(x[i], 21))]
<1>1. at \in Nat /\ Len(b) \in Nat
  BY DEF Readers
<1>2. x \in Seq(Seq(CodePoints)) /\ n \in Nat /\ n <= 255 /\ DOMAIN x = 1 .. n /\ f.width = 21
  <2>1. x \in Seq(Seq(CodePoints)) /\ f.width = 21
    BY DEF FieldValues, IsField
  <2>2. n <= 255
    BY DEF Countable, Max8
  <2> QED
    BY <2>1, <2>2
<1>3. n \in Octets
  BY <1>2, CountIsOctet
<1>4. /\ ps \in Seq(Octets) /\ Len(ps) = 21 * n
      /\ \A i \in 1 .. n, j \in 1 .. 21 : ps[(i - 1) * 21 + j] = PutStr(x[i], 21)[j]
  BY <1>2, PutStrsIs
<1>5. \A i \in 1 .. n : /\ PutStr(x[i], 21) \in Seq(Octets) /\ Len(PutStr(x[i], 21)) = 21
                        /\ ReadStr(PutStr(x[i], 21)) = z[i] /\ z[i] \in Seq(Nat)
  <2> SUFFICES ASSUME NEW i \in 1 .. n
               PROVE  /\ PutStr(x[i], 21) \in Seq(Octets) /\ Len(PutStr(x[i], 21)) = 21
                      /\ ReadStr(PutStr(x[i], 21)) = z[i] /\ z[i] \in Seq(Nat)
    OBVIOUS
  <2>1. x[i] \in Seq(CodePoints) /\ 21 \in Nat
    BY <1>2
  <2>2. PutStr(x[i], 21) \in Seq(Octets) /\ Len(PutStr(x[i], 21)) = 21 /\ ReadStr(PutStr(x[i], 21)) = z[i]
    BY <2>1, StrRoundTrip
  <2>3. ReadStr(PutStr(x[i], 21)) \in Seq(Nat)
    BY <2>2, NumbersAre, ReadStrTyped
  <2> QED
    BY <2>2, <2>3
<1>6. /\ EncodeField(f, x) = <<n>> \o ps /\ FieldSize(f, x) = 1 + 21 * n /\ Behind(f) = 9 /\ Normal(f, x) = z
  BY <1>2 DEF EncodeField, FieldSize, Behind, Normal
<1>7. /\ at + 1 <= Len(b) => b[at + 1] = n
      /\ at + 1 + 21 * n <= Len(b) => \A j \in 1 .. 21 * n : b[at + 1 + j] = ps[j]
  <2>1. Follows(b, at, <<n>> \o ps)
    BY <1>6
  <2> HIDE DEF n, at, ps
  <2>2. /\ at + 1 <= Len(b) => b[at + 1] = n
        /\ at + 1 + Len(ps) <= Len(b) => \A j \in 1 .. Len(ps) : b[at + 1 + j] = ps[j]
    BY <1>1, <1>3, <1>4, <2>1, CountedFollows
  <2> QED
    BY <1>4, <2>2
<1>8. DecodeField(b, r, f) = DecodeDests(b, r, f)
  BY DEF DecodeField
<1>9. Left(b, r) = Len(b) - at
  BY DEF Left
<1>10. at + 1 <= Len(b) =>
          DecodeDests(b, r, f) = IF Left(b, r) - 1 < n * 21 + 1 + 8 THEN Fail(r) ELSE Take(b, r, 1 + n * 21, y)
  <2> SUFFICES ASSUME at + 1 <= Len(b)
               PROVE  DecodeDests(b, r, f) =
                        IF Left(b, r) - 1 < n * 21 + 1 + 8 THEN Fail(r) ELSE Take(b, r, 1 + n * 21, y)
    OBVIOUS
  <2>1. ~(Left(b, r) < 1) /\ b[r.at + 1] = n
    BY <1>1, <1>7, <1>9
  <2> HIDE DEF n
  <2> QED
    BY <1>2, <2>1 DEF DecodeDests
<1>11. ~(at + 1 <= Len(b)) => DecodeDests(b, r, f) = Fail(r)
  <2> SUFFICES ASSUME ~(at + 1 <= Len(b)) PROVE DecodeDests(b, r, f) = Fail(r)
    OBVIOUS
  <2>1. Left(b, r) < 1
    BY <1>1, <1>9
  <2> QED
    BY <2>1 DEF DecodeDests
<1>12. at + 1 + 21 * n <= Len(b) => y = z
  <2> SUFFICES ASSUME at + 1 + 21 * n <= Len(b), NEW i \in 1 .. n
               PROVE  ReadStr(Part(b, r, 1 + (i - 1) * 21, 21)) = z[i]
    BY SMTT(30)
  <2> DEFINE m == (i - 1) * 21
             e == PutStr(x[i], 21)
  <2>1. m \in Nat /\ 1 + m \in Nat /\ m + 21 <= 21 * n
    BY <1>2
  <2>2. \A j \in 1 .. 21 : ps[m + j] = e[j]
    BY <1>4
  <2>3. \A j \in 1 .. 21 * n : b[at + 1 + j] = ps[j]
    BY <1>7
  <2>4. e \in Seq(Octets) /\ Len(e) = 21 /\ ReadStr(e) = z[i]
    BY <1>5
  <2> HIDE DEF m, e, n, z, y, ps
  <2>5. \A j \in 1 .. 21 : m + j \in 1 .. 21 * n /\ at + 1 + (m + j) = at + (1 + m) + j
    <3>1. at \in Nat /\ m \in Nat /\ 21 * n \in Nat /\ m + 21 <= 21 * n
      BY <1>1, <1>2, <2>1
    <3> QED
      BY <3>1, InRow
  <2>6. \A j \in 1 .. 21 : b[at + (1 + m) + j] = e[j]
    BY <2>2, <2>3, <2>5
  <2>7. at + (1 + m) + 21 <= Len(b)
    BY <1>1, <1>2, <2>1
  <2>8. r.at + (1 + m) + 21 <= Len(b) /\ \A j \in 1 .. 21 : b[r.at + (1 + m) + j] = e[j]
    BY <2>6, <2>7
  <2>9. Part(b, r, 1 + m, 21) = e
    <3>1. 21 \in Nat
      OBVIOUS
    <3> QED
      BY <2>1, <2>4, <2>8, <3>1, PartWritten
  <2> QED
    BY <2>4, <2>9 DEF m
<1>13. z \in ReadValues
  <2>1. z \in [1 .. n -> Seq(Nat)]
    BY <1>5
  <2> HIDE DEF z, n
  <2>2. z \in Seq(Seq(Nat))
    BY <1>2, <2>1
  <2> QED
    BY <2>2 DEF ReadValues
<1> HIDE DEF n, at, ps, y, z
<1>14. 1 + n * 21 \in Nat /\ 1 + n * 21 = 1 + 21 * n /\ at + (1 + 21 * n) = at + 1 + 21 * n
  BY <1>1, <1>2
<1>15. at + 1 + 21 * n <= Len(b) => Take(b, r, 1 + n * 21, y) = Took(r, 1 + 21 * n, z)
  BY <1>12, <1>14, TakeIs DEF at
<1>16. at + (1 + 21 * n) + 9 <= Len(b) =>
          at + 1 <= Len(b) /\ at + 1 + 21 * n <= Len(b) /\ ~(Left(b, r) - 1 < n * 21 + 1 + 8)
  BY <1>1, <1>2, <1>9
<1>17. ~(at + (1 + 21 * n) + 9 <= Len(b)) => Left(b, r) - 1 < n * 21 + 1 + 8
  BY <1>1, <1>2, <1>9
<1>18. at + (1 + 21 * n) + 9 <= Len(b) => DecodeField(b, r, f) = Took(r, 1 + 21 * n, z)
  BY <1>8, <1>10, <1>15, <1>16
<1>19. ~(at + (1 + 21 * n) + 9 <= Len(b)) => DecodeField(b, r, f) = Fail(r)
  BY <1>8, <1>10, <1>11, <1>17
<1> QED
  BY <1>6, <1>13, <1>18, <1>19 DEF ReadsAs, at

\* Every field is read as what it keeps.
LEMMA FieldReads ==
    ASSUME NEW b \in Seq(Nat), NEW r \in Readers, r.ok, NEW f, IsField(f), NEW x \in FieldValues(f),
           Countable(f, x), Follows(b, r.at, EncodeField(f, x))
    PROVE  ReadsAs(b, r, f, x)
  BY RawReads, StrReads, DestsReads, ContentReads, ReservedReads DEF IsField

-----------------------------------------------------------------------------
\* PduCodec: a body is read as it was written, or not at all

\* Only a SUBMIT has destinations.
LEMMA DestsWhere ==
    ASSUME NEW k \in PduKinds, NEW i \in 1 .. Len(Layout[k]), Layout[k][i].type = "dests"
    PROVE  k = "Submit" /\ i = 18
<1> DEFINE Other == {[type |-> "raw", width |-> n] : n \in Nat} \cup {[type |-> "str", width |-> n] : n \in Nat}
                      \cup {[type |-> "reserved", width |-> n] : n \in Nat} \cup {Content}
<1>1. \A n \in Nat : Raw(n) \in Other /\ Str(n) \in Other /\ Reserved(n) \in Other
  BY DEF Raw, Str, Reserved
<1>2. Content \in Other
  OBVIOUS
<1>3. \A f \in Other : f.type # "dests"
  BY DEF Content
<1> HIDE DEF Other
<1>4. ConnectBody \in Seq(Other) /\ ConnectRespBody \in Seq(Other)
  BY <1>1 DEF ConnectBody, ConnectRespBody
<1>5. DeliverBody \in Seq(Other)
  BY <1>1, <1>2 DEF DeliverBody
<1>6. /\ SubmitRespBody \in Seq(Other) /\ DeliverRespBody \in Seq(Other)
      /\ <<>> \in Seq(Other) /\ <<Reserved(1)>> \in Seq(Other)
  BY <1>1 DEF SubmitRespBody, DeliverRespBody
<1>7. k # "Submit" => Layout[k] \in Seq(Other)
  BY <1>4, <1>5, <1>6, LayoutOf
<1>8. k = "Submit"
  <2> SUFFICES ASSUME k # "Submit" PROVE FALSE
    OBVIOUS
  <2>1. Layout[k][i] \in Other
    BY <1>7
  <2> QED
    BY <1>3, <2>1
<1>9. Len(SubmitBody) = 20 /\ \A j \in 1 .. 20 : j # 18 => SubmitBody[j] \in Other
  <2>1. Len(SubmitBody) = 20
    BY DEF SubmitBody
  <2>2. /\ SubmitBody[1] \in Other /\ SubmitBody[2] \in Other /\ SubmitBody[3] \in Other
        /\ SubmitBody[4] \in Other /\ SubmitBody[5] \in Other /\ SubmitBody[6] \in Other
        /\ SubmitBody[7] \in Other /\ SubmitBody[8] \in Other /\ SubmitBody[9] \in Other
    BY <1>1 DEF SubmitBody
  <2>3. /\ SubmitBody[10] \in Other /\ SubmitBody[11] \in Other /\ SubmitBody[12] \in Other
        /\ SubmitBody[13] \in Other /\ SubmitBody[14] \in Other /\ SubmitBody[15] \in Other
        /\ SubmitBody[16] \in Other /\ SubmitBody[17] \in Other
    BY <1>1 DEF SubmitBody
  <2>4. SubmitBody[19] \in Other /\ SubmitBody[20] \in Other
    BY <1>1, <1>2 DEF SubmitBody
  <2> QED
    BY <2>1, <2>2, <2>3, <2>4
<1>10. Layout[k] = SubmitBody
  BY <1>8, LayoutOf
<1> QED
  BY <1>3, <1>8, <1>9, <1>10

\* Where the fields of a PDU end.
EndsOf(k, v, l, n) ==
    /\ n = Len(Layout[k]) /\ l \in [0 .. n -> Nat] /\ l[0] = 0 /\ Len(EncodeBody(k, v)) = l[n]
    /\ \A i \in 1 .. n : l[i] = l[i - 1] + FieldSize(Layout[k][i], v[i]) /\ l[i] <= l[n]
    /\ \A i \in 1 .. n : \A j \in 1 .. FieldSize(Layout[k][i], v[i]) :
          EncodeBody(k, v)[l[i - 1] + j] = EncodeField(Layout[k][i], v[i])[j]

\* There are such places.
LEMMA EndsThere ==
    ASSUME NEW k, NEW v, IsPdu(k, v), NEW n, n = Len(Layout[k])
    PROVE  \E l : EndsOf(k, v, l, n)
<1>1. /\ n \in Nat
      /\ \A i \in 1 .. n :
            /\ IsField(Layout[k][i]) /\ v[i] \in FieldValues(Layout[k][i]) /\ Countable(Layout[k][i], v[i])
            /\ Fields(k, v)[i] = EncodeField(Layout[k][i], v[i])
  BY BodyLaid
<1>2. PICK l : Laid(EncodeBody(k, v), Fields(k, v), l, n)
  BY BodyLaid
<1>3. \A i \in 1 .. n : Len(Fields(k, v)[i]) = FieldSize(Layout[k][i], v[i])
  BY <1>1, EncodeFieldIs
<1>4. /\ l \in [0 .. n -> Nat] /\ l[0] = 0 /\ Len(EncodeBody(k, v)) = l[n]
      /\ \A i \in 1 .. n : l[i] = l[i - 1] + Len(Fields(k, v)[i]) /\ l[i] <= l[n]
  BY <1>2 DEF Laid
<1>5. \A i \in 1 .. n : l[i] = l[i - 1] + FieldSize(Layout[k][i], v[i]) /\ l[i] <= l[n]
  BY <1>3, <1>4
<1>6. \A i \in 1 .. n : \A j \in 1 .. FieldSize(Layout[k][i], v[i]) :
          EncodeBody(k, v)[l[i - 1] + j] = EncodeField(Layout[k][i], v[i])[j]
  <2>1. \A i \in 1 .. n : \A j \in 1 .. Len(Fields(k, v)[i]) :
            EncodeBody(k, v)[l[i - 1] + j] = Fields(k, v)[i][j]
    BY <1>2 DEF Laid
  <2> QED
    BY <1>1, <1>3, <2>1
<1>7. EndsOf(k, v, l, n)
  BY <1>4, <1>5, <1>6 DEF EndsOf
<1> QED
  BY <1>7

\* What is left behind the destinations is there.
LEMMA RoomBehind ==
    ASSUME NEW k, NEW v, IsPdu(k, v), NEW n, NEW l, EndsOf(k, v, l, n), NEW i \in 1 .. n
    PROVE  l[i] + Behind(Layout[k][i]) <= l[n]
<1>1. n = Len(Layout[k]) /\ n \in Nat /\ l[i] <= l[n] /\ l[i] \in Nat /\ l[n] \in Nat
  <2>1. n \in Nat
    BY LayoutIs DEF IsPdu, EndsOf
  <2> QED
    BY <2>1 DEF EndsOf
<1>2. CASE Layout[k][i].type # "dests"
  BY <1>1, <1>2 DEF Behind
<1>3. CASE Layout[k][i].type = "dests"
  <2>1. k = "Submit" /\ i = 18 /\ k \in PduKinds
    BY <1>1, <1>3, DestsWhere DEF IsPdu
  <2>2. Layout[k] = SubmitBody /\ n = 20 /\ Layout[k][19] = Content /\ Layout[k][20] = Reserved(8)
    BY <1>1, <2>1, LayoutOf DEF SubmitBody
  <2>3. 18 \in 0 .. n /\ 19 \in 1 .. n /\ 20 \in 1 .. n /\ 19 - 1 = 18 /\ 20 - 1 = 19 /\ 19 \in 0 .. n
    BY <2>2
  <2>4. /\ l[19] = l[18] + FieldSize(Content, v[19]) /\ l[20] = l[19] + FieldSize(Reserved(8), v[20])
        /\ l[18] \in Nat
    BY <2>2, <2>3 DEF EndsOf
  <2>5. FieldSize(Reserved(8), v[20]) = 8
    BY DEF FieldSize, Reserved
  <2>6. FieldSize(Content, v[19]) = 1 + Len(v[19]) /\ Len(v[19]) \in Nat
    <3>1. v[19] \in FieldValues(Content)
      BY <2>2, <2>3, BodyLaid DEF EndsOf
    <3>2. v[19] \in Seq(Octets)
      BY <3>1 DEF FieldValues, Content
    <3> QED
      BY <3>2 DEF FieldSize, Content
  <2> QED
    BY <1>3, <2>1, <2>2, <2>4, <2>5, <2>6 DEF Behind
<1> QED
  BY <1>2, <1>3

\* The fields are read so far as they were written, and all of them if the body
\* is long enough.
Tracks(b, k, v, l, n, i, r) ==
    /\ r.ok => /\ r.at = l[i] /\ l[i] <= Len(b) /\ Len(r.fields) = i
               /\ \A m \in 1 .. i : r.fields[m] = Normal(Layout[k][m], v[m])
    /\ l[n] <= Len(b) => r.ok

\* A body that goes on as a PDU was written, as far as it goes.
LEMMA FollowsField ==
    ASSUME NEW k, NEW v, IsPdu(k, v), NEW n, NEW l, EndsOf(k, v, l, n), NEW i \in 1 .. n,
           NEW b \in Seq(Nat), Follows(b, 0, EncodeBody(k, v))
    PROVE  Follows(b, l[i - 1], EncodeField(Layout[k][i], v[i]))
<1> DEFINE e == EncodeBody(k, v)
           x == EncodeField(Layout[k][i], v[i])
           z == FieldSize(Layout[k][i], v[i])
           at == l[i - 1]
<1>1. n = Len(Layout[k]) /\ n \in Nat
  BY LayoutIs DEF IsPdu, EndsOf
<1>2. Len(x) = z /\ z \in Nat
  BY <1>1, BodyLaid, EncodeFieldIs
<1>3. at \in Nat /\ at + z <= Len(e) /\ \A j \in 1 .. z : e[at + j] = x[j]
  <2>1. i - 1 \in 0 .. n /\ n \in 0 .. n
    BY <1>1
  <2> QED
    BY <2>1 DEF EndsOf
<1>4. \A j \in 1 .. Len(e) : 0 + j <= Len(b) => b[0 + j] = e[j]
  BY DEF Follows
<1>5. Len(e) \in Nat
  BY <1>1 DEF EndsOf
<1> HIDE DEF e, x, z, at
<1>6. ASSUME NEW j \in 1 .. Len(x), at + j <= Len(b) PROVE b[at + j] = x[j]
  <2>1. at + j \in 1 .. Len(e) /\ 0 + (at + j) = at + j
    BY <1>2, <1>3, <1>5
  <2>2. b[at + j] = e[at + j]
    BY <1>4, <1>6, <2>1
  <2> QED
    BY <1>2, <1>3, <2>2
<1> QED
  BY <1>6 DEF Follows, x, at

\* One field more.
LEMMA TracksNext ==
    ASSUME NEW k, NEW v, IsPdu(k, v), NEW n, NEW l, EndsOf(k, v, l, n), NEW i \in 1 .. n,
           NEW b \in Seq(Nat), Follows(b, 0, EncodeBody(k, v)),
           NEW r \in Readers, Tracks(b, k, v, l, n, i - 1, r)
    PROVE  Tracks(b, k, v, l, n, i, DecodeField(b, r, Layout[k][i]))
<1> DEFINE f == Layout[k][i]
           x == v[i]
           z == FieldSize(f, x)
           m == Behind(f)
           y == Normal(f, x)
           s == DecodeField(b, r, f)
<1>1. /\ n \in Nat /\ n = Len(Layout[k]) /\ IsField(f) /\ x \in FieldValues(f) /\ Countable(f, x) /\ z \in Nat
      /\ Len(b) \in Nat
  <2>1. n = Len(Layout[k])
    BY DEF EndsOf
  <2>2. n \in Nat /\ IsField(f) /\ x \in FieldValues(f) /\ Countable(f, x)
    BY <2>1, BodyLaid
  <2> QED
    BY <2>1, <2>2, EncodeFieldIs
<1>2. l[i] = l[i - 1] + z /\ l[i] \in Nat /\ l[i - 1] \in Nat /\ l[n] \in Nat
  <2>1. i - 1 \in 0 .. n /\ n \in 0 .. n /\ i \in 0 .. n
    BY <1>1
  <2> QED
    BY <2>1 DEF EndsOf
<1>3. l[i] + m <= l[n] /\ m \in Nat
  BY RoomBehind DEF Behind
<1>4. CASE ~r.ok
  <2>1. s = r
    BY <1>4 DEF DecodeField
  <2>2. ~(l[n] <= Len(b))
    BY <1>4 DEF Tracks
  <2> QED
    BY <1>4, <2>1, <2>2 DEF Tracks
<1>5. CASE r.ok
  <2>1. /\ r.at = l[i - 1] /\ Len(r.fields) = i - 1
        /\ \A j \in 1 .. i - 1 : r.fields[j] = Normal(Layout[k][j], v[j])
    BY <1>5 DEF Tracks
  <2>2. Follows(b, r.at, EncodeField(f, x))
    BY <2>1, FollowsField
  <2> HIDE DEF f, x
  <2>3. ReadsAs(b, r, f, x)
    BY <1>1, <1>5, <2>2, FieldReads
  <2>4. /\ y \in ReadValues
        /\ r.at + z + m <= Len(b) => s = Took(r, z, y)
        /\ ~(r.at + z + m <= Len(b)) => s = Fail(r)
    BY <2>3 DEF ReadsAs
  <2> HIDE DEF z, m, y, s
  <2>5. CASE r.at + z + m <= Len(b)
    <3>1. s.ok /\ s.at = r.at + z /\ s.fields = Append(r.fields, y)
      <4>1. s = Took(r, z, y)
        BY <2>4, <2>5
      <4>2. /\ Took(r, z, y).ok = r.ok /\ Took(r, z, y).at = r.at + z
            /\ Took(r, z, y).fields = Append(r.fields, y)
        BY <1>1, <2>4, ReadersStay
      <4> QED
        BY <1>5, <4>1, <4>2
    <3>2. r.fields \in Seq(ReadValues)
      BY DEF Readers
    <3>3. Len(s.fields) = i /\ s.fields[i] = y /\ \A j \in 1 .. i - 1 : s.fields[j] = r.fields[j]
      <4> DEFINE g == r.fields
                 h == Append(g, y)
      <4>1. Len(h) = Len(g) + 1 /\ h[Len(g) + 1] = y /\ \A j \in 1 .. Len(g) : h[j] = g[j]
        BY <2>4, <3>2, AppendProperties
      <4>2. Len(g) = i - 1 /\ i - 1 + 1 = i /\ s.fields = h
        BY <2>1, <3>1
      <4> HIDE DEF g, h
      <4> QED
        BY <4>1, <4>2 DEF g
    <3>4. \A j \in 1 .. i : j \in 1 .. i - 1 \/ j = i
      OBVIOUS
    <3>5. \A j \in 1 .. i : s.fields[j] = Normal(Layout[k][j], v[j])
      BY <2>1, <3>3, <3>4 DEF y, f, x
    <3>6. s.at = l[i] /\ l[i] <= Len(b)
      BY <1>1, <1>2, <1>3, <2>1, <2>5, <3>1
    <3> QED
      BY <3>1, <3>3, <3>5, <3>6 DEF Tracks, s, f
  <2>6. CASE ~(r.at + z + m <= Len(b))
    <3>1. ~s.ok
      BY <2>4, <2>6, ReadersStay
    <3>2. ~(l[n] <= Len(b))
      BY <1>1, <1>2, <1>3, <2>1, <2>6
    <3> QED
      BY <3>1, <3>2 DEF Tracks, s, f
  <2> QED
    BY <2>5, <2>6
<1> QED
  BY <1>4, <1>5

\* What decode makes of a body that goes on as a PDU was written: it is that
\* PDU, as far as its strings keep it, if the body has its length, and no PDU
\* if it has any other.
LEMMA BodyExact ==
    ASSUME NEW k, NEW v, IsPdu(k, v), NEW b \in Seq(Nat), Follows(b, 0, EncodeBody(k, v))
    PROVE  /\ DecodeBody(k, b).ok <=> Len(b) = Len(EncodeBody(k, v))
           /\ Len(b) = Len(EncodeBody(k, v)) =>
                 DecodeBody(k, b) = [ok |-> TRUE, fields |-> [i \in DOMAIN v |-> Normal(Layout[k][i], v[i])]]
<1> DEFINE n == Len(Layout[k])
           r == ReadBody(k, b)
<1>1. n \in Nat /\ k \in PduKinds /\ DOMAIN v = 1 .. n
  BY BodyLaid DEF IsPdu
<1>2. PICK l : EndsOf(k, v, l, n)
  BY EndsThere
<1>3. PICK c : Reads(b, Layout[k], c, n) /\ r = c[n]
  BY <1>1, ReadLoops
<1>4. /\ c \in [0 .. n -> Readers] /\ c[0] = [ok |-> TRUE, at |-> 0, fields |-> <<>>]
      /\ \A i \in 1 .. n : c[i] = DecodeField(b, c[i - 1], Layout[k][i])
  BY <1>3 DEF Reads
<1> DEFINE P == {i \in 0 .. n : Tracks(b, k, v, l, n, i, c[i])}
<1> HIDE DEF n
<1>5. 0 \in P
  <2>1. l[0] = 0 /\ Len(b) \in Nat
    BY <1>2 DEF EndsOf
  <2>2. Tracks(b, k, v, l, n, 0, c[0])
    BY <1>4, <2>1 DEF Tracks
  <2> QED
    BY <1>1, <2>2
<1>6. ASSUME NEW i \in 1 .. n, i - 1 \in P PROVE i \in P
  <2>1. i \in 0 .. n /\ i - 1 \in 0 .. n
    BY <1>1
  <2>2. c[i - 1] \in Readers /\ Tracks(b, k, v, l, n, i - 1, c[i - 1])
    BY <1>4, <1>6, <2>1
  <2>3. Tracks(b, k, v, l, n, i, DecodeField(b, c[i - 1], Layout[k][i]))
    BY <1>2, <2>2, TracksNext
  <2> QED
    BY <1>4, <2>1, <2>3
<1> HIDE DEF P
<1>7. n \in P
  <2>1. \A i \in 0 .. n : i \in P
    BY <1>1, <1>5, <1>6, UpTo
  <2> QED
    BY <1>1, <2>1
<1>8. Tracks(b, k, v, l, n, n, r) /\ r \in Readers
  <2>1. n \in 0 .. n
    BY <1>1
  <2> QED
    BY <1>3, <1>4, <1>7, <2>1 DEF P
<1>9. Len(EncodeBody(k, v)) = l[n] /\ l[n] \in Nat /\ Len(b) \in Nat
  <2>1. n \in 0 .. n
    BY <1>1
  <2> QED
    BY <1>2, <2>1 DEF EndsOf
<1> HIDE DEF r
<1>10. DecodeBody(k, b) = [ok |-> r.ok /\ r.at = Len(b), fields |-> r.fields]
  BY DEF DecodeBody, r
<1>11. /\ r.ok => r.at = l[n] /\ l[n] <= Len(b)
       /\ l[n] <= Len(b) => r.ok
  BY <1>8 DEF Tracks
<1>12. r.ok /\ r.at = Len(b) <=> Len(b) = l[n]
  BY <1>9, <1>11
<1> DEFINE y == [i \in DOMAIN v |-> Normal(Layout[k][i], v[i])]
<1>13. ASSUME Len(b) = l[n] PROVE r.fields = y
  <2>1. Len(r.fields) = n /\ \A m \in 1 .. n : r.fields[m] = Normal(Layout[k][m], v[m])
    BY <1>8, <1>9, <1>11, <1>13 DEF Tracks
  <2>2. r.fields \in Seq(ReadValues)
    BY <1>8 DEF Readers
  <2>3. r.fields = [m \in 1 .. n |-> r.fields[m]]
    <3> DEFINE g == r.fields
    <3>1. g \in [1 .. Len(g) -> ReadValues]
      BY <2>2
    <3> HIDE DEF g
    <3>2. g = [m \in 1 .. Len(g) |-> g[m]]
      BY <3>1
    <3> QED
      BY <2>1, <3>2 DEF g
  <2>4. y = [m \in 1 .. n |-> r.fields[m]]
    BY <1>1, <2>1
  <2> QED
    BY <2>3, <2>4
<1> HIDE DEF y
<1>15. ASSUME Len(b) = l[n] PROVE DecodeBody(k, b) = [ok |-> TRUE, fields |-> y]
  <2>1. (r.ok /\ r.at = Len(b)) = TRUE
    BY <1>12, <1>15
  <2> QED
    BY <1>10, <1>13, <1>15, <2>1
<1>16. ASSUME Len(b) # l[n] PROVE ~DecodeBody(k, b).ok
  <2>1. (r.ok /\ r.at = Len(b)) = FALSE
    BY <1>12, <1>16
  <2>2. DecodeBody(k, b) = [ok |-> FALSE, fields |-> r.fields]
    BY <1>10, <2>1
  <2> QED
    BY <2>2
<1>17. Len(b) = l[n] => DecodeBody(k, b).ok
  BY <1>15
<1> QED
  BY <1>9, <1>15, <1>16, <1>17 DEF y

-----------------------------------------------------------------------------
\* PduCodec: the length announced for a body

\* What the fields take.
LEMMA FieldWidths ==
    /\ \A n \in Nat : \A x : FieldSize(Raw(n), x) = n /\ FieldSize(Str(n), x) = n /\ FieldSize(Reserved(n), x) = n
    /\ \A x : FieldSize(Dests, x) = 1 + 21 * Len(x) /\ FieldSize(Content, x) = 1 + Len(x)
  BY DEF FieldSize, Raw, Str, Reserved, Dests, Content

\* Where the fields end that take so much.
Summed(l, fs, v, n) == l[0] = 0 /\ \A i \in 1 .. n : l[i] = l[i - 1] + FieldSize(fs[i], v[i])

\* The fields of a SUBMIT, one after the other.
LEMMA SubmitEnds ==
    ASSUME NEW v, NEW l, Summed(l, SubmitBody, v, 20), NEW a \in Nat, Len(v[18]) = a, NEW d \in Nat, Len(v[19]) = d
    PROVE  l[20] = 126 + 21 * a + d
<1> DEFINE w(i) == FieldSize(SubmitBody[i], v[i])
<1>1. l[0] = 0 /\ \A i \in 1 .. 20 : l[i] = l[i - 1] + w(i)
  BY DEF Summed
<1>2. w(1) = 8 /\ w(2) = 1 /\ w(3) = 1 /\ w(4) = 1 /\ w(5) = 1
  <2>1. /\ SubmitBody[1] = Raw(8) /\ SubmitBody[2] = Raw(1) /\ SubmitBody[3] = Raw(1)
        /\ SubmitBody[4] = Raw(1) /\ SubmitBody[5] = Raw(1)
    BY DEF SubmitBody
  <2> QED
    BY <2>1, FieldWidths
<1>3. w(6) = 10 /\ w(7) = 1 /\ w(8) = 21 /\ w(9) = 1 /\ w(10) = 1
  <2>1. /\ SubmitBody[6] = Str(10) /\ SubmitBody[7] = Raw(1) /\ SubmitBody[8] = Str(21)
        /\ SubmitBody[9] = Raw(1) /\ SubmitBody[10] = Raw(1)
    BY DEF SubmitBody
  <2> QED
    BY <2>1, FieldWidths
<1>4. w(11) = 1 /\ w(12) = 6 /\ w(13) = 2 /\ w(14) = 6 /\ w(15) = 17
  <2>1. /\ SubmitBody[11] = Raw(1) /\ SubmitBody[12] = Str(6) /\ SubmitBody[13] = Str(2)
        /\ SubmitBody[14] = Str(6) /\ SubmitBody[15] = Str(17)
    BY DEF SubmitBody
  <2> QED
    BY <2>1, FieldWidths
<1>5. w(16) = 17 /\ w(17) = 21 /\ w(18) = 1 + 21 * a /\ w(19) = 1 + d /\ w(20) = 8
  <2>1. /\ SubmitBody[16] = Str(17) /\ SubmitBody[17] = Str(21) /\ SubmitBody[18] = Dests
        /\ SubmitBody[19] = Content /\ SubmitBody[20] = Reserved(8)
    BY DEF SubmitBody
  <2> QED
    BY <2>1, FieldWidths
<1> HIDE DEF w
<1>6. l[1] = 8 /\ l[2] = 9
  <2>1. l[1] = l[0] + w(1) /\ l[2] = l[1] + w(2)
    BY <1>1
  <2> QED
    BY <1>1, <1>2, <2>1
<1>7. l[3] = 10 /\ l[4] = 11
  <2>1. l[3] = l[2] + w(3) /\ l[4] = l[3] + w(4)
    BY <1>1
  <2> QED
    BY <1>6, <1>2, <2>1
<1>8. l[5] = 12 /\ l[6] = 22
  <2>1. l[5] = l[4] + w(5) /\ l[6] = l[5] + w(6)
    BY <1>1
  <2> QED
    BY <1>7, <1>2, <1>3, <2>1
<1>9. l[7] = 23 /\ l[8] = 44
  <2>1. l[7] = l[6] + w(7) /\ l[8] = l[7] + w(8)
    BY <1>1
  <2> QED
    BY <1>8, <1>3, <2>1
<1>10. l[9] = 45 /\ l[10] = 46
  <2>1. l[9] = l[8] + w(9) /\ l[10] = l[9] + w(10)
    BY <1>1
  <2> QED
    BY <1>9, <1>3, <2>1
<1>11. l[11] = 47 /\ l[12] = 53
  <2>1. l[11] = l[10] + w(11) /\ l[12] = l[11] + w(12)
    BY <1>1
  <2> QED
    BY <1>10, <1>4, <2>1
<1>12. l[13] = 55 /\ l[14] = 61
  <2>1. l[13] = l[12] + w(13) /\ l[14] = l[13] + w(14)
    BY <1>1
  <2> QED
    BY <1>11, <1>4, <2>1
<1>13. l[15] = 78 /\ l[16] = 95
  <2>1. l[15] = l[14] + w(15) /\ l[16] = l[15] + w(16)
    BY <1>1
  <2> QED
    BY <1>12, <1>4, <1>5, <2>1
<1>14. l[17] = 116
  <2>1. l[17] = l[16] + w(17)
    BY <1>1
  <2> QED
    BY <1>13, <1>5, <2>1
<1>15. l[18] = 117 + 21 * a
  <2>1. l[18] = l[17] + w(18)
    BY <1>1
  <2> QED
    BY <1>14, <1>5, <2>1
<1>16. l[19] = 118 + 21 * a + d
  <2>1. l[19] = l[18] + w(19)
    BY <1>1
  <2> QED
    BY <1>15, <1>5, <2>1
<1>17. l[20] = 126 + 21 * a + d
  <2>1. l[20] = l[19] + w(20)
    BY <1>1
  <2> QED
    BY <1>16, <1>5, <2>1
<1> QED
  BY <1>17

\* The fields of a DELIVER.
LEMMA DeliverEnds ==
    ASSUME NEW v, NEW l, Summed(l, DeliverBody, v, 10), NEW a \in Nat, Len(v[9]) = a
    PROVE  l[10] = 73 + a
<1> DEFINE w(i) == FieldSize(DeliverBody[i], v[i])
<1>1. l[0] = 0 /\ \A i \in 1 .. 10 : l[i] = l[i - 1] + w(i)
  BY DEF Summed
<1>2. w(1) = 8 /\ w(2) = 21 /\ w(3) = 10 /\ w(4) = 1 /\ w(5) = 1
  <2>1. /\ DeliverBody[1] = Raw(8) /\ DeliverBody[2] = Str(21) /\ DeliverBody[3] = Str(10)
        /\ DeliverBody[4] = Raw(1) /\ DeliverBody[5] = Raw(1)
    BY DEF DeliverBody
  <2> QED
    BY <2>1, FieldWidths
<1>3. w(6) = 1 /\ w(7) = 21 /\ w(8) = 1 /\ w(9) = 1 + a /\ w(10) = 8
  <2>1. /\ DeliverBody[6] = Raw(1) /\ DeliverBody[7] = Str(21) /\ DeliverBody[8] = Raw(1)
        /\ DeliverBody[9] = Content /\ DeliverBody[10] = Reserved(8)
    BY DEF DeliverBody
  <2> QED
    BY <2>1, FieldWidths
<1> HIDE DEF w
<1>4. l[1] = 8 /\ l[2] = 29
  <2>1. l[1] = l[0] + w(1) /\ l[2] = l[1] + w(2)
    BY <1>1
  <2> QED
    BY <1>1, <1>2, <2>1
<1>5. l[3] = 39 /\ l[4] = 40
  <2>1. l[3] = l[2] + w(3) /\ l[4] = l[3] + w(4)
    BY <1>1
  <2> QED
    BY <1>4, <1>2, <2>1
<1>6. l[5] = 41 /\ l[6] = 42
  <2>1. l[5] = l[4] + w(5) /\ l[6] = l[5] + w(6)
    BY <1>1
  <2> QED
    BY <1>5, <1>2, <1>3, <2>1
<1>7. l[7] = 63 /\ l[8] = 64
  <2>1. l[7] = l[6] + w(7) /\ l[8] = l[7] + w(8)
    BY <1>1
  <2> QED
    BY <1>6, <1>3, <2>1
<1>8. l[9] = 65 + a
  <2>1. l[9] = l[8] + w(9)
    BY <1>1
  <2> QED
    BY <1>7, <1>3, <2>1
<1>9. l[10] = 73 + a
  <2>1. l[10] = l[9] + w(10)
    BY <1>1
  <2> QED
    BY <1>8, <1>3, <2>1
<1> QED
  BY <1>9

\* The fields of a CONNECT.
LEMMA ConnectEnds ==
    ASSUME NEW v, NEW l, Summed(l, ConnectBody, v, 4)
    PROVE  l[4] = 27
<1> DEFINE w(i) == FieldSize(ConnectBody[i], v[i])
<1>1. l[0] = 0 /\ \A i \in 1 .. 4 : l[i] = l[i - 1] + w(i)
  BY DEF Summed
<1>2. w(1) = 6 /\ w(2) = 16 /\ w(3) = 1 /\ w(4) = 4
  <2>1. /\ ConnectBody[1] = Str(6) /\ ConnectBody[2] = Raw(16) /\ ConnectBody[3] = Raw(1)
        /\ ConnectBody[4] = Raw(4)
    BY DEF ConnectBody
  <2> QED
    BY <2>1, FieldWidths
<1> HIDE DEF w
<1>3. l[1] = 6 /\ l[2] = 22
  <2>1. l[1] = l[0] + w(1) /\ l[2] = l[1] + w(2)
    BY <1>1
  <2> QED
    BY <1>1, <1>2, <2>1
<1>4. l[3] = 23 /\ l[4] = 27
  <2>1. l[3] = l[2] + w(3) /\ l[4] = l[3] + w(4)
    BY <1>1
  <2> QED
    BY <1>3, <1>2, <2>1
<1> QED
  BY <1>4

\* The fields of its response.
LEMMA ConnectRespEnds ==
    ASSUME NEW v, NEW l, Summed(l, ConnectRespBody, v, 3)
    PROVE  l[3] = 18
<1> DEFINE w(i) == FieldSize(ConnectRespBody[i], v[i])
<1>1. l[0] = 0 /\ \A i \in 1 .. 3 : l[i] = l[i - 1] + w(i)
  BY DEF Summed
<1>2. w(1) = 1 /\ w(2) = 16 /\ w(3) = 1
  <2>1. /\ ConnectRespBody[1] = Raw(1) /\ ConnectRespBody[2] = Raw(16) /\ ConnectRespBody[3] = Raw(1)
    BY DEF ConnectRespBody
  <2> QED
    BY <2>1, FieldWidths
<1> HIDE DEF w
<1>3. l[1] = 1 /\ l[2] = 17
  <2>1. l[1] = l[0] + w(1) /\ l[2] = l[1] + w(2)
    BY <1>1
  <2> QED
    BY <1>1, <1>2, <2>1
<1>4. l[3] = 18
  <2>1. l[3] = l[2] + w(3)
    BY <1>1
  <2> QED
    BY <1>3, <1>2, <2>1
<1> QED
  BY <1>4

\* The fields of the response to a SUBMIT.
LEMMA SubmitRespEnds ==
    ASSUME NEW v, NEW l, Summed(l, SubmitRespBody, v, 2)
    PROVE  l[2] = 9
<1> DEFINE w(i) == FieldSize(SubmitRespBody[i], v[i])
<1>1. l[0] = 0 /\ \A i \in 1 .. 2 : l[i] = l[i - 1] + w(i)
  BY DEF Summed
<1>2. w(1) = 8 /\ w(2) = 1
  <2>1. /\ SubmitRespBody[1] = Raw(8) /\ SubmitRespBody[2] = Raw(1)
    BY DEF SubmitRespBody
  <2> QED
    BY <2>1, FieldWidths
<1> HIDE DEF w
<1>3. l[1] = 8 /\ l[2] = 9
  <2>1. l[1] = l[0] + w(1) /\ l[2] = l[1] + w(2)
    BY <1>1
  <2> QED
    BY <1>1, <1>2, <2>1
<1> QED
  BY <1>3

\* The fields of the response to a DELIVER.
LEMMA DeliverRespEnds ==
    ASSUME NEW v, NEW l, Summed(l, DeliverRespBody, v, 2)
    PROVE  l[2] = 9
<1> DEFINE w(i) == FieldSize(DeliverRespBody[i], v[i])
<1>1. l[0] = 0 /\ \A i \in 1 .. 2 : l[i] = l[i - 1] + w(i)
  BY DEF Summed
<1>2. w(1) = 8 /\ w(2) = 1
  <2>1. /\ DeliverRespBody[1] = Raw(8) /\ DeliverRespBody[2] = Raw(1)
    BY DEF DeliverRespBody
  <2> QED
    BY <2>1, FieldWidths
<1> HIDE DEF w
<1>3. l[1] = 8 /\ l[2] = 9
  <2>1. l[1] = l[0] + w(1) /\ l[2] = l[1] + w(2)
    BY <1>1
  <2> QED
    BY <1>1, <1>2, <2>1
<1> QED
  BY <1>3

\* The hint is the sum of what the fields take, and fits a frame.
LEMMA HintIsLength ==
    ASSUME NEW k, NEW v, IsPdu(k, v)
    PROVE  /\ Len(EncodeBody(k, v)) = BodyLenHint(k, v)
           /\ HeaderBytes + Len(EncodeBody(k, v)) <= MaxFrame
<1> DEFINE n == Len(Layout[k])
           e == Len(EncodeBody(k, v))
<1>1. PICK l : EndsOf(k, v, l, n)
  BY EndsThere
<1>2. k \in PduKinds
  BY DEF IsPdu
<1>3. e = l[n] /\ l[0] = 0 /\ \A i \in 1 .. n : l[i] = l[i - 1] + FieldSize(Layout[k][i], v[i])
  BY <1>1 DEF EndsOf
<1>4. \A i \in 1 .. n : v[i] \in FieldValues(Layout[k][i]) /\ Countable(Layout[k][i], v[i])
  BY BodyLaid
<1> HIDE DEF e
<1>5. CASE k = "Submit"
  <2>1. Layout[k] = SubmitBody
    BY <1>5, LayoutOf
  <2>2. n = 20 /\ SubmitBody[18] = Dests /\ SubmitBody[19] = Content
    BY <2>1 DEF SubmitBody
  <2>3. Len(v[18]) \in Nat /\ Len(v[18]) <= 255
    <3>1. v[18] \in FieldValues(Dests) /\ Countable(Dests, v[18])
      BY <1>4, <2>1, <2>2
    <3>2. v[18] \in Seq(Seq(CodePoints))
      BY <3>1 DEF FieldValues, Dests
    <3>3. Len(v[18]) <= 255
      BY <3>1 DEF Countable, Dests, Max8
    <3> QED
      BY <3>2, <3>3
  <2>4. Len(v[19]) \in Nat /\ Len(v[19]) <= 255
    <3>1. v[19] \in FieldValues(Content) /\ Countable(Content, v[19])
      BY <1>4, <2>1, <2>2
    <3>2. v[19] \in Seq(Octets)
      BY <3>1 DEF FieldValues, Content
    <3>3. Len(v[19]) <= 255
      BY <3>1 DEF Countable, Content, Max8
    <3> QED
      BY <3>2, <3>3
  <2> DEFINE a == Len(v[18])
             d == Len(v[19])
  <2>5. BodyLenHint(k, v) = 126 + 21 * a + d
    BY <1>5 DEF BodyLenHint, Size
  <2>6. a \in Nat /\ a <= 255 /\ d \in Nat /\ d <= 255 /\ Len(v[18]) = a /\ Len(v[19]) = d
    BY <2>3, <2>4
  <2> HIDE DEF a, d
  <2>7. Summed(l, SubmitBody, v, 20)
    BY <1>3, <2>1, <2>2 DEF Summed
  <2>8. l[20] = 126 + 21 * a + d
    BY <2>6, <2>7, SubmitEnds
  <2>9. e = 126 + 21 * a + d /\ 12 + (126 + 21 * a + d) <= 65536
    BY <1>3, <2>2, <2>6, <2>8
  <2> QED
    BY <2>5, <2>9 DEF HeaderBytes, MaxFrame, e
<1>6. CASE k = "Deliver"
  <2>1. Layout[k] = DeliverBody
    BY <1>6, LayoutOf
  <2>2. n = 10 /\ DeliverBody[9] = Content
    BY <2>1 DEF DeliverBody
  <2>3. Len(v[9]) \in Nat /\ Len(v[9]) <= 255
    <3>1. v[9] \in FieldValues(Content) /\ Countable(Content, v[9])
      BY <1>4, <2>1, <2>2
    <3>2. v[9] \in Seq(Octets)
      BY <3>1 DEF FieldValues, Content
    <3>3. Len(v[9]) <= 255
      BY <3>1 DEF Countable, Content, Max8
    <3> QED
      BY <3>2, <3>3
  <2> DEFINE a == Len(v[9])
  <2>4. BodyLenHint(k, v) = 73 + a
    BY <1>6 DEF BodyLenHint, Size
  <2>5. a \in Nat /\ a <= 255 /\ Len(v[9]) = a
    BY <2>3
  <2> HIDE DEF a
  <2>6. Summed(l, DeliverBody, v, 10)
    BY <1>3, <2>1, <2>2 DEF Summed
  <2>7. l[10] = 73 + a
    BY <2>5, <2>6, DeliverEnds
  <2>8. e = 73 + a /\ 12 + (73 + a) <= 65536
    BY <1>3, <2>2, <2>5, <2>7
  <2> QED
    BY <2>4, <2>8 DEF HeaderBytes, MaxFrame, e
<1>7. CASE k = "Connect"
  <2>1. Layout[k] = ConnectBody
    BY <1>7, LayoutOf
  <2>2. n = 4
    BY <2>1 DEF ConnectBody
  <2>3. Summed(l, ConnectBody, v, 4)
    BY <1>3, <2>1, <2>2 DEF Summed
  <2>4. e = 27
    BY <1>3, <2>2, <2>3, ConnectEnds
  <2>5. BodyLenHint(k, v) = 27
    BY <1>7 DEF BodyLenHint
  <2> QED
    BY <2>4, <2>5 DEF HeaderBytes, MaxFrame, e
<1>8. CASE k = "ConnectResp"
  <2>1. Layout[k] = ConnectRespBody
    BY <1>8, LayoutOf
  <2>2. n = 3
    BY <2>1 DEF ConnectRespBody
  <2>3. Summed(l, ConnectRespBody, v, 3)
    BY <1>3, <2>1, <2>2 DEF Summed
  <2>4. e = 18
    BY <1>3, <2>2, <2>3, ConnectRespEnds
  <2>5. BodyLenHint(k, v) = 18
    BY <1>8 DEF BodyLenHint
  <2> QED
    BY <2>4, <2>5 DEF HeaderBytes, MaxFrame, e
<1>9. CASE k = "SubmitResp"
  <2>1. Layout[k] = SubmitRespBody
    BY <1>9, LayoutOf
  <2>2. n = 2
    BY <2>1 DEF SubmitRespBody
  <2>3. Summed(l, SubmitRespBody, v, 2)
    BY <1>3, <2>1, <2>2 DEF Summed
  <2>4. e = 9
    BY <1>3, <2>2, <2>3, SubmitRespEnds
  <2>5. BodyLenHint(k, v) = 9
    BY <1>9 DEF BodyLenHint
  <2> QED
    BY <2>4, <2>5 DEF HeaderBytes, MaxFrame, e
<1>10. CASE k = "DeliverResp"
  <2>1. Layout[k] = DeliverRespBody
    BY <1>10, LayoutOf
  <2>2. n = 2
    BY <2>1 DEF DeliverRespBody
  <2>3. Summed(l, DeliverRespBody, v, 2)
    BY <1>3, <2>1, <2>2 DEF Summed
  <2>4. e = 9
    BY <1>3, <2>2, <2>3, DeliverRespEnds
  <2>5. BodyLenHint(k, v) = 9
    BY <1>10 DEF BodyLenHint
  <2> QED
    BY <2>4, <2>5 DEF HeaderBytes, MaxFrame, e
<1>11. CASE k = "ActiveTestResp"
  <2>1. Layout[k] = <<Reserved(1)>>
    BY <1>11, LayoutOf
  <2>2. n = 1 /\ Layout[k][1] = Reserved(1)
    BY <2>1
  <2>3. l[1] = l[0] + FieldSize(Layout[k][1], v[1])
    BY <1>3, <2>2
  <2>4. FieldSize(Layout[k][1], v[1]) = 1
    BY <2>2, FieldWidths
  <2>5. e = 1
    BY <1>3, <2>2, <2>3, <2>4
  <2>6. BodyLenHint(k, v) = 1
    BY <1>11 DEF BodyLenHint
  <2> QED
    BY <2>5, <2>6 DEF HeaderBytes, MaxFrame, e
<1>12. CASE k \in {"ActiveTest", "Terminate", "TerminateResp"}
  <2>1. Layout[k] = <<>>
    BY <1>12, LayoutOf
  <2>2. n = 0
    BY <2>1
  <2>3. e = 0
    BY <1>3, <2>2
  <2>4. BodyLenHint(k, v) = 0
    BY <1>12 DEF BodyLenHint
  <2> QED
    BY <2>3, <2>4 DEF HeaderBytes, MaxFrame, e
<1> QED
  BY <1>2, <1>5, <1>6, <1>7, <1>8, <1>9, <1>10, <1>11, <1>12, LayoutOf

-----------------------------------------------------------------------------
\* PduCodec: what holds of the body on its way

\* The field values can be what they are; a body that was sent is of a PDU that
\* can be encoded, goes on as it was written, and has another length if it was
\* damaged; and what was read is what decode makes of it.
PduInv ==
    /\ kind \in PduKinds /\ DOMAIN pdu = DOMAIN Layout[kind]
    /\ \A i \in DOMAIN pdu : pdu[i] \in FieldValues(Layout[kind][i])
    /\ step \in {"new", "sent", "refused", "decoded"}
    /\ step = "new" => damaged = FALSE
    /\ step \in {"sent", "decoded"} =>
          /\ IsPdu(kind, pdu) /\ body \in Seq(Nat) /\ Follows(body, 0, EncodeBody(kind, pdu))
          /\ damaged = FALSE => body = EncodeBody(kind, pdu)
          /\ damaged # FALSE => Len(body) # Len(EncodeBody(kind, pdu))
    /\ step = "decoded" => got = DecodeBody(kind, body)

\* A body is a sequence of bytes.
LEMMA BodyTyped ==
    ASSUME NEW k, NEW v, IsPdu(k, v)
    PROVE  /\ EncodeBody(k, v) \in Seq(Octets) /\ EncodeBody(k, v) \in Seq(Nat)
           /\ Follows(EncodeBody(k, v), 0, EncodeBody(k, v))
<1> DEFINE n == Len(Layout[k])
           e == EncodeBody(k, v)
<1>1. PICK l : Laid(e, Fields(k, v), l, n)
  BY BodyLaid
<1>2. e \in Seq(Octets)
  BY <1>1 DEF Laid
<1> HIDE DEF e
<1>3. e \in Seq(Nat) /\ Follows(e, 0, e)
  BY <1>2, NumbersAre DEF Follows
<1> QED
  BY <1>2, <1>3 DEF e

\* A body that is cut off or has a byte more goes on the same, with another
\* length.
LEMMA DamagedFollows ==
    ASSUME NEW e \in Seq(Octets)
    PROVE  /\ \A n \in Nat \ {0} : n <= Len(e) =>
                 /\ SubSeq(e, 1, Len(e) - n) \in Seq(Nat) /\ Follows(SubSeq(e, 1, Len(e) - n), 0, e)
                 /\ Len(SubSeq(e, 1, Len(e) - n)) # Len(e)
           /\ Append(e, 0) \in Seq(Nat) /\ Follows(Append(e, 0), 0, e) /\ Len(Append(e, 0)) # Len(e)
<1>0. e \in Seq(Nat) /\ Len(e) \in Nat
  BY NumbersAre
<1>1. ASSUME NEW n \in Nat \ {0}, n <= Len(e)
      PROVE  /\ SubSeq(e, 1, Len(e) - n) \in Seq(Nat) /\ Follows(SubSeq(e, 1, Len(e) - n), 0, e)
             /\ Len(SubSeq(e, 1, Len(e) - n)) # Len(e)
  <2> DEFINE m == Len(e) - n
             t == Begin(e, m)
  <2>1. m \in 0 .. Len(e) /\ m # Len(e)
    BY <1>0, <1>1
  <2>2. SubSeq(e, 1, Len(e) - n) = t
    BY DEF Begin
  <2> HIDE DEF m
  <2>3. t \in Seq(Nat) /\ Len(t) = m /\ \A j \in 1 .. m : t[j] = e[j]
    BY <1>0, <2>1, BeginIs
  <2> HIDE DEF t
  <2>4. \A j \in 1 .. Len(e) : 0 + j <= Len(t) => j \in 1 .. m /\ 0 + j = j
    BY <1>0, <2>1, <2>3
  <2>5. Follows(t, 0, e)
    BY <2>3, <2>4 DEF Follows
  <2> QED
    BY <2>1, <2>2, <2>3, <2>5
<1>2. Append(e, 0) \in Seq(Nat) /\ Follows(Append(e, 0), 0, e) /\ Len(Append(e, 0)) # Len(e)
  <2> DEFINE t == Append(e, 0)
  <2>1. t \in Seq(Nat) /\ Len(t) = Len(e) + 1 /\ \A j \in 1 .. Len(e) : t[j] = e[j]
    BY <1>0, AppendProperties
  <2> HIDE DEF t
  <2>2. \A j \in 1 .. Len(e) : 0 + j = j
    OBVIOUS
  <2>3. Follows(t, 0, e)
    BY <2>1, <2>2 DEF Follows
  <2>4. Len(t) # Len(e)
    BY <1>0, <2>1
  <2> QED
    BY <2>1, <2>3, <2>4 DEF t
<1> QED
  BY <1>1, <1>2

\* It holds before anything is sent.
LEMMA PduInvInit == InitPdu => PduInv
<1> SUFFICES ASSUME InitPdu PROVE PduInv
  OBVIOUS
<1>1. kind \in PduKinds /\ pdu \in Samples[kind] /\ step = "new" /\ damaged = FALSE
  BY DEF InitPdu
<1>2. DOMAIN pdu = DOMAIN Layout[kind] /\ \A i \in DOMAIN pdu : pdu[i] \in FieldValues(Layout[kind][i])
  BY <1>1, SamplesAssumption
<1> QED
  BY <1>1, <1>2 DEF PduInv

\* No step breaks it.
LEMMA PduInvNext == PduInv /\ [NextPdu]_pduVars => PduInv'
<1> SUFFICES ASSUME PduInv, [NextPdu]_pduVars PROVE PduInv'
  OBVIOUS
<1> DEFINE e == EncodeBody(kind, pdu)
<1>0. /\ kind \in PduKinds /\ DOMAIN pdu = DOMAIN Layout[kind]
      /\ \A i \in DOMAIN pdu : pdu[i] \in FieldValues(Layout[kind][i])
  BY DEF PduInv
<1>1. CASE EncodePdu
  <2>1. step = "new" /\ damaged = FALSE /\ UNCHANGED <<kind, pdu, damaged, got>>
    BY <1>1 DEF EncodePdu, PduInv
  <2>2. CASE Valid(kind, pdu)
    <3>1. step' = "sent" /\ body' = e
      BY <1>1, <2>2 DEF EncodePdu
    <3>2. IsPdu(kind, pdu)
      BY <1>0, <2>2 DEF IsPdu, Valid, Countable
    <3>3. e \in Seq(Nat) /\ Follows(e, 0, e)
      BY <3>2, BodyTyped
    <3> HIDE DEF e
    <3>4. e' = e
      BY <2>1 DEF e
    <3> QED
      BY <1>0, <2>1, <3>1, <3>2, <3>3, <3>4 DEF PduInv, e
  <2>3. CASE ~Valid(kind, pdu)
    <3>1. step' = "refused"
      BY <1>1, <2>3 DEF EncodePdu
    <3> QED
      BY <1>0, <2>1, <3>1 DEF PduInv
  <2> QED
    BY <2>2, <2>3
<1>2. CASE Damage
  <2>1. step = "sent" /\ damaged = FALSE /\ damaged' = TRUE /\ UNCHANGED <<step, kind, pdu, got>>
    BY <1>2 DEF Damage, PduInv
  <2>2. IsPdu(kind, pdu) /\ body = e
    BY <2>1 DEF PduInv
  <2>3. e \in Seq(Octets)
    BY <2>2, BodyTyped
  <2> HIDE DEF e
  <2>4. (\E n \in Nat \ {0} : n <= Len(e) /\ body' = SubSeq(e, 1, Len(e) - n)) \/ body' = Append(e, 0)
    BY <1>2, <2>2, SamplesAssumption DEF Damage
  <2>5. body' \in Seq(Nat) /\ Follows(body', 0, e) /\ Len(body') # Len(e)
    BY <2>3, <2>4, DamagedFollows
  <2> QED
    BY <1>0, <2>1, <2>2, <2>5 DEF PduInv, e
<1>3. CASE DecodePdu
  <2>1. step = "sent" /\ step' = "decoded" /\ got' = DecodeBody(kind, body) /\ UNCHANGED <<kind, pdu, body, damaged>>
    BY <1>3 DEF DecodePdu
  <2> QED
    BY <2>1 DEF PduInv
<1>4. CASE UNCHANGED pduVars
  BY <1>4 DEF PduInv, pduVars
<1> QED
  BY <1>1, <1>2, <1>3, <1>4 DEF NextPdu

\* What it says of a body that was sent or read.
LEMMA PduInvExact == PduInv => PduExact
<1> SUFFICES ASSUME PduInv PROVE PduExact
  OBVIOUS
<1> DEFINE e == EncodeBody(kind, pdu)
           y == [ok |-> TRUE, fields |-> [i \in DOMAIN pdu |-> Normal(Layout[kind][i], pdu[i])]]
<1>1. ASSUME step \in {"sent", "decoded"}
      PROVE  /\ IsPdu(kind, pdu) /\ body \in Seq(Nat) /\ Follows(body, 0, e)
             /\ damaged = FALSE => body = e
             /\ damaged # FALSE => Len(body) # Len(e)
  BY <1>1 DEF PduInv
<1>2. ASSUME step = "decoded"
      PROVE  /\ got = DecodeBody(kind, body)
             /\ got.ok <=> Len(body) = Len(e)
             /\ Len(body) = Len(e) => got = y
  <2>1. got = DecodeBody(kind, body)
    BY <1>2 DEF PduInv
  <2>2. IsPdu(kind, pdu) /\ body \in Seq(Nat) /\ Follows(body, 0, e)
    BY <1>1, <1>2
  <2> QED
    BY <2>1, <2>2, BodyExact
<1>3. RoundTrip
  <2> SUFFICES ASSUME step = "decoded", ~damaged PROVE got = y
    BY DEF RoundTrip
  <2> HIDE DEF e, y
  <2>1. damaged = FALSE => body = e
    BY <1>1
  <2> QED
    BY <1>2, <2>1
<1>4. DamageRefused
  <2> SUFFICES ASSUME step = "decoded", damaged PROVE ~got.ok
    BY DEF DamageRefused
  <2> HIDE DEF e, y
  <2>1. damaged # FALSE => Len(body) # Len(e)
    BY <1>1
  <2> QED
    BY <1>2, <2>1
<1>5. HintExact
  <2> SUFFICES ASSUME step = "sent", ~damaged
               PROVE  Len(body) = BodyLenHint(kind, pdu) /\ HeaderBytes + Len(body) <= MaxFrame
    BY DEF HintExact
  <2>1. IsPdu(kind, pdu) /\ (damaged = FALSE => body = e)
    BY <1>1
  <2>2. Len(e) = BodyLenHint(kind, pdu) /\ HeaderBytes + Len(e) <= MaxFrame
    BY <2>1, HintIsLength
  <2> HIDE DEF e
  <2> QED
    BY <2>1, <2>2
<1> QED
  BY <1>3, <1>4, <1>5 DEF PduExact

\* A PDU that can be encoded is decoded to the same fields, up to what a string
\* of a fixed width can hold; a body that was cut off or has a byte more is
\* refused; and the hint the buffer is allocated from is the length of the body,
\* which fits a frame (pdu.rs: validate_encode, encode_body, body_len_hint and
\* decode of every PDU).
THEOREM PduIsExact == SpecPdu => []PduExact
<1>1. PduInv /\ [NextPdu]_pduVars => PduInv'
  BY PduInvNext
<1>2. InitPdu => PduInv
  BY PduInvInit
<1>3. PduInv => PduExact
  BY PduInvExact
<1> QED
  BY <1>1, <1>2, <1>3, PTL DEF SpecPdu
=============================================================================
