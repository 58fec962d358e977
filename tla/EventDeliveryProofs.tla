------------------------ MODULE EventDeliveryProofs ------------------------
(***************************************************************************)
(* Proofs about EventDelivery, for any number of events and any            *)
(* capacities: the queue keeps its order and loses only what it counted,   *)
(* the backlog is bounded, Disconnected comes last, and a DELIVER is shown *)
(* only after its response was written.  They hold for Safety, that is,    *)
(* whatever the scheduler does.                                            *)
(*                                                                         *)
(* The inductive invariant IInv has six parts: what the items look like    *)
(* (TypeInv), how far a close has come (Ends), the order with the ledger   *)
(* of where every event is (OrderInv), the slot kept for Disconnected      *)
(* (LastInv), the tickets (AckInv) and the bound while admission still     *)
(* accepts (BoundInv).                                                     *)
(***************************************************************************)
EXTENDS EventDelivery, SequenceTheorems, FiniteSetTheorems, TLAPS

-----------------------------------------------------------------------------
\* Sequences.

\* A sequence appended to has one place more; the old ones keep theirs.
LEMMA AppendedPlaces ==
    ASSUME NEW S, NEW s \in Seq(S), NEW e \in S
    PROVE  /\ Append(s, e) \in Seq(S) /\ DOMAIN Append(s, e) = 1 .. Len(s) + 1
           /\ \A i \in DOMAIN s : Append(s, e)[i] = s[i]
           /\ Append(s, e)[Len(s) + 1] = e
           /\ Range(Append(s, e)) = Range(s) \cup {e}
  <1>1. /\ Append(s, e) \in Seq(S) /\ Len(Append(s, e)) = Len(s) + 1
        /\ \A i \in 1 .. Len(s) : Append(s, e)[i] = s[i]
        /\ Append(s, e)[Len(s) + 1] = e
    OBVIOUS
  <1>2. DOMAIN Append(s, e) = 1 .. Len(s) + 1 /\ DOMAIN s = 1 .. Len(s) /\ Len(s) \in Nat
    BY <1>1
  <1>3. Range(Append(s, e)) = Range(s) \cup {e}
    BY <1>1, <1>2 DEF Range
  <1> QED  BY <1>1, <1>2, <1>3

\* A sequence of one place.
LEMMA SingletonRange == ASSUME NEW e PROVE Range(<<e>>) = {e}
  <1>1. DOMAIN <<e>> = {1} /\ <<e>>[1] = e
    OBVIOUS
  <1> QED  BY <1>1 DEF Range

-----------------------------------------------------------------------------
\* The spool as a sequence.

\* An item that enters brings its events.
LEMMA SpoolGrows ==
    ASSUME spool \in Seq(Item), NEW item \in Item, spool' = Append(spool, item)
    PROVE  /\ spool' \in Seq(Item) /\ Len(spool) \in Nat
           /\ DOMAIN spool = 1 .. Len(spool) /\ DOMAIN spool' = 1 .. Len(spool) + 1
           /\ \A i \in 1 .. Len(spool) : spool'[i] = spool[i]
           /\ spool'[Len(spool) + 1] = item
           /\ InSpool' = InSpool \cup Range(item.ids)
  <1>1. /\ spool' \in Seq(Item) /\ Len(spool) \in Nat
        /\ DOMAIN spool = 1 .. Len(spool) /\ DOMAIN spool' = 1 .. Len(spool) + 1
        /\ \A i \in 1 .. Len(spool) : spool'[i] = spool[i]
        /\ spool'[Len(spool) + 1] = item
    BY AppendedPlaces
  <1>2. InSpool' = UNION {Range(spool'[i].ids) : i \in DOMAIN spool'}
    BY DEF InSpool, Range
  <1>3. ASSUME NEW e PROVE e \in InSpool' <=> e \in InSpool \/ e \in Range(item.ids)
    <2>1. e \in InSpool' <=> \E i \in 1 .. Len(spool) + 1 : e \in Range(spool'[i].ids)
      BY <1>1, <1>2
    <2>2. e \in InSpool <=> \E i \in 1 .. Len(spool) : e \in Range(spool[i].ids)
      BY <1>1 DEF InSpool
    <2>3. 1 .. Len(spool) + 1 = (1 .. Len(spool)) \cup {Len(spool) + 1}
      BY <1>1
    <2>4. \A i \in 1 .. Len(spool) : Range(spool'[i].ids) = Range(spool[i].ids)
      BY <1>1
    <2> QED  BY <1>1, <2>1, <2>2, <2>3, <2>4
  <1> QED  BY <1>1, <1>3

\* The item that leaves takes its events along.
LEMMA SpoolShrinks ==
    ASSUME spool \in Seq(Item), spool # <<>>, spool' = Tail(spool)
    PROVE  /\ spool' \in Seq(Item) /\ Len(spool') = Len(spool) - 1 /\ Len(spool) \in Nat \ {0}
           /\ DOMAIN spool = 1 .. Len(spool) /\ DOMAIN spool' = 1 .. Len(spool) - 1
           /\ \A i \in DOMAIN spool' : spool'[i] = spool[i + 1]
           /\ Head(spool) = spool[1] /\ Head(spool) \in Item
           /\ InSpool = InSpool' \cup Range(Head(spool).ids)
  <1>1. /\ spool' \in Seq(Item) /\ Len(spool') = Len(spool) - 1 /\ Len(spool) \in Nat \ {0}
        /\ DOMAIN spool = 1 .. Len(spool) /\ DOMAIN spool' = 1 .. Len(spool) - 1
        /\ \A i \in DOMAIN spool' : spool'[i] = spool[i + 1]
        /\ Head(spool) = spool[1] /\ Head(spool) \in Item
    OBVIOUS
  <1>2. InSpool' = UNION {Range(spool'[i].ids) : i \in DOMAIN spool'}
    BY DEF InSpool, Range
  <1>3. ASSUME NEW e PROVE e \in InSpool <=> e \in InSpool' \/ e \in Range(Head(spool).ids)
    <2>1. e \in InSpool' <=> \E i \in 1 .. Len(spool) - 1 : e \in Range(spool[i + 1].ids)
      BY <1>1, <1>2
    <2>2. e \in InSpool <=> \E i \in 1 .. Len(spool) : e \in Range(spool[i].ids)
      BY <1>1 DEF InSpool
    <2>3. \A i \in 1 .. Len(spool) : i = 1 \/ (i - 1 \in 1 .. Len(spool) - 1 /\ (i - 1) + 1 = i)
      BY <1>1
    <2>4. \A i \in 1 .. Len(spool) - 1 : i + 1 \in 1 .. Len(spool)
      BY <1>1
    <2>5. 1 \in 1 .. Len(spool)
      BY <1>1
    <2> QED  BY <1>1, <2>1, <2>2, <2>3, <2>4, <2>5
  <1> QED  BY <1>1, <1>3

-----------------------------------------------------------------------------
\* The inductive invariant, part 1: types, and what the items look like.

\* One event per direct or deferred item, some of the dropped submits per
\* batch, none in the Terminal item.
Shaped(item) ==
    /\ item.kind = "direct" => \E d \in Directs : item.ids = <<d>>
    /\ item.kind = "deferred" => \E v \in Delivers : item.ids = <<v>>
    /\ item.kind = "batch" => item.ids # <<>> /\ Range(item.ids) \subseteq Owed
    /\ item.kind = "terminal" => item.ids = <<>>

Shapes ==
    /\ \A i \in DOMAIN spool : Shaped(spool[i])
    /\ dpc = "await" => at = 1 /\ \E v \in Delivers : hand = <<v>>
    /\ dpc = "send" => at \in 1 .. Len(hand)
    /\ dpc \in {"recv", "exited"} => at = 1 /\ hand = <<>>

TypeInv == TypeOK /\ Shapes

\* In the beginning everything is empty.
LEMMA InitTypes == Init => TypeInv
  <1> SUFFICES ASSUME Init PROVE TypeOK /\ Shapes
    BY DEF TypeInv
  <1> USE DEF Init
  <1>1. Len(<<>>) = 0 /\ <<>> \in Seq(Item) /\ <<>> \in Seq(Events) /\ <<>> \in Seq(Events \cup {Bye})
    OBVIOUS
  <1>2. Cap \in Nat /\ PublicCap \in Nat
    BY DeliveryAssumption
  <1>3. TypeOK
    <2>1. /\ spool \in Seq(Item) /\ Len(spool) <= Cap + 2 /\ hand \in Seq(Events) /\ accepted \in Seq(Events)
          /\ public \in Seq(Events \cup {Bye}) /\ Len(public) <= PublicCap /\ seen \in Seq(Events \cup {Bye})
      BY <1>1, <1>2
    <2>2. ticket \in [Delivers -> {"none", "held", "sent", "void"}]
      OBVIOUS
    <2> QED  BY <2>1, <2>2 DEF TypeOK, Accepts
  <1> QED  BY <1>3 DEF Shapes

\* An item enters a spool with room.
LEMMA EnterTypes ==
    ASSUME TypeInv, Room, NEW item \in Item, Shaped(item), Enter(item)
    PROVE  /\ spool' \in Seq(Item) /\ Len(spool') <= Cap + 2 /\ accepted' \in Seq(Events)
           /\ \A i \in DOMAIN spool' : Shaped(spool'[i])
  <1>1. spool \in Seq(Item) /\ Len(spool) < Cap + 2 /\ Cap \in Nat /\ spool' = Append(spool, item)
    BY DeliveryAssumption DEF TypeInv, TypeOK, Room, Enter
  <1>2. /\ spool' \in Seq(Item) /\ DOMAIN spool' = 1 .. Len(spool) + 1
        /\ DOMAIN spool = 1 .. Len(spool) /\ Len(spool) \in Nat
        /\ \A i \in DOMAIN spool : spool'[i] = spool[i]
        /\ spool'[Len(spool) + 1] = item
    BY <1>1, SpoolGrows
  <1>3. Len(spool') = Len(spool) + 1
    BY <1>1
  <1>4. \A i \in DOMAIN spool' : i = Len(spool) + 1 \/ i \in DOMAIN spool
    BY <1>2
  <1>5. \A i \in DOMAIN spool' : Shaped(spool'[i])
    BY <1>2, <1>4 DEF TypeInv, Shapes
  <1>6. accepted' \in Seq(Events)
    BY ConcatProperties DEF TypeInv, TypeOK, Enter, Item
  <1> QED  BY <1>1, <1>2, <1>3, <1>5, <1>6

\* One event per item of these two kinds.
LEMMA SingleItem ==
    /\ \A d \in Directs : LET item == [kind |-> "direct", ids |-> <<d>>] IN item \in Item /\ Shaped(item)
    /\ \A v \in Delivers : LET item == [kind |-> "deferred", ids |-> <<v>>] IN item \in Item /\ Shaped(item)
  BY DEF Item, Kinds, Events, Shaped

\* The decision under the admission lock.
LEMMA AdmitTypes ==
    ASSUME TypeInv, NEW item \in Item, Shaped(item), NEW in, Admit(item, in)
    PROVE  /\ phase' \in {"Open", "Closing", "Closed"}
           /\ adm' \in Accepts \cup {"Overflowed", "Sealed", "Terminal"}
           /\ flagged' \in BOOLEAN /\ trigger' \in BOOLEAN /\ idleSeal' \in BOOLEAN /\ announce' \in BOOLEAN
           /\ drainer' \in {"idle", "wait", "finish", "done"}
           /\ spool' \in Seq(Item) /\ Len(spool') <= Cap + 2 /\ accepted' \in Seq(Events)
           /\ \A i \in DOMAIN spool' : Shaped(spool'[i])
  <1>1. /\ phase' \in {"Open", "Closing", "Closed"}
        /\ adm' \in Accepts \cup {"Overflowed", "Sealed", "Terminal"}
        /\ flagged' \in BOOLEAN /\ trigger' \in BOOLEAN /\ idleSeal' \in BOOLEAN /\ announce' \in BOOLEAN
        /\ drainer' \in {"idle", "wait", "finish", "done"}
    BY DEF Admit, TypeInv, TypeOK
  <1>2. CASE UNCHANGED <<spool, accepted>>
    BY <1>1, <1>2 DEF TypeInv, TypeOK, Shapes
  <1>3. CASE Room /\ Enter(item)
    BY <1>1, <1>3, EnterTypes
  <1> QED  BY <1>2, <1>3 DEF Admit

-----------------------------------------------------------------------------
\* Part 1, action by action.

\* An event is emitted, or a DELIVER arrives.
LEMMA EmitTypes == ASSUME TypeInv, NEW d \in Directs, Emit(d) PROVE TypeInv'
  <1> DEFINE item == [kind |-> "direct", ids |-> <<d>>]
  <1>1. item \in Item /\ Shaped(item)
    BY SingleItem
  <1>2. /\ phase' \in {"Open", "Closing", "Closed"}
        /\ adm' \in Accepts \cup {"Overflowed", "Sealed", "Terminal"}
        /\ flagged' \in BOOLEAN /\ trigger' \in BOOLEAN /\ idleSeal' \in BOOLEAN /\ announce' \in BOOLEAN
        /\ drainer' \in {"idle", "wait", "finish", "done"}
        /\ spool' \in Seq(Item) /\ Len(spool') <= Cap + 2 /\ accepted' \in Seq(Events)
        /\ \A i \in DOMAIN spool' : Shaped(spool'[i])
    <2>1. CASE Admit(item, TRUE) \/ Admit(item, FALSE)
      BY <1>1, <2>1, AdmitTypes
    <2>2. CASE UNCHANGED <<gate, spool, accepted>>
      BY <2>2 DEF gate, TypeInv, TypeOK, Shapes
    <2> QED  BY <2>1, <2>2 DEF Emit
  <1>3. lost' \subseteq Events /\ dropped' \in Nat
    <2>1. CASE Count({d})
      <3>1. Cardinality({d}) = 1 /\ d \in Events
        BY FS_Singleton DEF Events
      <3> QED  BY <2>1, <3>1 DEF Count, TypeInv, TypeOK
    <2>2. CASE UNCHANGED <<lost, dropped>>
      BY <2>2 DEF TypeInv, TypeOK
    <2> QED  BY <2>1, <2>2 DEF Emit
  <1>4. /\ todo' \subseteq Directs \cup Delivers
        /\ UNCHANGED <<ticket, reading, written, clean, term, disp, outlet, silent>>
    BY DEF Emit, TypeInv, TypeOK
  <1> QED  BY <1>2, <1>3, <1>4 DEF TypeInv, TypeOK, Shapes, clean, disp, outlet

\* A DELIVER reserves its place in the spool.
LEMMA ReserveTypes == ASSUME TypeInv, NEW v \in Delivers, Reserve(v) PROVE TypeInv'
  <1> DEFINE item == [kind |-> "deferred", ids |-> <<v>>]
  <1>1. item \in Item /\ Shaped(item)
    BY SingleItem
  <1>2. /\ phase' \in {"Open", "Closing", "Closed"}
        /\ adm' \in Accepts \cup {"Overflowed", "Sealed", "Terminal"}
        /\ flagged' \in BOOLEAN /\ trigger' \in BOOLEAN /\ idleSeal' \in BOOLEAN /\ announce' \in BOOLEAN
        /\ drainer' \in {"idle", "wait", "finish", "done"}
        /\ spool' \in Seq(Item) /\ Len(spool') <= Cap + 2 /\ accepted' \in Seq(Events)
        /\ \A i \in DOMAIN spool' : Shaped(spool'[i])
    <2>1. CASE Admit(item, TRUE) \/ Admit(item, FALSE)
      BY <1>1, <2>1, AdmitTypes
    <2>2. CASE UNCHANGED <<gate, spool, accepted>>
      BY <2>2 DEF gate, TypeInv, TypeOK, Shapes
    <2> QED  BY <2>1, <2>2 DEF Reserve
  <1>3. ticket' \in [Delivers -> {"none", "held", "sent", "void"}] /\ reading' \in BOOLEAN
    BY DEF Reserve, TypeInv, TypeOK
  <1>4. /\ todo' \subseteq Directs \cup Delivers
        /\ UNCHANGED <<written, clean, term, disp, outlet, lost, silent, dropped>>
    BY DEF Reserve, TypeInv, TypeOK
  <1> QED  BY <1>2, <1>3, <1>4 DEF TypeInv, TypeOK, Shapes, clean, disp, outlet

\* What only the tickets, the consumer or the phases see.
LEMMA OutsideTypes ==
    ASSUME TypeInv, \/ \E v \in Delivers : ResponseWritten(v) \/ TicketDropped(v)
                    \/ DropReceiver \/ BeginClose \/ SealAdmission \/ Finish
    PROVE  TypeInv'
  <1>1. UNCHANGED <<spool, hand, at, dpc>>
    BY DEF ResponseWritten, TicketDropped, DropReceiver, BeginClose, SealAdmission, Finish, disp
  <1>2. Shapes'
    BY <1>1 DEF TypeInv, Shapes, Shaped
  <1> USE DEF TypeInv, TypeOK, gate, clean, disp, outlet
  <1>3. ASSUME NEW v \in Delivers, ResponseWritten(v) PROVE TypeOK'
    BY <1>3 DEF ResponseWritten
  <1>4. ASSUME NEW v \in Delivers, TicketDropped(v) PROVE TypeOK'
    BY <1>4 DEF TicketDropped
  <1>5. ASSUME DropReceiver PROVE TypeOK'
    <2>1. /\ open' \in BOOLEAN
          /\ UNCHANGED <<gate, source, clean, spool, term, disp, public, seen, accepted, lost, silent, dropped>>
      BY <1>5 DEF DropReceiver
    <2> QED  BY <2>1 DEF source
  <1>6. ASSUME BeginClose PROVE TypeOK'
    <2>1. phase' \in {"Open", "Closing", "Closed"} /\ drainer' \in {"idle", "wait", "finish", "done"}
          /\ adm' \in Accepts \cup {"Overflowed", "Sealed", "Terminal"} /\ trigger' \in BOOLEAN
      BY <1>6 DEF BeginClose, BeginEventDrain, Accepts
    <2> QED  BY <1>6, <2>1 DEF BeginClose, source
  <1>7. ASSUME SealAdmission PROVE TypeOK'
    BY <1>7 DEF SealAdmission, source
  <1>8. ASSUME Finish PROVE TypeOK'
    <2>1. phase' \in {"Open", "Closing", "Closed"} /\ drainer' \in {"idle", "wait", "finish", "done"}
          /\ announce' \in BOOLEAN /\ cpc' \in {"off", "fail", "send", "done"}
      BY <1>8 DEF Finish
    <2> QED  BY <1>8, <2>1 DEF Finish, source
  <1> QED  BY <1>2, <1>3, <1>4, <1>5, <1>6, <1>7, <1>8

\* The consumer takes the first event of the public channel.
LEMMA TakeTypes == ASSUME TypeInv, Take PROVE TypeInv'
  <1>1. /\ public' \in Seq(Events \cup {Bye}) /\ Len(public') <= PublicCap
        /\ seen' \in Seq(Events \cup {Bye})
    <2>1. /\ public \in Seq(Events \cup {Bye}) /\ public # <<>> /\ public' = Tail(public)
          /\ Len(public) <= PublicCap /\ PublicCap \in Nat
          /\ seen \in Seq(Events \cup {Bye}) /\ seen' = Append(seen, Head(public))
      BY DeliveryAssumption DEF Take, TypeInv, TypeOK
    <2>2. /\ Head(public) \in Events \cup {Bye} /\ public' \in Seq(Events \cup {Bye})
          /\ Len(public') = Len(public) - 1 /\ Len(public) \in Nat
      BY <2>1
    <2> QED  BY <2>1, <2>2
  <1> QED  BY <1>1 DEF Take, TypeInv, TypeOK, Shapes, gate, source, clean, disp

\* The dispatcher takes an item.
LEMMA ReceiveTypes == ASSUME TypeInv, Receive PROVE TypeInv'
  <1>1. /\ spool' \in Seq(Item) /\ Len(spool') = Len(spool) - 1 /\ Len(spool) \in Nat \ {0}
        /\ DOMAIN spool = 1 .. Len(spool) /\ DOMAIN spool' = 1 .. Len(spool) - 1
        /\ \A i \in DOMAIN spool' : spool'[i] = spool[i + 1]
        /\ Head(spool) = spool[1] /\ Head(spool) \in Item
    BY SpoolShrinks DEF Receive, TypeInv, TypeOK
  <1>2. Len(spool') <= Cap + 2 /\ (\A i \in DOMAIN spool' : Shaped(spool'[i])) /\ Shaped(Head(spool))
    <2>1. Cap \in Nat /\ Len(spool) <= Cap + 2 /\ \A i \in DOMAIN spool : Shaped(spool[i])
      BY DeliveryAssumption DEF TypeInv, TypeOK, Shapes
    <2>2. 1 \in DOMAIN spool /\ \A i \in DOMAIN spool' : i + 1 \in DOMAIN spool
      BY <1>1
    <2> QED  BY <1>1, <2>1, <2>2
  <1>3. /\ UNCHANGED <<gate, source, clean, term, discard, outlet, accepted, silent>> /\ dpc = "recv"
    BY DEF Receive
  <1>4. CASE Head(spool).kind = "deferred" /\ discard
    <2>1. Count(Range(Head(spool).ids)) /\ UNCHANGED <<dpc, hand, at>>
      BY <1>4 DEF Receive
    <2>2. PICK v \in Delivers : Head(spool).ids = <<v>>
      BY <1>2, <1>4 DEF Shaped
    <2>3. Range(<<v>>) = {v}
      BY SingletonRange
    <2>4. Cardinality({v}) = 1 /\ v \in Events
      BY FS_Singleton DEF Events
    <2>5. lost' = lost \cup {v} /\ dropped' = dropped + 1
      BY <2>1, <2>2, <2>3, <2>4 DEF Count
    <2>6. lost' \subseteq Events /\ dropped' \in Nat
      BY <2>4, <2>5 DEF TypeInv, TypeOK
    <2> QED  BY <1>1, <1>2, <1>3, <2>1, <2>6
             DEF TypeInv, TypeOK, Shapes, gate, source, clean, outlet
  <1>5. CASE ~(Head(spool).kind = "deferred" /\ discard)
    <2>1. /\ dpc' = (IF Head(spool).kind = "deferred" THEN "await" ELSE "send")
          /\ hand' = Head(spool).ids /\ at' = 1 /\ UNCHANGED <<lost, dropped>>
          /\ Head(spool).kind # "terminal" /\ Head(spool).kind \in Kinds
      BY <1>1, <1>5 DEF Receive, Item
    <2>2. hand' \in Seq(Events)
      BY <1>1, <2>1 DEF Item
    <2>3. /\ dpc' = "await" => \E v \in Delivers : hand' = <<v>>
          /\ dpc' = "send" => at' \in 1 .. Len(hand')
      <3>1. CASE Head(spool).kind = "deferred"
        BY <1>2, <2>1, <3>1 DEF Shaped
      <3>2. CASE Head(spool).kind = "direct"
        <4>1. PICK d \in Directs : hand' = <<d>>
          BY <1>2, <2>1, <3>2 DEF Shaped
        <4>2. Len(hand') = 1
          BY <4>1
        <4>3. dpc' = "send" /\ at' = 1
          BY <2>1, <3>2
        <4> QED  BY <4>2, <4>3
      <3>3. CASE Head(spool).kind = "batch"
        <4>1. hand' # <<>> /\ Len(hand') \in Nat
          BY <1>2, <2>1, <2>2, <3>3 DEF Shaped
        <4>2. Len(hand') # 0
          BY <2>2, <4>1
        <4> QED  BY <2>1, <3>3, <4>1, <4>2
      <3>4. Head(spool).kind \in {"direct", "deferred", "batch"}
        BY <2>1 DEF Kinds
      <3> QED  BY <3>1, <3>2, <3>3, <3>4
    <2>4. dpc' \in {"await", "send"}
      BY <2>1
    <2>5. Shapes'
      BY <1>2, <2>1, <2>3, <2>4 DEF Shapes
    <2> QED  BY <1>1, <1>2, <1>3, <2>1, <2>2, <2>4, <2>5
             DEF TypeInv, TypeOK, gate, source, clean, outlet
  <1> QED  BY <1>4, <1>5

\* The Terminal item ends the dispatcher; Disconnected uses the slot that is left.
LEMMA DispatchTerminalTypes == ASSUME TypeInv, DispatchTerminal PROVE TypeInv'
  <1>1. spool' \in Seq(Item) /\ Len(spool') = 0 /\ DOMAIN spool' = {} /\ Cap \in Nat
    BY DeliveryAssumption DEF DispatchTerminal
  <1>2. public' \in Seq(Events \cup {Bye}) /\ Len(public') <= PublicCap
    <2>1. public \in Seq(Events \cup {Bye}) /\ Len(public) <= PublicCap /\ PublicCap \in Nat
      BY DeliveryAssumption DEF TypeInv, TypeOK
    <2>2. public' = public \/ (public' = Append(public, Bye) /\ Len(public) < PublicCap)
      BY DEF DispatchTerminal
    <2> QED  BY <2>1, <2>2
  <1>3. silent' \subseteq Events
    <2>1. Tail(spool) \in Seq(Item)
      BY DEF DispatchTerminal, TypeInv, TypeOK
    <2>2. \A item \in Range(Tail(spool)) : item \in Item
      BY <2>1 DEF Range
    <2>3. \A item \in Item : Range(item.ids) \subseteq Events
      BY DEF Item, Range
    <2> QED  BY <2>2, <2>3 DEF DispatchTerminal, TypeInv, TypeOK
  <1>4. /\ dpc = "recv" /\ dpc' = "exited"
        /\ UNCHANGED <<gate, source, clean, term, hand, at, discard, open, seen, accepted, lost, dropped>>
    BY DEF DispatchTerminal
  <1> QED  BY <1>1, <1>2, <1>3, <1>4 DEF TypeInv, TypeOK, Shapes, gate, source, clean

\* Whether the event in hand is shown or given up, the next one follows.
LEMMA AdvanceTypes ==
    ASSUME TypeInv, dpc = "send", Advance
    PROVE  /\ hand' \in Seq(Events) /\ at' \in Nat /\ dpc' \in {"recv", "send"} /\ hand[at] \in Events
           /\ (dpc' = "send" => at' \in 1 .. Len(hand'))
           /\ (dpc' = "recv" => at' = 1 /\ hand' = <<>>)
  <1>1. hand \in Seq(Events) /\ at \in 1 .. Len(hand) /\ Len(hand) \in Nat
    BY DEF TypeInv, TypeOK, Shapes
  <1>2. CASE at < Len(hand)
    BY <1>1, <1>2 DEF Advance
  <1>3. CASE ~(at < Len(hand))
    BY <1>1, <1>3 DEF Advance
  <1> QED  BY <1>2, <1>3

\* A deferred item waits with its one event in hand.
LEMMA AwaitTypes == ASSUME TypeInv, AwaitTicket PROVE TypeInv'
  <1>1. PICK v \in Delivers : hand = <<v>>
    BY DEF AwaitTicket, TypeInv, Shapes
  <1>2. at = 1 /\ hand[1] = v /\ Len(hand) = 1 /\ v \in Events /\ Cardinality({v}) = 1
    BY <1>1, FS_Singleton DEF AwaitTicket, TypeInv, Shapes, Events
  <1>3. CASE dpc' = "send" /\ UNCHANGED <<hand, lost, dropped>>
    <2>1. Shapes'
      <3>1. UNCHANGED <<spool, at, hand>>
        BY <1>3 DEF AwaitTicket
      <3>2. \A i \in DOMAIN spool' : Shaped(spool'[i])
        BY <3>1 DEF TypeInv, Shapes
      <3>3. at' = 1 /\ Len(hand') = 1
        BY <1>2, <3>1
      <3>4. at' \in 1 .. Len(hand')
        BY <3>3
      <3> QED  BY <1>3, <3>2, <3>4 DEF Shapes
    <2>2. TypeOK'
      BY <1>3 DEF AwaitTicket, TypeInv, TypeOK, gate, source, clean, outlet
    <2> QED  BY <2>1, <2>2 DEF TypeInv
  <1>4. CASE dpc' = "recv" /\ hand' = <<>> /\ Count({hand[1]})
    <2>1. lost' \subseteq Events /\ dropped' \in Nat
      BY <1>2, <1>4 DEF Count, TypeInv, TypeOK
    <2> QED  BY <1>2, <1>4, <2>1 DEF AwaitTicket, TypeInv, TypeOK, Shapes, gate, source, clean, outlet
  <1> QED  BY <1>3, <1>4 DEF AwaitTicket

\* Two free slots, and one of them is used.
LEMMA ForwardTypes == ASSUME TypeInv, Forward PROVE TypeInv'
  <1>1. /\ hand' \in Seq(Events) /\ at' \in Nat /\ dpc' \in {"recv", "send"} /\ hand[at] \in Events
        /\ (dpc' = "send" => at' \in 1 .. Len(hand'))
        /\ (dpc' = "recv" => at' = 1 /\ hand' = <<>>)
    BY AdvanceTypes DEF Forward
  <1>2. public' \in Seq(Events \cup {Bye}) /\ Len(public') <= PublicCap
    BY <1>1, DeliveryAssumption DEF Forward, TypeInv, TypeOK
  <1> QED  BY <1>1, <1>2 DEF Forward, TypeInv, TypeOK, Shapes, gate, source, clean

\* An event given up was in hand.
LEMMA DiscardTypes == ASSUME TypeInv, Discard PROVE TypeInv'
  <1>1. /\ hand' \in Seq(Events) /\ at' \in Nat /\ dpc' \in {"recv", "send"} /\ hand[at] \in Events
        /\ (dpc' = "send" => at' \in 1 .. Len(hand'))
        /\ (dpc' = "recv" => at' = 1 /\ hand' = <<>>)
    BY AdvanceTypes DEF Discard
  <1>2. lost' \subseteq Events /\ dropped' \in Nat
    <2>1. Cardinality({hand[at]}) = 1
      BY FS_Singleton
    <2>2. lost' = lost \cup {hand[at]} /\ dropped' = dropped + 1
      BY <2>1 DEF Discard, Count
    <2> QED  BY <1>1, <2>2 DEF TypeInv, TypeOK
  <1>3. /\ adm' \in Accepts \cup {"Overflowed", "Sealed", "Terminal"}
        /\ flagged' \in BOOLEAN /\ trigger' \in BOOLEAN
        /\ UNCHANGED <<phase, drainer, idleSeal, announce>> /\ discard' = TRUE
    BY DEF Discard, gate, TypeInv, TypeOK
  <1> QED  BY <1>1, <1>2, <1>3 DEF Discard, TypeInv, TypeOK, Shapes, source, clean, outlet

\* The teardown and its batches.
LEMMA CleanupTypes == ASSUME TypeInv, CleanupFail \/ CleanupTake \/ CleanupClose \/ ReapFallback PROVE TypeInv'
  <1> USE DEF TypeInv, TypeOK, Shapes, gate, source, disp, outlet
  <1>1. CASE CleanupFail
    BY <1>1 DEF CleanupFail
  <1>2. CASE CleanupTake
    BY <1>2 DEF CleanupTake
  <1>3. CASE CleanupClose
    BY <1>3 DEF CleanupClose, CloseSpool
  <1>4. CASE ReapFallback
    BY <1>4 DEF ReapFallback, CloseSpool, clean
  <1> QED  BY <1>1, <1>2, <1>3, <1>4

\* A batch as an item of the spool.
LEMMA BatchItem ==
    ASSUME TypeInv, chunk # {}, NEW order \in SetToSeqs(chunk)
    PROVE  LET item == [kind |-> "batch", ids |-> order] IN item \in Item /\ Shaped(item)
  <1>1. IsFiniteSet(chunk) /\ chunk \subseteq Owed
    BY FS_Subset, DeliveryAssumption DEF TypeInv, TypeOK
  <1>2. Cardinality(chunk) \in Nat \ {0}
    BY <1>1, FS_CardinalityType, FS_EmptySet
  <1>3. order \in [1 .. Cardinality(chunk) -> chunk]
    BY DEF SetToSeqs
  <1>4. order \in Seq(chunk) /\ Len(order) = Cardinality(chunk)
    BY <1>2, <1>3
  <1>5. order \in Seq(Events) /\ order # <<>> /\ Range(order) \subseteq Owed
    BY <1>1, <1>2, <1>3, <1>4, SeqMonotonic DEF Events, Range
  <1> QED  BY <1>5 DEF Item, Kinds, Shaped

\* A batch enters the spool, or is counted.
LEMMA CleanupSendTypes == ASSUME TypeInv, CleanupSend PROVE TypeInv'
  <1>1. /\ spool' \in Seq(Item) /\ Len(spool') <= Cap + 2 /\ accepted' \in Seq(Events)
        /\ \A i \in DOMAIN spool' : Shaped(spool'[i])
    <2>1. CASE UNCHANGED <<spool, accepted>>
      BY <2>1 DEF TypeInv, TypeOK, Shapes
    <2>2. ASSUME NEW order \in SetToSeqs(chunk), Room, Enter([kind |-> "batch", ids |-> order])
          PROVE  /\ spool' \in Seq(Item) /\ Len(spool') <= Cap + 2 /\ accepted' \in Seq(Events)
                 /\ \A i \in DOMAIN spool' : Shaped(spool'[i])
      <3>1. [kind |-> "batch", ids |-> order] \in Item /\ Shaped([kind |-> "batch", ids |-> order])
        BY BatchItem DEF CleanupSend
      <3> QED  BY <2>2, <3>1, EnterTypes
    <2> QED  BY <2>1, <2>2 DEF CleanupSend
  <1>2. lost' \subseteq Events /\ dropped' \in Nat /\ owed' \subseteq Owed /\ chunk' \subseteq Owed
    <2>1. ASSUME NEW S \in SUBSET Owed, Count(S) PROVE lost' \subseteq Events /\ dropped' \in Nat
      <3>1. Cardinality(S) \in Nat /\ S \subseteq Events
        BY FS_Subset, FS_CardinalityType, DeliveryAssumption DEF Events
      <3> QED  BY <2>1, <3>1 DEF Count, TypeInv, TypeOK
    <2>2. chunk \in SUBSET Owed /\ chunk \cup owed \in SUBSET Owed
      BY DEF TypeInv, TypeOK
    <2> QED  BY <2>1, <2>2 DEF CleanupSend, TypeInv, TypeOK
  <1>3. UNCHANGED <<gate, source, cpc, term, disp, outlet, silent>>
    BY DEF CleanupSend
  <1> QED  BY <1>1, <1>2, <1>3 DEF TypeInv, TypeOK, Shapes, gate, source, disp, outlet

\* The Terminal item enters a spool with room, without events.
LEMMA SendTerminalTypes == ASSUME TypeInv, SendTerminal PROVE TypeInv'
  <1>1. /\ [kind |-> "terminal", ids |-> <<>>] \in Item
        /\ Shaped([kind |-> "terminal", ids |-> <<>>])
    BY DEF Item, Kinds, Shaped
  <1>2. /\ spool \in Seq(Item) /\ Len(spool) < Cap + 2 /\ Cap \in Nat
        /\ spool' = Append(spool, [kind |-> "terminal", ids |-> <<>>])
    BY DeliveryAssumption DEF SendTerminal, Room, TypeInv, TypeOK
  <1>3. /\ spool' \in Seq(Item) /\ DOMAIN spool' = 1 .. Len(spool) + 1
        /\ DOMAIN spool = 1 .. Len(spool) /\ Len(spool) \in Nat
        /\ \A i \in DOMAIN spool : spool'[i] = spool[i]
        /\ spool'[Len(spool) + 1] = [kind |-> "terminal", ids |-> <<>>]
    BY <1>1, <1>2, SpoolGrows
  <1>4. Len(spool') <= Cap + 2
    BY <1>1, <1>2
  <1>5. \A i \in DOMAIN spool' : i = Len(spool) + 1 \/ i \in DOMAIN spool
    BY <1>3
  <1>6. \A i \in DOMAIN spool' : Shaped(spool'[i])
    BY <1>1, <1>3, <1>5 DEF TypeInv, Shapes
  <1>7. term' = "sent" /\ UNCHANGED <<gate, source, clean, disp, outlet, accepted, lost, silent, dropped>>
    BY DEF SendTerminal
  <1> QED  BY <1>3, <1>4, <1>6, <1>7 DEF TypeInv, TypeOK, Shapes, gate, source, clean, disp, outlet

\* Every step keeps types and shapes.
LEMMA StepTypes == TypeInv /\ [Next]_vars => TypeInv'
  <1> SUFFICES ASSUME TypeInv, [Next]_vars PROVE TypeInv'
    OBVIOUS
  <1>1. CASE UNCHANGED vars
    BY <1>1 DEF vars, TypeInv, TypeOK, Shapes, gate, source, clean, disp, outlet
  <1>2. ASSUME NEW d \in Directs, Emit(d) PROVE TypeInv'
    BY <1>2, EmitTypes
  <1>3. ASSUME NEW v \in Delivers, Reserve(v) \/ ResponseWritten(v) \/ TicketDropped(v) PROVE TypeInv'
    BY <1>3, ReserveTypes, OutsideTypes
  <1>4. CASE Dispatcher
    BY <1>4, DispatchTerminalTypes, ReceiveTypes, AwaitTypes, ForwardTypes, DiscardTypes DEF Dispatcher
  <1>5. CASE Take \/ DropReceiver \/ BeginClose \/ SealAdmission \/ Finish
    BY <1>5, TakeTypes, OutsideTypes
  <1>6. CASE Cleanup \/ ReapFallback \/ SendTerminal
    BY <1>6, CleanupTypes, CleanupSendTypes, SendTerminalTypes DEF Cleanup
  <1> QED  BY <1>1, <1>2, <1>3, <1>4, <1>5, <1>6 DEF Next

-----------------------------------------------------------------------------
\* Part 2: the spool, the dispatcher and the public channel are one queue.

\* No event is emitted twice: one that was accepted or counted is in no source
\* any more, and the dropped submits are drained once.
Ledger ==
    /\ todo \cap (Range(accepted) \cup lost) = {}
    /\ (owed \cup chunk) \cap (Range(accepted) \cup lost) = {} /\ owed \cap chunk = {}
    /\ cpc \in {"off", "fail"} => /\ owed = {} /\ chunk = {}
                                  /\ Owed \cap (Range(accepted) \cup lost) = {}
    /\ silent \subseteq Range(accepted)

OrderInv == InOrder /\ Ledger /\ DroppedOnce

\* What leads the accepted order leads it when more is accepted, and what is
\* new follows all of it.
LEMMA MoreAccepted ==
    ASSUME accepted \in Seq(Events), NEW t \in Seq(Events), accepted' = accepted \o t
    PROVE  /\ \A e, f : Precedes(e, f) => Precedes(e, f)'
           /\ \A e \in Range(accepted), f \in Range(t) : Precedes(e, f)'
           /\ \A e, f : (\E j \in DOMAIN t : \E i \in 1 .. j - 1 : t[i] = e /\ t[j] = f)
                         => Precedes(e, f)'
           /\ Range(accepted') = Range(accepted) \cup Range(t)
  <1>1. /\ accepted' \in Seq(Events) /\ Len(accepted) \in Nat /\ Len(t) \in Nat
        /\ DOMAIN accepted = 1 .. Len(accepted) /\ DOMAIN t = 1 .. Len(t)
        /\ DOMAIN accepted' = 1 .. Len(accepted) + Len(t)
        /\ \A i \in 1 .. Len(accepted) : accepted'[i] = accepted[i]
        /\ \A i \in 1 .. Len(t) : accepted'[Len(accepted) + i] = t[i]
    OBVIOUS
  <1>2. ASSUME NEW e, NEW f, Precedes(e, f) PROVE Precedes(e, f)'
    <2>1. PICK j \in DOMAIN accepted : \E i \in 1 .. j - 1 : accepted[i] = e /\ accepted[j] = f
      BY <1>2 DEF Precedes
    <2>2. PICK i \in 1 .. j - 1 : accepted[i] = e /\ accepted[j] = f
      BY <2>1
    <2>3. j \in DOMAIN accepted' /\ i \in 1 .. Len(accepted)
      BY <1>1, <2>1, <2>2
    <2>4. accepted'[i] = e /\ accepted'[j] = f
      BY <1>1, <2>2, <2>3
    <2> QED  BY <2>2, <2>3, <2>4 DEF Precedes
  <1>3. ASSUME NEW e \in Range(accepted), NEW f \in Range(t) PROVE Precedes(e, f)'
    <2>1. PICK i \in DOMAIN accepted : e = accepted[i]
      BY DEF Range
    <2>2. PICK j \in DOMAIN t : f = t[j]
      BY DEF Range
    <2>3. Len(accepted) + j \in DOMAIN accepted' /\ i \in 1 .. Len(accepted) + j - 1
      BY <1>1
    <2>4. accepted'[i] = e /\ accepted'[Len(accepted) + j] = f
      BY <1>1, <2>1, <2>2
    <2> QED  BY <2>3, <2>4 DEF Precedes
  <1>4. ASSUME NEW e, NEW f, NEW j \in DOMAIN t, NEW i \in 1 .. j - 1, t[i] = e, t[j] = f
        PROVE  Precedes(e, f)'
    <2>1. /\ Len(accepted) + j \in DOMAIN accepted' /\ i \in 1 .. Len(t)
          /\ Len(accepted) + i \in 1 .. Len(accepted) + j - 1
      BY <1>1
    <2>2. accepted'[Len(accepted) + i] = e /\ accepted'[Len(accepted) + j] = f
      BY <1>1, <1>4, <2>1
    <2> QED  BY <2>1, <2>2 DEF Precedes
  <1>5. Range(accepted') = Range(accepted) \cup Range(t)
    BY RangeConcatenation
  <1> QED  BY <1>2, <1>3, <1>4, <1>5

\* Places of the queue that follow each other share no event.
LEMMA Apart ==
    ASSUME NothingVanishes, accepted \in Seq(Events), NEW S, NEW T, Ahead(S, T)
    PROVE  S \cap T \subseteq {Bye}
  <1> SUFFICES ASSUME NEW e \in S \cap T, e # Bye PROVE FALSE
    OBVIOUS
  <1>1. Precedes(e, e)
    BY DEF Ahead
  <1>2. PICK j \in DOMAIN accepted : \E i \in 1 .. j - 1 : accepted[i] = e /\ accepted[j] = e
    BY <1>1 DEF Precedes
  <1>3. PICK i \in 1 .. j - 1 : accepted[i] = e /\ accepted[j] = e
    BY <1>2
  <1>4. i \in DOMAIN accepted /\ i # j
    <2>1. Len(accepted) \in Nat /\ DOMAIN accepted = 1 .. Len(accepted)
      OBVIOUS
    <2> QED  BY <1>3, <2>1
  <1> QED  BY <1>3, <1>4 DEF NothingVanishes

\* Where events can be; Disconnected is none of them.
LEMMA PlacesHoldEvents ==
    ASSUME TypeInv
    PROVE  /\ Range(accepted) \subseteq Events /\ Bye \notin Events
           /\ InSpool \subseteq Events /\ InHand \subseteq Events
           /\ Stream \in Seq(Events \cup {Bye})
  <1>1. \A item \in Item : Range(item.ids) \subseteq Events
    BY DEF Item, Range
  <1>2. \A i \in DOMAIN spool : spool[i] \in Item
    BY DEF TypeInv, TypeOK
  <1>3. InSpool \subseteq Events
    BY <1>1, <1>2 DEF InSpool
  <1>4. InHand \subseteq Events
    <2>1. hand \in Seq(Events) /\ at \in Nat /\ at >= 1
      BY DEF TypeInv, TypeOK, Shapes
    <2>2. \A k \in at .. Len(hand) : hand[k] \in Events
      BY <2>1
    <2> QED  BY <2>2 DEF InHand
  <1>5. Range(accepted) \subseteq Events
    BY DEF TypeInv, TypeOK, Range
  <1>6. Stream \in Seq(Events \cup {Bye})
    BY ConcatProperties DEF Stream, TypeInv, TypeOK
  <1> QED  BY <1>3, <1>4, <1>5, <1>6, DeliveryAssumption DEF Events

\* An item enters with events that were neither accepted nor given up before.
LEMMA EnterKeepsOrder ==
    ASSUME TypeInv, InOrder, NEW item \in Item, Enter(item),
           UNCHANGED <<seen, public, hand, at, lost, silent>>,
           Range(item.ids) \cap (Range(accepted) \cup lost \cup silent) = {},
           \A i, j \in DOMAIN item.ids : item.ids[i] = item.ids[j] => i = j
    PROVE  InOrder'
  <1> DEFINE t == item.ids
  <1>1. /\ accepted \in Seq(Events) /\ t \in Seq(Events) /\ accepted' = accepted \o t
        /\ spool \in Seq(Item) /\ spool' = Append(spool, item)
    BY DEF TypeInv, TypeOK, Item, Enter
  <1>2. /\ \A e, f : Precedes(e, f) => Precedes(e, f)'
        /\ \A e \in Range(accepted), f \in Range(t) : Precedes(e, f)'
        /\ \A e, f : (\E j \in DOMAIN t : \E i \in 1 .. j - 1 : t[i] = e /\ t[j] = f) => Precedes(e, f)'
        /\ Range(accepted') = Range(accepted) \cup Range(t)
    BY <1>1, MoreAccepted
  <1>3. /\ Len(spool) \in Nat /\ DOMAIN spool = 1 .. Len(spool) /\ DOMAIN spool' = 1 .. Len(spool) + 1
        /\ \A i \in 1 .. Len(spool) : spool'[i] = spool[i]
        /\ spool'[Len(spool) + 1] = item
        /\ InSpool' = InSpool \cup Range(t)
    BY <1>1, SpoolGrows
  <1>4. Stream' = Stream /\ InHand' = InHand
    BY DEF Stream, InHand
  <1>5. (Range(Stream) \ {Bye}) \cup InHand \cup InSpool \subseteq Range(accepted)
    BY DEF InOrder, NothingVanishes
  <1>6. NothingVanishes'
    <2>1. (Range(Stream)' \ {Bye}) \cup InHand' \cup InSpool' = Range(accepted)' \ (lost' \cup silent')
      <3>1. (Range(Stream) \ {Bye}) \cup InHand \cup InSpool = Range(accepted) \ (lost \cup silent)
        BY DEF InOrder, NothingVanishes
      <3>2. Range(Stream)' = Range(Stream)
        BY <1>4 DEF Range
      <3> QED  BY <1>2, <1>3, <1>4, <3>1, <3>2 DEF Range
    <2>2. \A i, j \in DOMAIN accepted' : accepted'[i] = accepted'[j] => i = j
      <3>1. /\ Len(accepted) \in Nat /\ Len(t) \in Nat
            /\ DOMAIN accepted = 1 .. Len(accepted) /\ DOMAIN t = 1 .. Len(t)
            /\ DOMAIN accepted' = 1 .. Len(accepted) + Len(t)
            /\ \A i \in 1 .. Len(accepted) : accepted'[i] = accepted[i]
            /\ \A i \in Len(accepted) + 1 .. Len(accepted) + Len(t) : accepted'[i] = t[i - Len(accepted)]
        BY <1>1
      <3>2. \A i, j \in 1 .. Len(accepted) : accepted[i] = accepted[j] => i = j
        BY <3>1 DEF InOrder, NothingVanishes
      <3>3. \A i \in 1 .. Len(accepted), j \in 1 .. Len(t) : accepted[i] # t[j]
        <4>1. \A i \in 1 .. Len(accepted) : accepted[i] \in Range(accepted)
          BY <3>1 DEF Range
        <4>2. \A j \in 1 .. Len(t) : t[j] \in Range(t)
          BY <3>1 DEF Range
        <4> QED  BY <4>1, <4>2
      <3>4. \A i, j \in 1 .. Len(t) : t[i] = t[j] => i = j
        BY <3>1
      <3> HIDE DEF t
      <3> SUFFICES ASSUME NEW i \in DOMAIN accepted', NEW j \in DOMAIN accepted', accepted'[i] = accepted'[j]
                   PROVE  i = j
        OBVIOUS
      <3>5. \A k \in DOMAIN accepted' :
              \/ k \in 1 .. Len(accepted)
              \/ k \in Len(accepted) + 1 .. Len(accepted) + Len(t) /\ k - Len(accepted) \in 1 .. Len(t)
        BY <3>1
      <3>6. CASE i \in 1 .. Len(accepted) /\ j \in 1 .. Len(accepted)
        BY <3>1, <3>2, <3>6
      <3>7. CASE i \notin 1 .. Len(accepted) /\ j \notin 1 .. Len(accepted)
        <4>1. i - Len(accepted) = j - Len(accepted)
          BY <3>1, <3>4, <3>5, <3>7
        <4> QED  BY <3>1, <4>1
      <3>8. CASE i \in 1 .. Len(accepted) /\ j \notin 1 .. Len(accepted)
        BY <3>1, <3>3, <3>5, <3>8
      <3>9. CASE i \notin 1 .. Len(accepted) /\ j \in 1 .. Len(accepted)
        BY <3>1, <3>3, <3>5, <3>9
      <3> QED  BY <3>6, <3>7, <3>8, <3>9
    <2> QED  BY <2>1, <2>2 DEF NothingVanishes
  <1>7. NothingOvertakes'
    <2>1. NothingOvertakes
      BY DEF InOrder
    <2>2. Ascending(Stream)' /\ Ascending(hand)'
      <3>1. Stream' = Stream /\ hand' = hand
        BY <1>4
      <3> QED  BY <1>2, <2>1, <3>1 DEF NothingOvertakes, Ascending, Ahead
    <2>3. Ahead(Range(Stream), InHand \cup InSpool)'
      <3>1. Range(Stream)' = Range(Stream)
        BY <1>4 DEF Range
      <3>2. ASSUME NEW e \in Range(Stream) \ {Bye}, NEW f \in (InHand \cup InSpool) \ {Bye}
            PROVE  Precedes(e, f)'
        BY <1>2, <2>1 DEF NothingOvertakes, Ahead
      <3>3. ASSUME NEW e \in Range(Stream) \ {Bye}, NEW f \in Range(t) PROVE Precedes(e, f)'
        BY <1>2, <1>5
      <3> QED  BY <1>3, <1>4, <3>1, <3>2, <3>3 DEF Ahead
    <2>4. Ahead(InHand, InSpool)'
      <3>1. ASSUME NEW e \in InHand \ {Bye}, NEW f \in InSpool \ {Bye} PROVE Precedes(e, f)'
        BY <1>2, <2>1 DEF NothingOvertakes, Ahead
      <3>2. ASSUME NEW e \in InHand \ {Bye}, NEW f \in Range(t) PROVE Precedes(e, f)'
        BY <1>2, <1>5
      <3> QED  BY <1>3, <1>4, <3>1, <3>2 DEF Ahead
    <2>5. ASSUME NEW k \in DOMAIN spool'
          PROVE  /\ Ascending(spool[k].ids)'
                 /\ \A i \in 1 .. k - 1 : Ahead(Range(spool[i].ids), Range(spool[k].ids))'
      <3>1. CASE k \in 1 .. Len(spool)
        <4>1. k \in DOMAIN spool /\ \A i \in 1 .. k - 1 : i \in 1 .. Len(spool)
          BY <1>3, <3>1
        <4>2. spool'[k] = spool[k] /\ \A i \in 1 .. k - 1 : spool'[i] = spool[i]
          BY <1>3, <3>1, <4>1
        <4>3. Ascending(spool[k].ids)'
          BY <1>2, <2>1, <4>1, <4>2 DEF NothingOvertakes, Ascending, Ahead
        <4>4. ASSUME NEW i \in 1 .. k - 1 PROVE Ahead(Range(spool[i].ids), Range(spool[k].ids))'
          <5>1. Ahead(Range(spool[i].ids), Range(spool[k].ids))
            BY <2>1, <4>1 DEF NothingOvertakes
          <5>2. Range(spool[i].ids)' = Range(spool[i].ids) /\ Range(spool[k].ids)' = Range(spool[k].ids)
            BY <4>2 DEF Range
          <5> QED  BY <1>2, <5>1, <5>2 DEF Ahead
        <4> QED  BY <4>3, <4>4
      <3>2. CASE k = Len(spool) + 1
        <4>1. spool'[k].ids = t
          BY <1>3, <3>2
        <4>2. Ascending(spool[k].ids)'
          BY <1>2, <4>1 DEF Ascending, Ahead
        <4>3. ASSUME NEW i \in 1 .. k - 1 PROVE Ahead(Range(spool[i].ids), Range(spool[k].ids))'
          <5>1. i \in DOMAIN spool /\ spool'[i] = spool[i]
            BY <1>3, <3>2
          <5>2. Range(spool[i].ids) \subseteq Range(accepted)
            BY <1>5, <5>1 DEF InSpool
          <5>3. Range(spool[i].ids)' = Range(spool[i].ids) /\ Range(spool[k].ids)' = Range(t)
            BY <4>1, <5>1 DEF Range
          <5> QED  BY <1>2, <5>2, <5>3 DEF Ahead
        <4> QED  BY <4>2, <4>3
      <3> QED  BY <1>3, <3>1, <3>2
    <2> QED  BY <2>2, <2>3, <2>4, <2>5 DEF NothingOvertakes
  <1> QED  BY <1>6, <1>7 DEF InOrder

\* An event that never was in the queue is given up.
LEMMA LoseKeepsOrder ==
    ASSUME TypeInv, InOrder, NEW S, S \cap Range(accepted) = {}, lost' = lost \cup S,
           UNCHANGED <<seen, public, hand, at, spool, accepted, silent>>
    PROVE  InOrder'
  <1>1. /\ Stream' = Stream /\ InHand' = InHand /\ InSpool' = InSpool
        /\ Range(Stream)' = Range(Stream) /\ Range(accepted)' = Range(accepted)
    BY DEF Stream, InHand, InSpool, Range
  <1>2. NothingOvertakes'
    BY <1>1 DEF InOrder, NothingOvertakes, Ascending, Ahead, Precedes, Range
  <1>3. Range(accepted) \ (lost' \cup silent) = Range(accepted) \ (lost \cup silent)
    OBVIOUS
  <1> QED  BY <1>1, <1>2, <1>3 DEF InOrder, NothingVanishes

\* The dispatcher takes an item in hand, or gives its events up at once.
LEMMA ReceiveKeepsOrder ==
    ASSUME TypeInv, InOrder, spool # <<>>, spool' = Tail(spool), hand = <<>>, at = 1,
           UNCHANGED <<seen, public, accepted, silent>>,
           \/ lost' = lost /\ hand' = Head(spool).ids /\ at' = 1
           \/ lost' = lost \cup Range(Head(spool).ids) /\ UNCHANGED <<hand, at>>
    PROVE  InOrder'
  <1> DEFINE h == Range(Head(spool).ids)
  <1>1. /\ Len(spool) \in Nat \ {0}
        /\ DOMAIN spool = 1 .. Len(spool) /\ DOMAIN spool' = 1 .. Len(spool) - 1
        /\ \A i \in DOMAIN spool' : spool'[i] = spool[i + 1]
        /\ Head(spool) = spool[1] /\ Head(spool) \in Item
        /\ InSpool = InSpool' \cup h
    BY SpoolShrinks DEF TypeInv, TypeOK
  <1>2. Stream' = Stream /\ Range(Stream)' = Range(Stream) /\ Range(accepted)' = Range(accepted)
        /\ InHand = {}
    BY DEF Stream, InHand, Range
  <1>3. NothingOvertakes
    BY DEF InOrder
  <1>4. Ahead(h, InSpool')
    <2>1. ASSUME NEW f \in InSpool' PROVE \E k \in DOMAIN spool' : f \in Range(spool'[k].ids)
      BY DEF InSpool, Range
    <2>2. ASSUME NEW k \in DOMAIN spool' PROVE Ahead(h, Range(spool'[k].ids))
      <3>1. k + 1 \in DOMAIN spool /\ 1 \in 1 .. (k + 1) - 1 /\ spool'[k] = spool[k + 1]
        BY <1>1
      <3>2. Ahead(Range(spool[1].ids), Range(spool[k + 1].ids))
        BY <1>3, <3>1 DEF NothingOvertakes
      <3> QED  BY <1>1, <3>1, <3>2
    <2> QED  BY <2>1, <2>2 DEF Ahead
  <1>5. ASSUME NEW S, NEW T, Ahead(S, T) PROVE Ahead(S, T)'
    BY <1>5 DEF Ahead, Precedes
  <1>6. InHand' \cap h = InHand' /\ (InHand' = h \/ (InHand' = {} /\ lost' = lost \cup h))
    <2>1. CASE lost' = lost /\ hand' = Head(spool).ids /\ at' = 1
      <3>1. hand' \in Seq(Events)
        BY <1>1, <2>1 DEF Item
      <3>2. InHand' = {hand'[k] : k \in 1 .. Len(hand')}
        BY <2>1 DEF InHand
      <3>3. InHand' = h
        BY <2>1, <3>1, <3>2, RangeEquality
      <3> QED  BY <3>3
    <2>2. CASE lost' = lost \cup h /\ UNCHANGED <<hand, at>>
      BY <1>2, <2>2 DEF InHand
    <2> QED  BY <2>1, <2>2
  <1>7. NothingOvertakes'
    <2>1. Ascending(Stream)'
      BY <1>2, <1>3, <1>5 DEF NothingOvertakes, Ascending
    <2>2. Ascending(hand)'
      <3>1. CASE hand' = Head(spool).ids
        <4>1. Ascending(spool[1].ids) /\ hand' = spool[1].ids
          BY <1>1, <1>3, <3>1 DEF NothingOvertakes
        <4> QED  BY <1>5, <4>1 DEF Ascending
      <3>2. CASE hand' = hand
        BY <3>2 DEF Ascending
      <3> QED  BY <3>1, <3>2
    <2>3. Ahead(Range(Stream), InHand \cup InSpool)'
      BY <1>1, <1>2, <1>3, <1>6 DEF NothingOvertakes, Ahead, Precedes
    <2>4. Ahead(InHand, InSpool)'
      BY <1>4, <1>6 DEF Ahead, Precedes
    <2>5. ASSUME NEW k \in DOMAIN spool'
          PROVE  /\ Ascending(spool[k].ids)'
                 /\ \A i \in 1 .. k - 1 : Ahead(Range(spool[i].ids), Range(spool[k].ids))'
      <3>1. k + 1 \in DOMAIN spool /\ spool'[k] = spool[k + 1]
        BY <1>1
      <3>2. Ascending(spool[k + 1].ids)
        BY <1>3, <3>1 DEF NothingOvertakes
      <3>3. Ascending(spool[k].ids)'
        BY <1>5, <3>1, <3>2 DEF Ascending
      <3>4. ASSUME NEW i \in 1 .. k - 1 PROVE Ahead(Range(spool[i].ids), Range(spool[k].ids))'
        <4>1. i + 1 \in 1 .. (k + 1) - 1 /\ spool'[i] = spool[i + 1]
          BY <1>1
        <4>2. Ahead(Range(spool[i + 1].ids), Range(spool[k + 1].ids))
          BY <1>3, <3>1, <4>1 DEF NothingOvertakes
        <4>3. /\ Range(spool[i].ids)' = Range(spool[i + 1].ids)
              /\ Range(spool[k].ids)' = Range(spool[k + 1].ids)
          BY <3>1, <4>1 DEF Range
        <4> QED  BY <4>2, <4>3 DEF Ahead, Precedes
      <3> QED  BY <3>3, <3>4
    <2> QED  BY <2>1, <2>2, <2>3, <2>4, <2>5 DEF NothingOvertakes
  <1>8. NothingVanishes'
    <2>1. (Range(Stream) \ {Bye}) \cup InHand \cup InSpool = Range(accepted) \ (lost \cup silent)
      BY DEF InOrder, NothingVanishes
    <2>2. InSpool \subseteq Events /\ Bye \notin Events
      BY PlacesHoldEvents
    <2>3. Range(Stream) \cap InSpool \subseteq {Bye}
      <3>1. Ahead(Range(Stream), InSpool) /\ accepted \in Seq(Events) /\ NothingVanishes
        BY <1>3 DEF NothingOvertakes, Ahead, InOrder, TypeInv, TypeOK
      <3> QED  BY <3>1, Apart
    <2>4. h \cap InSpool' \subseteq {Bye}
      BY <1>4, Apart DEF InOrder, TypeInv, TypeOK
    <2>5. (Range(Stream)' \ {Bye}) \cup InHand' \cup InSpool' = Range(accepted) \ (lost' \cup silent)
      <3>1. CASE InHand' = h /\ lost' = lost
        BY <1>1, <1>2, <2>1, <3>1
      <3>2. CASE InHand' = {} /\ lost' = lost \cup h
        BY <1>1, <1>2, <2>1, <2>2, <2>3, <2>4, <3>2
      <3>3. lost' = lost /\ hand' = Head(spool).ids /\ at' = 1 => InHand' = h
        <4>1. ASSUME lost' = lost, hand' = Head(spool).ids, at' = 1 PROVE InHand' = h
          <5>1. hand' \in Seq(Events) /\ InHand' = {hand'[k] : k \in 1 .. Len(hand')}
            BY <1>1, <4>1 DEF Item, InHand
          <5> QED  BY <4>1, <5>1, RangeEquality
        <4> QED  BY <4>1
      <3>4. lost' = lost \cup h /\ UNCHANGED <<hand, at>> => InHand' = {}
        BY <1>2 DEF InHand
      <3> QED  BY <3>1, <3>2, <3>3, <3>4
    <2> QED  BY <1>2, <2>5 DEF InOrder, NothingVanishes
  <1> QED  BY <1>7, <1>8 DEF InOrder
\* What was ahead stays ahead while nothing new is accepted.
LEMMA AheadStays ==
    ASSUME accepted' = accepted
    PROVE  /\ \A S, T : Ahead(S, T) => Ahead(S, T)'
           /\ \A s : Ascending(s) => Ascending(s)'
  <1>1. ASSUME NEW S, NEW T, Ahead(S, T) PROVE Ahead(S, T)'
    BY <1>1 DEF Ahead, Precedes
  <1>2. ASSUME NEW s, Ascending(s) PROVE Ascending(s)'
    BY <1>1, <1>2 DEF Ascending
  <1> QED  BY <1>1, <1>2

\* One event leaves the dispatcher's hand; it led those that stay.
LEMMA AdvanceHand ==
    ASSUME TypeInv, InOrder, at \in 1 .. Len(hand), Advance
    PROVE  /\ hand[at] \in InHand /\ InHand = InHand' \cup {hand[at]}
           /\ Ahead({hand[at]}, InHand') /\ Ascending(hand')
  <1>1. hand \in Seq(Events) /\ Len(hand) \in Nat /\ DOMAIN hand = 1 .. Len(hand) /\ at \in Nat
    BY DEF TypeInv, TypeOK
  <1>2. Ascending(hand)
    BY DEF InOrder, NothingOvertakes
  <1>3. CASE at < Len(hand) /\ at' = at + 1 /\ UNCHANGED <<dpc, hand>>
    <2>1. InHand' = {hand[k] : k \in at + 1 .. Len(hand)}
      BY <1>3 DEF InHand
    <2>2. at .. Len(hand) = {at} \cup (at + 1 .. Len(hand))
      BY <1>1, <1>3
    <2>3. InHand = InHand' \cup {hand[at]} /\ hand[at] \in InHand
      BY <2>1, <2>2 DEF InHand
    <2>4. ASSUME NEW k \in at + 1 .. Len(hand) PROVE Ahead({hand[at]}, {hand[k]})
      <3>1. k \in DOMAIN hand /\ at \in 1 .. k - 1
        BY <1>1
      <3> QED  BY <1>2, <3>1 DEF Ascending
    <2>5. Ahead({hand[at]}, InHand')
      BY <2>1, <2>4 DEF Ahead
    <2> QED  BY <1>2, <1>3, <2>3, <2>5
  <1>4. CASE ~(at < Len(hand)) /\ hand' = <<>> /\ at' = 1
    <2>0. Len(<<>>) = 0
      OBVIOUS
    <2>1. at = Len(hand)
      <3>1. ~(at < Len(hand)) /\ at <= Len(hand) /\ at \in Nat /\ Len(hand) \in Nat
        BY <1>1, <1>4
      <3>2. \A m, n \in Nat : ~(m < n) /\ m <= n => m = n
        OBVIOUS
      <3> QED  BY <3>1, <3>2
    <2>2. InHand' = {hand'[k] : k \in at' .. Len(hand')} /\ at' .. Len(hand') = {}
      BY <1>4, <2>0 DEF InHand
    <2>3. InHand' = {}
      BY <2>2
    <2>4. InHand = {hand[at]}
      BY <1>1, <2>1 DEF InHand
    <2>5. Ascending(hand')
      <3>1. DOMAIN hand' = {}
        BY <1>4
      <3> QED  BY <3>1 DEF Ascending
    <2> QED  BY <2>3, <2>4, <2>5 DEF Ahead
  <1> QED  BY <1>3, <1>4 DEF Advance

\* The event is handed on to the public channel.
LEMMA ForwardKeepsOrder ==
    ASSUME TypeInv, InOrder, at \in 1 .. Len(hand), Advance, public' = Append(public, hand[at]),
           UNCHANGED <<seen, spool, accepted, lost, silent>>
    PROVE  InOrder'
  <1> DEFINE e == hand[at]
  <1>1. /\ e \in InHand /\ InHand = InHand' \cup {e} /\ Ahead({e}, InHand') /\ Ascending(hand')
    BY AdvanceHand
  <1>2. e \in Events /\ e # Bye /\ Stream \in Seq(Events \cup {Bye}) /\ e \in Events \cup {Bye}
    BY <1>1, PlacesHoldEvents
  <1>3. Stream' = Append(Stream, e)
    BY <1>2 DEF Stream, TypeInv, TypeOK
  <1> HIDE DEF e
  <1>4. /\ DOMAIN Stream' = 1 .. Len(Stream) + 1 /\ DOMAIN Stream = 1 .. Len(Stream) /\ Len(Stream) \in Nat
        /\ \A i \in DOMAIN Stream : Stream'[i] = Stream[i]
        /\ Stream'[Len(Stream) + 1] = e /\ Range(Stream') = Range(Stream) \cup {e}
    BY <1>2, <1>3, AppendedPlaces
  <1>5. InSpool' = InSpool /\ Range(accepted)' = Range(accepted) /\ Range(Stream)' = Range(Stream')
    BY DEF InSpool, Range
  <1>6. NothingOvertakes
    BY DEF InOrder
  <1>7. NothingOvertakes'
    <2>1. Ascending(Stream')
      <3>1. ASSUME NEW j \in 1 .. Len(Stream), NEW i \in 1 .. j - 1 PROVE Ahead({Stream'[i]}, {Stream'[j]})
        <4>1. i \in DOMAIN Stream /\ j \in DOMAIN Stream
          BY <1>4
        <4>2. Ahead({Stream[i]}, {Stream[j]})
          BY <1>6, <4>1 DEF NothingOvertakes, Ascending
        <4> QED  BY <1>4, <4>1, <4>2
      <3>2. ASSUME NEW i \in 1 .. Len(Stream) PROVE Ahead({Stream'[i]}, {e})
        <4>1. Stream'[i] \in Range(Stream)
          BY <1>4 DEF Range
        <4>2. Ahead(Range(Stream), InHand \cup InSpool)
          BY <1>6 DEF NothingOvertakes
        <4> QED  BY <1>1, <4>1, <4>2 DEF Ahead
      <3>3. \A j \in DOMAIN Stream' : j \in 1 .. Len(Stream) \/ (j = Len(Stream) + 1 /\ j - 1 = Len(Stream))
        BY <1>4
      <3> QED  BY <1>4, <3>1, <3>2, <3>3 DEF Ascending
    <2>2. Ahead(Range(Stream'), InHand' \cup InSpool)
      <3>1. Ahead(Range(Stream), InHand \cup InSpool) /\ Ahead(InHand, InSpool)
        BY <1>6 DEF NothingOvertakes
      <3> QED  BY <1>1, <1>4, <3>1 DEF Ahead
    <2>3. Ahead(InHand', InSpool)
      BY <1>1, <1>6 DEF NothingOvertakes, Ahead
    <2>4. ASSUME NEW k \in DOMAIN spool
          PROVE  /\ Ascending(spool[k].ids)
                 /\ \A i \in 1 .. k - 1 : Ahead(Range(spool[i].ids), Range(spool[k].ids))
      BY <1>6 DEF NothingOvertakes
    <2> QED  BY <1>1, <1>5, <2>1, <2>2, <2>3, <2>4 DEF NothingOvertakes, Ascending, Ahead, Precedes, Range
  <1>8. NothingVanishes'
    BY <1>1, <1>2, <1>4, <1>5 DEF InOrder, NothingVanishes
  <1> QED  BY <1>7, <1>8 DEF InOrder

\* The event is given up, and counted.
LEMMA DiscardKeepsOrder ==
    ASSUME TypeInv, InOrder, at \in 1 .. Len(hand), Advance, lost' = lost \cup {hand[at]},
           UNCHANGED <<seen, public, spool, accepted, silent>>
    PROVE  InOrder'
  <1> DEFINE e == hand[at]
  <1>1. /\ e \in InHand /\ InHand = InHand' \cup {e} /\ Ahead({e}, InHand') /\ Ascending(hand')
    BY AdvanceHand
  <1>2. e # Bye
    BY <1>1, PlacesHoldEvents
  <1> HIDE DEF e
  <1>3. /\ Stream' = Stream /\ InSpool' = InSpool
        /\ Range(Stream)' = Range(Stream) /\ Range(accepted)' = Range(accepted)
    BY DEF Stream, InSpool, Range
  <1>4. NothingOvertakes
    BY DEF InOrder
  <1>5. NothingOvertakes'
    <2>1. Ahead(InHand', InSpool) /\ Ahead(Range(Stream), InHand' \cup InSpool)
      BY <1>1, <1>4 DEF NothingOvertakes, Ahead
    <2> QED  BY <1>1, <1>3, <1>4, <2>1 DEF NothingOvertakes, Ascending, Ahead, Precedes, Range
  <1>6. NothingVanishes'
    <2>1. accepted \in Seq(Events) /\ NothingVanishes
      BY DEF TypeInv, TypeOK, InOrder
    <2>2. Ahead(Range(Stream), {e}) /\ Ahead({e}, InSpool)
      BY <1>1, <1>4 DEF NothingOvertakes, Ahead
    <2>3. e \notin Range(Stream) /\ e \notin InSpool /\ e \notin InHand'
      BY <1>1, <1>2, <2>1, <2>2, Apart
    <2>4. lost' = lost \cup {e}
      BY DEF e
    <2>5. (Range(Stream) \ {Bye}) \cup InHand \cup InSpool = Range(accepted) \ (lost \cup silent)
      BY <2>1 DEF NothingVanishes
    <2>6. (Range(Stream)' \ {Bye}) \cup InHand' \cup InSpool' = Range(accepted)' \ (lost' \cup silent')
      BY <1>1, <1>2, <1>3, <2>3, <2>4, <2>5
    <2> QED  BY <2>1, <2>6 DEF NothingVanishes
  <1> QED  BY <1>5, <1>6 DEF InOrder
\* A step that leaves the queue as it is.
LEMMA SameOrder ==
    ASSUME InOrder, UNCHANGED <<Stream, hand, at, spool, accepted, lost, silent>>
    PROVE  InOrder'
  <1>1. /\ InHand' = InHand /\ InSpool' = InSpool
        /\ Range(Stream)' = Range(Stream) /\ Range(accepted)' = Range(accepted)
    BY DEF InHand, InSpool, Range
  <1>2. NothingOvertakes'
    BY <1>1 DEF InOrder, NothingOvertakes, Ascending, Ahead, Precedes, Range
  <1> QED  BY <1>1, <1>2 DEF InOrder, NothingVanishes

\* The consumer takes an event out of the public channel.
LEMMA TakeKeepsStream == ASSUME TypeInv, Take PROVE Stream' = Stream
  BY DEF TypeInv, TypeOK, Take, Stream

\* The Terminal item arrives: what is left behind it is lost silently.
LEMMA TerminalKeepsOrder ==
    ASSUME TypeInv, InOrder, DispatchTerminal
    PROVE  InOrder'
  <1> DEFINE R == UNION {Range(item.ids) : item \in Range(Tail(spool))}
  <1>1. /\ spool # <<>> /\ spool' = <<>> /\ silent' = silent \cup R /\ dpc = "recv"
        /\ UNCHANGED <<hand, at, seen, accepted, lost>>
        /\ (public' = public \/ public' = Append(public, Bye)) /\ Head(spool).kind = "terminal"
    BY DEF DispatchTerminal
  <1>2. spool \in Seq(Item) /\ accepted \in Seq(Events) /\ Stream \in Seq(Events \cup {Bye})
        /\ Bye \in Events \cup {Bye}
    BY PlacesHoldEvents DEF TypeInv, TypeOK
  <1>3. InHand = {} /\ InHand' = {}
    BY <1>1 DEF TypeInv, Shapes, InHand
  <1>4. InSpool = R
    <2>1. /\ Len(spool) \in Nat \ {0} /\ DOMAIN spool = 1 .. Len(spool)
          /\ DOMAIN Tail(spool) = 1 .. Len(spool) - 1
          /\ \A i \in DOMAIN Tail(spool) : Tail(spool)[i] = spool[i + 1]
          /\ Head(spool) = spool[1]
      BY <1>1, <1>2
    <2>2. Range(spool[1].ids) = {}
      <3>1. spool[1].ids = <<>>
        BY <1>1, <2>1 DEF TypeInv, Shapes, Shaped
      <3>2. DOMAIN <<>> = {}
        OBVIOUS
      <3> QED  BY <3>1, <3>2 DEF Range
    <2>3. ASSUME NEW f PROVE f \in InSpool <=> f \in R
      <3>1. f \in InSpool <=> \E i \in 1 .. Len(spool) : f \in Range(spool[i].ids)
        BY <2>1 DEF InSpool
      <3>2. f \in R <=> \E i \in 1 .. Len(spool) - 1 : f \in Range(spool[i + 1].ids)
        <4>1. f \in R <=> \E item \in Range(Tail(spool)) : f \in Range(item.ids)
          BY Zenon
        <4>2. \A item : item \in Range(Tail(spool)) <=> \E i \in 1 .. Len(spool) - 1 : item = spool[i + 1]
          BY <2>1 DEF Range
        <4> QED  BY <4>1, <4>2
      <3>3. \A i \in 1 .. Len(spool) : i = 1 \/ (i - 1 \in 1 .. Len(spool) - 1 /\ (i - 1) + 1 = i)
        BY <2>1
      <3>4. \A i \in 1 .. Len(spool) - 1 : i + 1 \in 1 .. Len(spool)
        BY <2>1
      <3> QED  BY <2>2, <3>1, <3>2, <3>3, <3>4
    <2> QED  BY <2>3
  <1> HIDE DEF R
  <1>5. DOMAIN spool' = {} /\ InSpool' = {}
    <2>1. DOMAIN spool' = {}
      BY <1>1
    <2> QED  BY <2>1 DEF InSpool
  <1>6. Stream' = Stream \/ Stream' = Append(Stream, Bye)
    <2> DEFINE W == Events \cup {Bye}
    <2>1. seen \in Seq(W) /\ public \in Seq(W) /\ Bye \in W
      BY DEF TypeInv, TypeOK
    <2> HIDE DEF W
    <2>2. seen \o Append(public, Bye) = Append(seen \o public, Bye)
      BY <2>1
    <2> QED  BY <1>1, <2>2 DEF Stream
  <1>7. Range(Stream') \ {Bye} = Range(Stream) \ {Bye} /\ Ascending(Stream')
    <2>1. Ascending(Stream)
      BY DEF InOrder, NothingOvertakes
    <2>2. CASE Stream' = Append(Stream, Bye)
      <3>1. /\ DOMAIN Stream' = 1 .. Len(Stream) + 1 /\ DOMAIN Stream = 1 .. Len(Stream) /\ Len(Stream) \in Nat
            /\ \A i \in DOMAIN Stream : Stream'[i] = Stream[i]
            /\ Stream'[Len(Stream) + 1] = Bye /\ Range(Stream') = Range(Stream) \cup {Bye}
        BY <1>2, <2>2, AppendedPlaces
      <3>2. ASSUME NEW j \in 1 .. Len(Stream), NEW i \in 1 .. j - 1 PROVE Ahead({Stream'[i]}, {Stream'[j]})
        <4>1. i \in DOMAIN Stream /\ j \in DOMAIN Stream
          BY <3>1
        <4>2. Ahead({Stream[i]}, {Stream[j]})
          BY <2>1, <4>1 DEF Ascending
        <4> QED  BY <3>1, <4>1, <4>2
      <3>3. \A i \in 1 .. Len(Stream) : Ahead({Stream'[i]}, {Bye})
        BY DEF Ahead
      <3>4. \A j \in DOMAIN Stream' : j \in 1 .. Len(Stream) \/ (j = Len(Stream) + 1 /\ j - 1 = Len(Stream))
        BY <3>1
      <3> QED  BY <3>1, <3>2, <3>3, <3>4 DEF Ascending
    <2>3. CASE Stream' = Stream
      BY <2>1, <2>3
    <2> QED  BY <1>6, <2>2, <2>3
  <1>8. NothingOvertakes'
    <2>1. Ascending(hand)' /\ Ascending(Stream)'
      BY <1>1, <1>7, AheadStays DEF InOrder, NothingOvertakes, Ascending, Ahead, Precedes
    <2> QED  BY <1>3, <1>5, <2>1 DEF NothingOvertakes, Ahead
  <1>9. NothingVanishes'
    <2>1. NothingVanishes /\ Ahead(Range(Stream), InSpool)
      BY DEF InOrder, NothingOvertakes, Ahead
    <2>2. Range(Stream) \cap InSpool \subseteq {Bye}
      BY <1>2, <2>1, Apart
    <2>3. InSpool \subseteq Events /\ Bye \notin Events
      BY PlacesHoldEvents
    <2>4. (Range(Stream) \ {Bye}) \cup InHand \cup InSpool = Range(accepted) \ (lost \cup silent)
      BY <2>1 DEF NothingVanishes
    <2>5. Range(Stream)' = Range(Stream') /\ Range(accepted)' = Range(accepted)
      BY <1>1 DEF Range
    <2>6. (Range(Stream)' \ {Bye}) \cup InHand' \cup InSpool' = Range(accepted)' \ (lost' \cup silent')
      BY <1>1, <1>3, <1>4, <1>5, <1>7, <2>2, <2>3, <2>4, <2>5
    <2> QED  BY <1>1, <2>1, <2>6 DEF NothingVanishes
  <1> QED  BY <1>8, <1>9 DEF InOrder
-----------------------------------------------------------------------------
\* Part 3: how far a close has come.

\* The cleanup runs once the connection is closed; the Terminal item is on its
\* way once admission is Terminal, and the dispatcher exits only after it came.
Ends ==
    /\ cpc = "off" <=> phase # "Closed"
    /\ adm = "Terminal" <=> term # "none"
    /\ cpc \in {"off", "fail"} => term = "none"
    /\ term # "sent" => ~TerminalIn /\ dpc # "exited"

\* An item of another kind brings no Terminal item.
LEMMA EnterTerminal ==
    ASSUME TypeInv, NEW item \in Item, item.kind # "terminal", Enter(item), ~TerminalIn
    PROVE  ~TerminalIn'
  <1>1. /\ DOMAIN spool = 1 .. Len(spool) /\ DOMAIN spool' = 1 .. Len(spool) + 1 /\ Len(spool) \in Nat
        /\ \A i \in 1 .. Len(spool) : spool'[i] = spool[i]
        /\ spool'[Len(spool) + 1] = item
    BY SpoolGrows DEF TypeInv, TypeOK, Enter
  <1>2. \A i \in 1 .. Len(spool) + 1 : i \in 1 .. Len(spool) \/ i = Len(spool) + 1
    BY <1>1
  <1> QED  BY <1>1, <1>2 DEF TerminalIn

\* Steps that touch neither the close nor the dispatcher's end.
LEMMA SameEnds ==
    ASSUME Ends, UNCHANGED <<phase, cpc, term>>, term # "sent" /\ ~TerminalIn => ~TerminalIn',
           dpc' = "exited" => dpc = "exited" \/ term = "sent",
           adm' = adm \/ (adm # "Terminal" /\ adm' # "Terminal")
    PROVE  Ends'
  BY DEF Ends

\* An event that is admitted, or not.
LEMMA EmitEnds ==
    ASSUME TypeInv, Ends, \/ \E d \in Directs : Emit(d)
                          \/ \E v \in Delivers : Reserve(v) \/ ResponseWritten(v) \/ TicketDropped(v)
    PROVE  Ends'
  <1>1. ASSUME UNCHANGED spool PROVE TerminalIn' <=> TerminalIn
    BY <1>1 DEF TerminalIn
  <1>2. ASSUME NEW item \in Item, item.kind # "terminal", NEW in, Admit(item, in)
        PROVE  /\ ~TerminalIn => ~TerminalIn'
               /\ phase' = phase /\ (adm' = adm \/ (adm # "Terminal" /\ adm' # "Terminal"))
    <2>1. ~TerminalIn => ~TerminalIn'
      BY <1>1, <1>2, EnterTerminal DEF Admit
    <2> QED  BY <1>2, <2>1 DEF Admit, Accepts
  <1>3. ASSUME NEW d \in Directs, Emit(d) PROVE Ends'
    <2>1. [kind |-> "direct", ids |-> <<d>>] \in Item /\ [kind |-> "direct", ids |-> <<d>>].kind # "terminal"
      BY SingleItem
    <2>2. /\ ~TerminalIn => ~TerminalIn'
          /\ phase' = phase /\ (adm' = adm \/ (adm # "Terminal" /\ adm' # "Terminal"))
      BY <1>1, <1>2, <1>3, <2>1 DEF Emit, gate
    <2> QED  BY <1>3, <2>2, SameEnds DEF Emit, clean, disp
  <1>4. ASSUME NEW v \in Delivers, Reserve(v) PROVE Ends'
    <2>1. [kind |-> "deferred", ids |-> <<v>>] \in Item /\ [kind |-> "deferred", ids |-> <<v>>].kind # "terminal"
      BY SingleItem
    <2>2. /\ ~TerminalIn => ~TerminalIn'
          /\ phase' = phase /\ (adm' = adm \/ (adm # "Terminal" /\ adm' # "Terminal"))
      BY <1>1, <1>2, <1>4, <2>1 DEF Reserve, gate
    <2> QED  BY <1>4, <2>2, SameEnds DEF Reserve, clean, disp
  <1>5. ASSUME NEW v \in Delivers, ResponseWritten(v) \/ TicketDropped(v) PROVE Ends'
    BY <1>1, <1>5, SameEnds DEF ResponseWritten, TicketDropped, gate, clean, disp
  <1> QED  BY <1>3, <1>4, <1>5

\* The dispatcher: only a Terminal item ends it.
LEMMA DispatcherEnds == ASSUME TypeInv, Ends, Dispatcher PROVE Ends'
  <1>1. ASSUME UNCHANGED spool PROVE TerminalIn' <=> TerminalIn
    BY <1>1 DEF TerminalIn
  <1>2. CASE DispatchTerminal
    <2>1. spool \in Seq(Item) /\ spool # <<>> /\ Head(spool).kind = "terminal"
      BY <1>2 DEF DispatchTerminal, TypeInv, TypeOK
    <2>2. 1 \in DOMAIN spool /\ spool[1].kind = "terminal"
      BY <2>1
    <2>3. TerminalIn
      BY <2>2 DEF TerminalIn
    <2>4. term = "sent"
      BY <2>3 DEF Ends
    <2> QED  BY <1>2, <2>4 DEF DispatchTerminal, gate, clean, Ends
  <1>3. CASE Receive
    <2>1. /\ DOMAIN spool = 1 .. Len(spool) /\ DOMAIN spool' = 1 .. Len(spool) - 1 /\ Len(spool) \in Nat
          /\ \A i \in DOMAIN spool' : spool'[i] = spool[i + 1]
      BY <1>3, SpoolShrinks DEF Receive, TypeInv, TypeOK
    <2>2. \A i \in 1 .. Len(spool) - 1 : i + 1 \in 1 .. Len(spool)
      BY <2>1
    <2>3. ~TerminalIn => ~TerminalIn'
      BY <2>1, <2>2 DEF TerminalIn
    <2>4. dpc' # "exited"
      BY <1>3 DEF Receive
    <2> QED  BY <1>3, <2>3, <2>4, SameEnds DEF Receive, gate, clean
  <1>4. CASE AwaitTicket
    BY <1>1, <1>4, SameEnds DEF AwaitTicket, gate, clean
  <1>5. CASE Forward
    BY <1>1, <1>5, SameEnds DEF Forward, Advance, gate, clean
  <1>6. CASE Discard
    BY <1>1, <1>6, SameEnds DEF Discard, Advance, gate, clean, Accepts
  <1> QED  BY <1>2, <1>3, <1>4, <1>5, <1>6 DEF Dispatcher

\* A close that begins, is sealed, finishes.
LEMMA CloseEnds ==
    ASSUME TypeInv, Ends, Take \/ DropReceiver \/ BeginClose \/ SealAdmission \/ Finish
    PROVE  Ends'
  <1>1. UNCHANGED <<spool, term, dpc>> /\ TerminalIn' = TerminalIn
    BY DEF Take, DropReceiver, BeginClose, SealAdmission, Finish, disp, TerminalIn
  <1>2. CASE Take \/ DropReceiver
    BY <1>1, <1>2 DEF Take, DropReceiver, gate, clean, Ends
  <1>3. CASE BeginClose
    BY <1>1, <1>3 DEF BeginClose, BeginEventDrain, clean, Ends
  <1>4. CASE SealAdmission
    BY <1>1, <1>4 DEF SealAdmission, clean, Ends
  <1>5. CASE Finish
    BY <1>1, <1>5 DEF Finish, Ends
  <1> QED  BY <1>2, <1>3, <1>4, <1>5

\* The teardown: batches, then the Terminal item.
LEMMA CleanupEnds == ASSUME TypeInv, Ends, Cleanup \/ ReapFallback \/ SendTerminal PROVE Ends'
  <1>1. ASSUME UNCHANGED spool PROVE TerminalIn' <=> TerminalIn
    BY <1>1 DEF TerminalIn
  <1>2. CASE CleanupFail \/ CleanupTake
    BY <1>1, <1>2 DEF CleanupFail, CleanupTake, gate, disp, Ends
  <1>3. CASE CleanupSend
    <2>1. ASSUME NEW order \in SetToSeqs(chunk), Enter([kind |-> "batch", ids |-> order])
          PROVE  ~TerminalIn => ~TerminalIn'
      <3>1. [kind |-> "batch", ids |-> order] \in Item /\ [kind |-> "batch", ids |-> order].kind # "terminal"
        BY <1>3, BatchItem DEF CleanupSend
      <3> QED  BY <2>1, <3>1, EnterTerminal
    <2>2. ~TerminalIn => ~TerminalIn'
      BY <1>1, <1>3, <2>1 DEF CleanupSend
    <2> QED  BY <1>3, <2>2, SameEnds DEF CleanupSend, gate, disp
  <1>4. CASE CleanupClose \/ ReapFallback
    BY <1>1, <1>4 DEF CleanupClose, ReapFallback, CloseSpool, clean, disp, Ends
  <1>5. CASE SendTerminal
    <2>1. term = "retry" /\ term' = "sent" /\ UNCHANGED <<phase, adm, cpc>>
      BY <1>5 DEF SendTerminal, gate, clean
    <2> QED  BY <2>1 DEF Ends
  <1> QED  BY <1>2, <1>3, <1>4, <1>5 DEF Cleanup

\* Every step keeps it.
LEMMA StepEnds == TypeInv /\ Ends /\ [Next]_vars => Ends'
  <1> SUFFICES ASSUME TypeInv, Ends, [Next]_vars PROVE Ends'
    OBVIOUS
  <1>1. CASE UNCHANGED vars
    BY <1>1 DEF vars, gate, clean, disp, Ends, TerminalIn
  <1>2. CASE Next
    BY <1>2, EmitEnds, DispatcherEnds, CloseEnds, CleanupEnds DEF Next
  <1> QED  BY <1>1, <1>2
-----------------------------------------------------------------------------
\* Part 2, action by action.

\* What is given up was not given up before.
LEMMA CountOnce ==
    ASSUME TypeInv, DroppedOnce, NEW S \in SUBSET Events, S \cap lost = {}, Count(S)
    PROVE  DroppedOnce'
  <1>1. IsFiniteSet(Events)
    BY FS_Union, DeliveryAssumption DEF Events
  <1>2. IsFiniteSet(S) /\ IsFiniteSet(lost) /\ lost \cap S = {}
    BY <1>1, FS_Subset DEF TypeInv, TypeOK
  <1>3. Cardinality(lost \cup S) = Cardinality(lost) + Cardinality(S)
    <2>1. Cardinality(lost \cup S) = Cardinality(lost) + Cardinality(S) - Cardinality(lost \cap S)
      BY <1>2, FS_Union
    <2>2. Cardinality(lost \cap S) = 0 /\ Cardinality(lost) \in Nat /\ Cardinality(S) \in Nat
      BY <1>2, FS_EmptySet, FS_CardinalityType
    <2> QED  BY <2>1, <2>2
  <1> QED  BY <1>3 DEF Count, DroppedOnce

\* The events S leave their source for good, and nothing new is owed.
Leaves(S) ==
    /\ S \subseteq Events /\ S \cap (Range(accepted) \cup lost) = {} /\ todo' \subseteq todo \ S
    /\ owed' \cup chunk' \subseteq (owed \cup chunk) \ S /\ owed' \cap chunk' = {}
    /\ cpc' \in {"off", "fail"} => cpc \in {"off", "fail"} /\ owed' = {} /\ chunk' = {} /\ S \cap Owed = {}

\* They enter the spool.
LEMMA EnterOrder ==
    ASSUME TypeInv, OrderInv, NEW item \in Item, Enter(item), Leaves(Range(item.ids)),
           \A i, j \in DOMAIN item.ids : item.ids[i] = item.ids[j] => i = j,
           UNCHANGED <<seen, public, hand, at, lost, silent, dropped>>
    PROVE  OrderInv'
  <1>1. silent \subseteq Range(accepted)
    BY DEF OrderInv, Ledger
  <1>2. InOrder'
    BY <1>1, EnterKeepsOrder DEF OrderInv, Leaves
  <1>3. Range(accepted') = Range(accepted) \cup Range(item.ids)
    <2>1. accepted \in Seq(Events) /\ item.ids \in Seq(Events) /\ accepted' = accepted \o item.ids
      BY DEF TypeInv, TypeOK, Item, Enter
    <2> QED  BY <2>1, MoreAccepted
  <1>4. Range(accepted)' = Range(accepted')
    BY DEF Range
  <1>5. Ledger'
    BY <1>3, <1>4 DEF OrderInv, Ledger, Leaves
  <1> QED  BY <1>2, <1>5 DEF OrderInv, DroppedOnce

\* They are given up before they entered it.
LEMMA LoseOrder ==
    ASSUME TypeInv, OrderInv, NEW S, Leaves(S), Count(S),
           UNCHANGED <<seen, public, hand, at, spool, accepted, silent>>
    PROVE  OrderInv'
  <1>1. InOrder'
    BY LoseKeepsOrder DEF OrderInv, Leaves, Count
  <1>2. DroppedOnce'
    BY CountOnce DEF OrderInv, Leaves
  <1>3. Range(accepted)' = Range(accepted)
    BY DEF Range
  <1>4. Ledger'
    BY <1>3 DEF OrderInv, Ledger, Leaves, Count
  <1> QED  BY <1>1, <1>2, <1>4 DEF OrderInv

\* Whatever happens to accepted events, and whatever only leaves a source.
LEMMA LedgerStays ==
    ASSUME Ledger, UNCHANGED <<accepted, owed, chunk, cpc>>, todo' \subseteq todo,
           lost' \subseteq lost \cup Range(accepted), silent' \subseteq Range(accepted)
    PROVE  Ledger'
  <1>1. Range(accepted)' = Range(accepted)
    BY DEF Range
  <1> QED  BY <1>1 DEF Ledger

\* An event is emitted, or a DELIVER arrives.
LEMMA EmitOrder == ASSUME TypeInv, OrderInv, NEW d \in Directs, Emit(d) PROVE OrderInv'
  <1> DEFINE item == [kind |-> "direct", ids |-> <<d>>]
  <1>1. item \in Item /\ Range(item.ids) = {d} /\ DOMAIN item.ids = {1}
    BY SingleItem, SingletonRange
  <1>2. /\ d \in todo /\ todo' = todo \ {d} /\ d \in Events /\ d \notin Owed
        /\ UNCHANGED <<clean, term, disp, outlet, silent>>
    BY DeliveryAssumption DEF Emit, Events
  <1>3. Leaves({d})
    BY <1>2 DEF Leaves, OrderInv, Ledger, clean, TypeInv, TypeOK
  <1>4. CASE Enter(item) /\ UNCHANGED <<lost, dropped>>
    BY <1>1, <1>2, <1>3, <1>4, EnterOrder DEF disp, outlet
  <1>5. CASE Count({d}) /\ UNCHANGED <<spool, accepted>>
    BY <1>2, <1>3, <1>5, LoseOrder DEF disp, outlet
  <1> QED  BY <1>4, <1>5 DEF Emit, Admit

\* A DELIVER enters, or is refused and the spool stays as it is.
LEMMA ReserveOrder == ASSUME TypeInv, OrderInv, NEW v \in Delivers, Reserve(v) PROVE OrderInv'
  <1> DEFINE item == [kind |-> "deferred", ids |-> <<v>>]
  <1>1. item \in Item /\ Range(item.ids) = {v} /\ DOMAIN item.ids = {1}
    BY SingleItem, SingletonRange
  <1>2. /\ v \in todo /\ todo' = todo \ {v} /\ v \in Events /\ v \notin Owed
        /\ UNCHANGED <<clean, term, disp, outlet, lost, silent, dropped>>
    BY DeliveryAssumption DEF Reserve, Events
  <1>3. Leaves({v})
    BY <1>2 DEF Leaves, OrderInv, Ledger, clean, TypeInv, TypeOK
  <1>4. CASE Enter(item)
    BY <1>1, <1>2, <1>3, <1>4, EnterOrder DEF disp, outlet
  <1>5. CASE UNCHANGED <<spool, accepted>>
    <2>1. InOrder'
      BY <1>2, <1>5, SameOrder DEF OrderInv, disp, outlet, Stream
    <2>2. Ledger'
      BY <1>2, <1>5, LedgerStays DEF OrderInv, Ledger, clean
    <2> QED  BY <1>2, <2>1, <2>2 DEF OrderInv, DroppedOnce
  <1> QED  BY <1>4, <1>5 DEF Reserve, Admit

\* Steps that neither admit nor hand on anything.
LEMMA OutsideOrder ==
    ASSUME TypeInv, OrderInv, UNCHANGED <<Stream, hand, at, spool, accepted, lost, silent, dropped, todo, clean>>
    PROVE  OrderInv'
  <1>1. InOrder'
    BY SameOrder DEF OrderInv
  <1>2. Ledger'
    BY LedgerStays DEF OrderInv, Ledger, clean
  <1> QED  BY <1>1, <1>2 DEF OrderInv, DroppedOnce

\* The dispatcher moves the events on, or gives them up.
LEMMA DispatcherOrder == ASSUME TypeInv, OrderInv, Dispatcher PROVE OrderInv'
  <1>1. InOrder /\ Ledger /\ DroppedOnce /\ InSpool \cup InHand \subseteq Range(accepted) \ lost
    BY DEF OrderInv, InOrder, NothingVanishes
  <1>2. CASE DispatchTerminal
    <2>1. InOrder'
      BY <1>1, <1>2, TerminalKeepsOrder
    <2>2. UNION {Range(item.ids) : item \in Range(Tail(spool))} \subseteq InSpool
      <3>1. spool \in Seq(Item) /\ spool # <<>>
        BY <1>2 DEF DispatchTerminal, TypeInv, TypeOK
      <3>2. /\ DOMAIN Tail(spool) = 1 .. Len(spool) - 1 /\ DOMAIN spool = 1 .. Len(spool) /\ Len(spool) \in Nat
            /\ \A i \in DOMAIN Tail(spool) : Tail(spool)[i] = spool[i + 1]
        BY <3>1
      <3>3. \A i \in 1 .. Len(spool) - 1 : i + 1 \in 1 .. Len(spool)
        BY <3>2
      <3>4. ASSUME NEW item \in Range(Tail(spool)) PROVE \E i \in DOMAIN spool : item = spool[i]
        BY <3>2, <3>3 DEF Range
      <3>5. \A i \in DOMAIN spool : Range(spool[i].ids) \subseteq InSpool
        BY DEF InSpool
      <3>6. \A item \in Range(Tail(spool)) : Range(item.ids) \subseteq InSpool
        BY <3>4, <3>5
      <3> HIDE <3>4
      <3> QED  BY <3>6
    <2>3. silent' \subseteq Range(accepted) /\ UNCHANGED <<source, clean, accepted, lost, dropped>>
      BY <1>1, <1>2, <2>2 DEF DispatchTerminal, Ledger
    <2>4. Ledger'
      BY <1>1, <2>3, LedgerStays DEF source, clean
    <2> QED  BY <1>1, <2>1, <2>3, <2>4 DEF OrderInv, DroppedOnce
  <1>3. CASE Receive
    <2>1. /\ spool # <<>> /\ spool' = Tail(spool) /\ dpc = "recv"
          /\ UNCHANGED <<source, clean, outlet, accepted, silent>>
          /\ \/ UNCHANGED <<lost, dropped>> /\ hand' = Head(spool).ids /\ at' = 1
             \/ Count(Range(Head(spool).ids)) /\ UNCHANGED <<hand, at>>
      BY <1>3 DEF Receive
    <2>2. hand = <<>> /\ at = 1
      BY <2>1 DEF TypeInv, Shapes
    <2>3. InOrder'
      BY <1>1, <2>1, <2>2, ReceiveKeepsOrder DEF Count, outlet
    <2>4. Range(Head(spool).ids) \subseteq InSpool
      BY <2>1, SpoolShrinks DEF TypeInv, TypeOK
    <2>5. Ledger'
      BY <1>1, <2>1, <2>4, LedgerStays DEF source, clean, Count, Ledger
    <2>6. DroppedOnce'
      <3>1. Range(Head(spool).ids) \in SUBSET Events /\ Range(Head(spool).ids) \cap lost = {}
        BY <1>1, <2>4, PlacesHoldEvents
      <3>2. CASE UNCHANGED <<lost, dropped>>
        BY <1>1, <3>2 DEF DroppedOnce
      <3>3. CASE Count(Range(Head(spool).ids))
        BY <1>1, <3>1, <3>3, CountOnce
      <3> QED  BY <2>1, <3>2, <3>3
    <2> QED  BY <2>3, <2>5, <2>6 DEF OrderInv
  <1>4. ASSUME at \in 1 .. Len(hand), Advance, Count({hand[at]}),
               UNCHANGED <<source, clean, spool, outlet, accepted, silent>>
        PROVE  OrderInv'
    <2>1. InOrder'
      BY <1>1, <1>4, DiscardKeepsOrder DEF Count, outlet
    <2>2. hand[at] \in InHand /\ hand[at] \in Events
      BY <1>1, <1>4, AdvanceHand, PlacesHoldEvents
    <2>3. Ledger'
      BY <1>1, <1>4, <2>2, LedgerStays DEF source, clean, Count, Ledger
    <2>4. DroppedOnce'
      <3>1. {hand[at]} \in SUBSET Events /\ {hand[at]} \cap lost = {}
        BY <1>1, <2>2
      <3> QED  BY <1>1, <1>4, <3>1, CountOnce
    <2> QED  BY <2>1, <2>3, <2>4 DEF OrderInv
  <1>5. CASE AwaitTicket
    <2>1. CASE UNCHANGED <<hand, lost, dropped>>
      BY <1>5, <2>1, OutsideOrder DEF AwaitTicket, source, outlet, Stream
    <2>2. CASE dpc' = "recv" /\ hand' = <<>> /\ Count({hand[1]})
      <3>1. PICK v \in Delivers : hand = <<v>> /\ at = 1
        BY <1>5 DEF AwaitTicket, TypeInv, Shapes
      <3>2. Len(<<v>>) = 1
        OBVIOUS
      <3>3. at \in 1 .. Len(hand) /\ ~(at < Len(hand)) /\ at = 1
        BY <3>1, <3>2
      <3>4. Advance /\ Count({hand[at]})
        BY <1>5, <2>2, <3>3 DEF Advance, AwaitTicket
      <3>5. UNCHANGED <<source, clean, spool, outlet, accepted, silent>>
        BY <1>5 DEF AwaitTicket
      <3> QED  BY <1>4, <3>3, <3>4, <3>5
    <2> QED  BY <1>5, <2>1, <2>2 DEF AwaitTicket
  <1>6. CASE Forward
    <2>1. /\ at \in 1 .. Len(hand) /\ Advance /\ public' = Append(public, hand[at])
          /\ UNCHANGED <<source, clean, spool, seen, accepted, lost, silent, dropped>>
      BY <1>6 DEF Forward, TypeInv, Shapes
    <2>2. InOrder'
      BY <1>1, <2>1, ForwardKeepsOrder
    <2>3. Ledger'
      BY <1>1, <2>1, LedgerStays DEF source, clean, Ledger
    <2> QED  BY <1>1, <2>1, <2>2, <2>3 DEF OrderInv, DroppedOnce
  <1>7. CASE Discard
    <2>1. /\ at \in 1 .. Len(hand) /\ Advance /\ Count({hand[at]})
          /\ UNCHANGED <<source, clean, spool, outlet, accepted, silent>>
      BY <1>7 DEF Discard, TypeInv, Shapes
    <2> QED  BY <1>4, <2>1
  <1> QED  BY <1>2, <1>3, <1>5, <1>6, <1>7 DEF Dispatcher

\* The batches of the teardown: drained once, offered once each.
LEMMA CleanupOrder ==
    ASSUME TypeInv, OrderInv, Cleanup \/ ReapFallback \/ SendTerminal
    PROVE  OrderInv'
  <1>1. InOrder /\ Ledger /\ DroppedOnce
    BY DEF OrderInv
  <1>2. CASE CleanupFail \/ CleanupTake \/ CleanupClose \/ ReapFallback
    <2>1. UNCHANGED <<source, spool, disp, outlet, accepted, lost, silent, dropped>>
      BY <1>2 DEF CleanupFail, CleanupTake, CleanupClose, ReapFallback
    <2>2. InOrder'
      BY <1>1, <2>1, SameOrder DEF disp, outlet, Stream
    <2>3. Range(accepted)' = Range(accepted)
      BY <2>1 DEF Range
    <2>4. Ledger'
      <3>1. CASE CleanupFail
        BY <1>1, <2>1, <2>3, <3>1 DEF CleanupFail, Ledger, source
      <3>2. CASE CleanupTake
        <4>1. PICK S \in SUBSET owed : chunk' = S /\ owed' = owed \ S
          BY <3>2 DEF CleanupTake
        <4> QED  BY <1>1, <2>1, <2>3, <3>2, <4>1 DEF CleanupTake, Ledger, source
      <3>3. CASE CleanupClose
        BY <1>1, <2>1, <2>3, <3>3 DEF CleanupClose, Ledger, source
      <3>4. CASE ReapFallback
        BY <1>1, <2>1, <2>3, <3>4 DEF ReapFallback, Ledger, source, clean
      <3> QED  BY <1>2, <3>1, <3>2, <3>3, <3>4
    <2> QED  BY <1>1, <2>1, <2>2, <2>4 DEF OrderInv, DroppedOnce
  <1>3. CASE CleanupSend
    <2>1. /\ chunk # {} /\ chunk' = {} /\ UNCHANGED <<gate, source, cpc, term, disp, outlet, silent>>
          /\ chunk \subseteq Owed /\ owed \subseteq Owed /\ todo \cap Owed = {} /\ Owed \subseteq Events
      BY <1>3, DeliveryAssumption DEF CleanupSend, TypeInv, TypeOK, Events
    <2>2. ASSUME NEW order \in SetToSeqs(chunk), Enter([kind |-> "batch", ids |-> order]),
                 UNCHANGED <<owed, lost, dropped>>
          PROVE  OrderInv'
      <3> DEFINE item == [kind |-> "batch", ids |-> order]
      <3>1. item \in Item
        BY <2>1, BatchItem
      <3>2. Range(order) \subseteq chunk /\ \A i, j \in DOMAIN order : order[i] = order[j] => i = j
        BY DEF SetToSeqs, IsInjective, Range
      <3>3. Leaves(Range(item.ids))
        BY <1>1, <2>1, <2>2, <3>2 DEF Leaves, Ledger, source
      <3> QED  BY <2>1, <2>2, <3>1, <3>2, <3>3, EnterOrder DEF disp, outlet
    <2>3. CASE Count(chunk) /\ UNCHANGED <<owed, spool, accepted>>
      <3>1. Leaves(chunk)
        BY <1>1, <2>1, <2>3 DEF Leaves, Ledger, source
      <3> QED  BY <2>1, <2>3, <3>1, LoseOrder DEF disp, outlet
    <2>4. CASE Count(chunk \cup owed) /\ owed' = {} /\ UNCHANGED <<spool, accepted>>
      <3>1. Leaves(chunk \cup owed)
        BY <1>1, <2>1, <2>4 DEF Leaves, Ledger, source
      <3> QED  BY <2>1, <2>4, <3>1, LoseOrder DEF disp, outlet
    <2> QED  BY <1>3, <2>2, <2>3, <2>4 DEF CleanupSend
  <1>4. CASE SendTerminal
    <2> DEFINE item == [kind |-> "terminal", ids |-> <<>>]
    <2>1. item \in Item /\ item.ids = <<>>
      BY DEF Item, Kinds
    <2>2. DOMAIN item.ids = {} /\ Range(item.ids) = {}
      BY <2>1 DEF Range
    <2>3. /\ spool' = Append(spool, item)
          /\ UNCHANGED <<gate, source, clean, disp, outlet, accepted, lost, silent, dropped>>
      BY <1>4 DEF SendTerminal
    <2>4. accepted' = accepted \o item.ids
      BY <2>1, <2>3 DEF TypeInv, TypeOK
    <2>5. Leaves(Range(item.ids))
      BY <1>1, <2>2, <2>3 DEF Leaves, Ledger, source, clean
    <2> QED  BY <2>1, <2>2, <2>3, <2>4, <2>5, EnterOrder DEF Enter, disp, outlet
  <1> QED  BY <1>2, <1>3, <1>4 DEF Cleanup

\* Every step keeps the queue in order and the ledger true.
LEMMA StepOrder == TypeInv /\ Ends /\ OrderInv /\ [Next]_vars => OrderInv'
  <1> SUFFICES ASSUME TypeInv, Ends, OrderInv, [Next]_vars PROVE OrderInv'
    OBVIOUS
  <1>1. CASE UNCHANGED vars
    BY <1>1, OutsideOrder DEF vars, source, clean, disp, outlet, Stream
  <1>2. ASSUME NEW d \in Directs, Emit(d) PROVE OrderInv'
    BY <1>2, EmitOrder
  <1>3. ASSUME NEW v \in Delivers, Reserve(v) \/ ResponseWritten(v) \/ TicketDropped(v) PROVE OrderInv'
    <2>1. ASSUME ResponseWritten(v) \/ TicketDropped(v) PROVE OrderInv'
      BY <2>1, OutsideOrder DEF ResponseWritten, TicketDropped, clean, disp, outlet, Stream
    <2> QED  BY <1>3, <2>1, ReserveOrder
  <1>4. CASE Dispatcher
    BY <1>4, DispatcherOrder
  <1>5. CASE Take
    BY <1>5, TakeKeepsStream, OutsideOrder DEF Take, source, disp
  <1>6. CASE DropReceiver \/ BeginClose \/ SealAdmission
    BY <1>6, OutsideOrder DEF DropReceiver, BeginClose, SealAdmission, source, disp, outlet, Stream
  <1>7. CASE Finish
    <2>1. UNCHANGED <<source, owed, chunk, spool, disp, outlet, accepted, lost, silent, dropped>>
      BY <1>7 DEF Finish
    <2>2. InOrder'
      BY <2>1, SameOrder DEF OrderInv, disp, outlet, Stream
    <2>3. cpc' = cpc \/ (cpc = "off" /\ cpc' = "fail")
      BY <1>7 DEF Finish, Ends
    <2>4. Range(accepted)' = Range(accepted)
      BY <2>1 DEF Range
    <2>5. Ledger'
      BY <2>1, <2>3, <2>4 DEF OrderInv, Ledger, source
    <2> QED  BY <2>1, <2>2, <2>5 DEF OrderInv, DroppedOnce
  <1>8. CASE Cleanup \/ ReapFallback \/ SendTerminal
    BY <1>8, CleanupOrder
  <1> QED  BY <1>1, <1>2, <1>3, <1>4, <1>5, <1>6, <1>7, <1>8 DEF Next

\* In the beginning there is nothing to order.
LEMMA InitOrder == Init => OrderInv /\ Ends
  <1> SUFFICES ASSUME Init PROVE OrderInv /\ Ends
    OBVIOUS
  <1>1. /\ spool = <<>> /\ hand = <<>> /\ at = 1 /\ seen = <<>> /\ public = <<>> /\ accepted = <<>>
        /\ lost = {} /\ silent = {} /\ dropped = 0 /\ owed = {} /\ chunk = {}
    BY DEF Init
  <1>2. DOMAIN <<>> = {} /\ Len(<<>>) = 0 /\ <<>> \o <<>> = <<>> /\ 1 .. 0 = {}
    OBVIOUS
  <1>3. Stream = <<>> /\ InHand = {} /\ InSpool = {} /\ Range(<<>>) = {} /\ ~TerminalIn
    BY <1>1, <1>2 DEF Stream, InHand, InSpool, Range, TerminalIn
  <1>4. NothingOvertakes
    BY <1>1, <1>2, <1>3 DEF NothingOvertakes, Ascending, Ahead
  <1>5. NothingVanishes
    BY <1>1, <1>2, <1>3 DEF NothingVanishes
  <1>6. DroppedOnce
    BY <1>1, FS_EmptySet DEF DroppedOnce
  <1>7. Ledger
    BY <1>1, <1>3 DEF Ledger
  <1>8. Ends
    BY <1>3 DEF Init, Ends
  <1> QED  BY <1>4, <1>5, <1>6, <1>7, <1>8 DEF OrderInv, InOrder
-----------------------------------------------------------------------------
\* Part 4: the last event.  Until the dispatcher exits, ordinary events leave
\* the public channel a slot, and Disconnected was not sent.

LastInv ==
    /\ dpc # "exited" => Bye \notin Range(Stream) /\ Len(public) < PublicCap
    /\ DisconnectedLast

\* Steps that put nothing into the public channel.
LEMMA SameLast ==
    ASSUME LastInv, Stream' = Stream, Len(public') <= Len(public),
           Len(public) \in Nat, Len(public') \in Nat,
           dpc' = "exited" <=> dpc = "exited",
           dpc = "exited" /\ announce' /\ open' => announce /\ open
    PROVE  LastInv'
  <1>1. Range(Stream)' = Range(Stream) /\ PublicCap \in Nat
    BY DeliveryAssumption DEF Range
  <1>2. (dpc # "exited" => Bye \notin Range(Stream) /\ Len(public) < PublicCap)'
    BY <1>1 DEF LastInv
  <1>3. DisconnectedLast'
    BY DEF LastInv, DisconnectedLast
  <1> QED  BY <1>2, <1>3 DEF LastInv

\* Where there is no Disconnected yet.
LEMMA NoByes == ASSUME Bye \notin Range(Stream) PROVE {k \in DOMAIN Stream : Stream[k] = Bye} = {}
  BY DEF Range

\* The dispatcher forwards, or ends the stream.
LEMMA DispatcherLast == ASSUME TypeInv, LastInv, Dispatcher PROVE LastInv'
  <1>1. /\ Stream \in Seq(Events \cup {Bye}) /\ Bye \notin Events /\ InHand \subseteq Events
        /\ public \in Seq(Events \cup {Bye}) /\ Len(public) \in Nat /\ PublicCap \in Nat
    BY PlacesHoldEvents, DeliveryAssumption DEF TypeInv, TypeOK
  <1>2. CASE DispatchTerminal
    <2>1. /\ dpc = "recv" /\ dpc' = "exited" /\ UNCHANGED <<announce, open, seen>>
          /\ public' = IF announce /\ open /\ Len(public) < PublicCap THEN Append(public, Bye) ELSE public
      BY <1>2 DEF DispatchTerminal, gate
    <2>2. Bye \notin Range(Stream) /\ Len(public) < PublicCap
      BY <2>1 DEF LastInv
    <2>3. CASE announce /\ open
      <3>1. Stream' = Append(Stream, Bye)
        <4> DEFINE W == Events \cup {Bye}
        <4>1. seen \in Seq(W) /\ public \in Seq(W) /\ Bye \in W
          BY DEF TypeInv, TypeOK
        <4> HIDE DEF W
        <4>2. seen \o Append(public, Bye) = Append(seen \o public, Bye)
          BY <4>1
        <4> QED  BY <2>1, <2>2, <2>3, <4>2 DEF Stream
      <3>2. Bye \in Events \cup {Bye}
        OBVIOUS
      <3>3. /\ DOMAIN Stream' = 1 .. Len(Stream) + 1 /\ DOMAIN Stream = 1 .. Len(Stream) /\ Len(Stream) \in Nat
            /\ \A i \in DOMAIN Stream : Stream'[i] = Stream[i]
            /\ Stream'[Len(Stream) + 1] = Bye
        BY <1>1, <3>1, <3>2, AppendedPlaces
      <3>4. Len(Stream') = Len(Stream) + 1
        BY <1>1, <3>1
      <3>5. {k \in DOMAIN Stream' : Stream'[k] = Bye} = {Len(Stream')}
        <4>1. \A k \in DOMAIN Stream : Stream'[k] # Bye
          BY <2>2, <3>3 DEF Range
        <4>2. \A k \in DOMAIN Stream' : k \in DOMAIN Stream \/ k = Len(Stream) + 1
          BY <3>3
        <4>3. Len(Stream) + 1 \in DOMAIN Stream'
          BY <3>3
        <4> QED  BY <3>3, <3>4, <4>1, <4>2, <4>3
      <3> QED  BY <2>1, <3>5 DEF LastInv, DisconnectedLast
    <2>4. CASE ~(announce /\ open)
      <3>1. Stream' = Stream
        BY <2>1, <2>4 DEF Stream
      <3>2. {k \in DOMAIN Stream' : Stream'[k] = Bye} = {}
        BY <2>2, <3>1, NoByes
      <3> QED  BY <2>1, <2>4, <3>2 DEF LastInv, DisconnectedLast
    <2> QED  BY <2>3, <2>4
  <1>3. CASE Forward
    <2>1. /\ dpc = "send" /\ Len(public) + 2 <= PublicCap /\ public' = Append(public, hand[at])
          /\ at \in 1 .. Len(hand) /\ dpc' \in {"send", "recv"} /\ seen' = seen
      BY <1>3 DEF Forward, Advance, TypeInv, Shapes
    <2>2. hand[at] \in InHand
      BY <2>1 DEF InHand
    <2>3. hand[at] \in Events \cup {Bye} /\ hand[at] # Bye
      BY <1>1, <2>2
    <2>4. Stream' = Append(Stream, hand[at])
      BY <2>1, <2>3 DEF Stream, TypeInv, TypeOK
    <2>5. Range(Stream') = Range(Stream) \cup {hand[at]}
      BY <1>1, <2>3, <2>4, AppendedPlaces
    <2>6. Bye \notin Range(Stream') /\ Range(Stream)' = Range(Stream')
      BY <2>1, <2>3, <2>5 DEF LastInv, Range
    <2>7. Len(public') < PublicCap
      <3>1. Len(public') = Len(public) + 1
        BY <1>1, <2>1, <2>3
      <3> QED  BY <1>1, <2>1, <3>1
    <2>8. {k \in DOMAIN Stream' : Stream'[k] = Bye} = {}
      BY <2>6 DEF Range
    <2> QED  BY <2>1, <2>6, <2>7, <2>8 DEF LastInv, DisconnectedLast
  <1>4. CASE Receive \/ AwaitTicket \/ Discard
    <2>1. /\ UNCHANGED <<public, open, seen, announce>> /\ dpc # "exited" /\ dpc' # "exited"
      BY <1>4 DEF Receive, AwaitTicket, Discard, Advance, outlet, gate
    <2> QED  BY <1>1, <2>1, SameLast DEF Stream
  <1> QED  BY <1>2, <1>3, <1>4 DEF Dispatcher

\* Every step keeps it.
LEMMA StepLast == TypeInv /\ Ends /\ LastInv /\ [Next]_vars => LastInv'
  <1> SUFFICES ASSUME TypeInv, Ends, LastInv, [Next]_vars PROVE LastInv'
    OBVIOUS
  <1>1. public \in Seq(Events \cup {Bye}) /\ Len(public) \in Nat
    BY DEF TypeInv, TypeOK
  <1>2. ASSUME UNCHANGED <<public, seen, dpc, announce, open>> PROVE LastInv'
    BY <1>1, <1>2, SameLast DEF Stream
  <1>3. CASE UNCHANGED vars
    BY <1>2, <1>3 DEF vars, gate, disp, outlet
  <1>4. ASSUME NEW d \in Directs, Emit(d) PROVE LastInv'
    BY <1>2, <1>4 DEF Emit, Admit, gate, disp, outlet
  <1>5. ASSUME NEW v \in Delivers, Reserve(v) \/ ResponseWritten(v) \/ TicketDropped(v) PROVE LastInv'
    BY <1>2, <1>5 DEF Reserve, ResponseWritten, TicketDropped, Admit, gate, disp, outlet
  <1>6. CASE Take
    <2>1. Len(public') <= Len(public) /\ Len(public') \in Nat
      BY <1>1, <1>6 DEF Take
    <2>2. UNCHANGED <<dpc, announce, open>>
      BY <1>6 DEF Take, gate, disp
    <2> QED  BY <1>1, <1>6, <2>1, <2>2, TakeKeepsStream, SameLast
  <1>7. CASE DropReceiver
    <2>1. open' = FALSE /\ UNCHANGED <<public, seen, dpc, announce>>
      BY <1>7 DEF DropReceiver, gate, disp
    <2> QED  BY <1>1, <2>1, SameLast DEF Stream
  <1>8. CASE BeginClose \/ SealAdmission
    BY <1>2, <1>8 DEF BeginClose, SealAdmission, disp, outlet
  <1>9. CASE Finish
    <2>1. UNCHANGED <<public, seen, dpc, open>> /\ (announce' = announce \/ phase # "Closed")
      BY <1>9 DEF Finish, disp, outlet
    <2>2. phase # "Closed" => dpc # "exited"
      BY DEF Ends
    <2> QED  BY <1>1, <2>1, <2>2, SameLast DEF Stream
  <1>10. CASE Dispatcher
    BY <1>10, DispatcherLast
  <1>11. CASE Cleanup \/ ReapFallback \/ SendTerminal
    BY <1>2, <1>11 DEF Cleanup, CleanupFail, CleanupTake, CleanupSend, CleanupClose, ReapFallback,
                       CloseSpool, SendTerminal, gate, disp, outlet
  <1> QED  BY <1>3, <1>4, <1>5, <1>6, <1>7, <1>8, <1>9, <1>10, <1>11 DEF Next

-----------------------------------------------------------------------------
\* Part 5: DELIVERs.  A ticket is published when the response is written, and
\* only then does the dispatcher forward; sealed admission takes no new ticket.

AckInv ==
    /\ \A v \in Delivers : ticket[v] = "sent" => v \in written
    /\ dpc = "send" => \A k \in DOMAIN hand : hand[k] \in Delivers => hand[k] \in written
    /\ idleSeal => adm \notin Accepts
    /\ DeliverSafe

\* Steps that change neither tickets nor what is shown or in hand.
LEMMA SameAcks ==
    ASSUME AckInv, UNCHANGED <<ticket, written, Stream, hand>>, dpc' = "send" => dpc = "send",
           idleSeal' = idleSeal, adm' \in Accepts => adm \in Accepts
    PROVE  AckInv'
  <1>1. Range(Stream)' = Range(Stream) /\ Held' = Held
    BY DEF Range, Held
  <1> QED  BY <1>1 DEF AckInv, DeliverSafe, DeliverAcknowledged, IdleSealHolds

\* Tickets come, are published, are dropped.
LEMMA TicketAcks ==
    ASSUME TypeInv, AckInv, NEW v \in Delivers, Reserve(v) \/ ResponseWritten(v) \/ TicketDropped(v)
    PROVE  AckInv'
  <1>1. ticket \in [Delivers -> {"none", "held", "sent", "void"}]
    BY DEF TypeInv, TypeOK
  <1>2. /\ UNCHANGED <<dpc, hand, Stream>> /\ Range(Stream)' = Range(Stream) /\ written \subseteq written'
    BY DEF Reserve, ResponseWritten, TicketDropped, Admit, disp, outlet, Stream, Range
  <1>3. idleSeal' = idleSeal /\ (adm' \in Accepts => adm \in Accepts)
    BY DEF Reserve, ResponseWritten, TicketDropped, Admit, gate
  <1>4. CASE Reserve(v)
    <2>1. CASE Admit([kind |-> "deferred", ids |-> <<v>>], TRUE) /\ ticket' = [ticket EXCEPT ![v] = "held"]
      <3>1. ~idleSeal' /\ (\A u \in Delivers : ticket'[u] = "sent" => ticket[u] = "sent")
        BY <1>1, <1>3, <2>1 DEF Admit, AckInv
      <3> QED  BY <1>2, <1>3, <3>1 DEF AckInv, DeliverSafe, DeliverAcknowledged, IdleSealHolds
    <2>2. CASE UNCHANGED ticket
      BY <1>2, <1>3, <1>4, <2>2, SameAcks DEF Reserve
    <2> QED  BY <1>4, <2>1, <2>2 DEF Reserve
  <1>5. CASE ResponseWritten(v) \/ TicketDropped(v)
    <2>1. /\ \A u \in Delivers : ticket'[u] = "held" => ticket[u] = "held"
          /\ \A u \in Delivers : ticket'[u] = "sent" => ticket[u] = "sent" \/ u \in written'
      BY <1>1, <1>5 DEF ResponseWritten, TicketDropped
    <2>2. Held' \subseteq Held
      BY <2>1 DEF Held
    <2>3. UNCHANGED <<adm, idleSeal>>
      BY <1>5 DEF ResponseWritten, TicketDropped, gate
    <2> QED  BY <1>2, <2>1, <2>2, <2>3 DEF AckInv, DeliverSafe, DeliverAcknowledged, IdleSealHolds
  <1> QED  BY <1>4, <1>5

\* The dispatcher waits for the ticket before it forwards a DELIVER.
LEMMA DispatcherAcks == ASSUME TypeInv, AckInv, Dispatcher PROVE AckInv'
  <1>1. /\ UNCHANGED <<ticket, written, idleSeal, seen>> /\ (adm' \in Accepts => adm \in Accepts) /\ Held' = Held
    BY DEF Dispatcher, DispatchTerminal, Receive, AwaitTicket, Forward, Discard, gate, source, outlet, Held
  <1>2. ASSUME Delivers \cap Range(Stream') \subseteq written,
               dpc' = "send" => \A k \in DOMAIN hand' : hand'[k] \in Delivers => hand'[k] \in written
        PROVE  AckInv'
    <2>1. Range(Stream)' = Range(Stream')
      BY DEF Range
    <2> QED  BY <1>1, <1>2, <2>1 DEF AckInv, DeliverSafe, DeliverAcknowledged, IdleSealHolds
  <1>3. Delivers \cap Range(Stream) \subseteq written
    BY DEF AckInv, DeliverSafe, DeliverAcknowledged
  <1>4. ASSUME public' = public PROVE Stream' = Stream
    BY <1>1, <1>4 DEF Stream
  <1>5. CASE DispatchTerminal
    <2>1. public' = public \/ public' = Append(public, Bye)
      BY <1>5 DEF DispatchTerminal
    <2>2. Stream \in Seq(Events \cup {Bye}) /\ Bye \in Events \cup {Bye} /\ Bye \notin Delivers
      BY PlacesHoldEvents, DeliveryAssumption
    <2>3. CASE public' = Append(public, Bye)
      <3>1. Stream' = Append(Stream, Bye)
        <4> DEFINE W == Events \cup {Bye}
        <4>1. seen \in Seq(W) /\ public \in Seq(W) /\ Bye \in W
          BY DEF TypeInv, TypeOK
        <4> HIDE DEF W
        <4>2. seen \o Append(public, Bye) = Append(seen \o public, Bye)
          BY <4>1
        <4> QED  BY <1>1, <2>3, <4>2 DEF Stream
      <3>2. Range(Stream') = Range(Stream) \cup {Bye}
        BY <2>2, <3>1, AppendedPlaces
      <3> QED  BY <1>2, <1>3, <1>5, <2>2, <3>2 DEF DispatchTerminal
    <2> QED  BY <1>2, <1>3, <1>4, <1>5, <2>1, <2>3 DEF DispatchTerminal
  <1>6. CASE Receive
    <2>1. spool \in Seq(Item) /\ spool # <<>> /\ Stream' = Stream /\ dpc = "recv"
      BY <1>4, <1>6 DEF Receive, outlet, TypeInv, TypeOK
    <2>2. Shaped(Head(spool)) /\ Head(spool) \in Item
      <3>1. Head(spool) = spool[1] /\ 1 \in DOMAIN spool /\ Head(spool) \in Item
        BY <2>1
      <3> QED  BY <3>1 DEF TypeInv, Shapes
    <2>3. ASSUME dpc' = "send" PROVE Range(hand') \cap Delivers = {}
      <3>1. /\ Head(spool).kind # "deferred" /\ Head(spool).kind # "terminal" /\ hand' = Head(spool).ids
            /\ Head(spool).kind \in Kinds
        BY <1>6, <2>1, <2>2, <2>3 DEF Receive, Item
      <3>2. CASE Head(spool).kind = "direct"
        <4>1. PICK d \in Directs : hand' = <<d>>
          BY <2>2, <3>1, <3>2 DEF Shaped
        <4>2. Range(hand') = {d}
          BY <4>1, SingletonRange
        <4> QED  BY <4>2, DeliveryAssumption
      <3>3. CASE Head(spool).kind = "batch"
        BY <2>2, <3>1, <3>3, DeliveryAssumption DEF Shaped
      <3> QED  BY <3>1, <3>2, <3>3 DEF Kinds
    <2>4. dpc' = "send" => \A k \in DOMAIN hand' : hand'[k] \notin Delivers
      BY <2>3 DEF Range
    <2> QED  BY <1>2, <1>3, <2>1, <2>4
  <1>7. CASE AwaitTicket
    <2>1. Stream' = Stream
      BY <1>4, <1>7 DEF AwaitTicket, outlet
    <2>2. CASE ticket[hand[1]] = "sent" /\ dpc' = "send" /\ hand' = hand
      <3>1. PICK v \in Delivers : hand = <<v>>
        BY <1>7 DEF AwaitTicket, TypeInv, Shapes
      <3>2. hand[1] = v /\ DOMAIN hand = {1}
        BY <3>1
      <3>3. v \in written
        BY <2>2, <3>2 DEF AckInv
      <3> QED  BY <1>2, <1>3, <2>1, <2>2, <3>2, <3>3
    <2>3. CASE dpc' = "recv"
      BY <1>2, <1>3, <2>1, <2>3
    <2> QED  BY <1>7, <2>2, <2>3 DEF AwaitTicket
  <1>8. ASSUME dpc = "send", Advance
        PROVE  dpc' = "send" => \A k \in DOMAIN hand' : hand'[k] \in Delivers => hand'[k] \in written
    BY <1>8 DEF Advance, AckInv
  <1>9. CASE Forward
    <2>1. /\ dpc = "send" /\ Advance /\ public' = Append(public, hand[at]) /\ at \in 1 .. Len(hand)
      BY <1>9 DEF Forward, TypeInv, Shapes
    <2>2. hand \in Seq(Events) /\ at \in DOMAIN hand
      BY <2>1 DEF TypeInv, TypeOK
    <2>3. hand[at] \in Events \cup {Bye} /\ (hand[at] \in Delivers => hand[at] \in written)
      BY <2>1, <2>2 DEF AckInv
    <2>4. Stream' = Append(Stream, hand[at])
      BY <1>1, <2>1, <2>3 DEF Stream, TypeInv, TypeOK
    <2>5. Range(Stream') = Range(Stream) \cup {hand[at]}
      BY <2>3, <2>4, PlacesHoldEvents, AppendedPlaces
    <2> QED  BY <1>2, <1>3, <1>8, <2>1, <2>3, <2>5
  <1>10. CASE Discard
    <2>1. dpc = "send" /\ Advance /\ Stream' = Stream
      BY <1>4, <1>10 DEF Discard, outlet
    <2> QED  BY <1>2, <1>3, <1>8, <2>1
  <1> QED  BY <1>5, <1>6, <1>7, <1>9, <1>10 DEF Dispatcher

\* Every step keeps it.
LEMMA StepAcks == TypeInv /\ AckInv /\ [Next]_vars => AckInv'
  <1> SUFFICES ASSUME TypeInv, AckInv, [Next]_vars PROVE AckInv'
    OBVIOUS
  <1>1. CASE UNCHANGED vars
    BY <1>1, SameAcks DEF vars, gate, source, disp, outlet, Stream
  <1>2. ASSUME NEW d \in Directs, Emit(d) PROVE AckInv'
    BY <1>2, SameAcks DEF Emit, Admit, gate, disp, outlet, Stream
  <1>3. ASSUME NEW v \in Delivers, Reserve(v) \/ ResponseWritten(v) \/ TicketDropped(v) PROVE AckInv'
    BY <1>3, TicketAcks
  <1>4. CASE Dispatcher
    BY <1>4, DispatcherAcks
  <1>5. CASE Take
    BY <1>5, TakeKeepsStream, SameAcks DEF Take, gate, source, disp
  <1>6. CASE DropReceiver \/ BeginClose \/ Finish
    BY <1>6, SameAcks DEF DropReceiver, BeginClose, BeginEventDrain, Finish, Accepts, gate, source, disp, outlet, Stream
  <1>7. CASE SealAdmission
    <2>1. /\ UNCHANGED <<ticket, written, hand, dpc, Stream>> /\ adm' \notin Accepts /\ idleSeal' = (Held = {})
          /\ Range(Stream)' = Range(Stream) /\ Held' = Held
      BY <1>7 DEF SealAdmission, Accepts, source, disp, outlet, Stream, Range, Held
    <2> QED  BY <2>1 DEF AckInv, DeliverSafe, DeliverAcknowledged, IdleSealHolds
  <1>8. CASE Cleanup \/ ReapFallback \/ SendTerminal
    BY <1>8, SameAcks DEF Cleanup, CleanupFail, CleanupTake, CleanupSend, CleanupClose, ReapFallback,
                          CloseSpool, SendTerminal, Accepts, gate, source, disp, outlet, Stream
  <1> QED  BY <1>1, <1>2, <1>3, <1>4, <1>5, <1>6, <1>7, <1>8 DEF Next
-----------------------------------------------------------------------------
\* Part 6: the bound.  While admission accepts, the ordinary events fit the
\* capacity; the one that is let in beyond it ends that.

BoundInv ==
    /\ adm \in Accepts => Cardinality(Ordinary) <= Cap
    /\ BacklogBounded

\* Everything an event can weigh is finite, and ordinary events are part of it.
LEMMA DepthCounts ==
    ASSUME TypeInv
    PROVE  /\ IsFiniteSet(Ordinary) /\ Cardinality(Ordinary) \in Nat
           /\ Depth \in Nat /\ Cardinality(Ordinary) <= Depth
  <1> DEFINE W == InSpool \cup Range(hand) \cup chunk
  <1>1. InSpool \subseteq Events /\ Range(hand) \subseteq Events /\ chunk \subseteq Events
    BY PlacesHoldEvents DEF TypeInv, TypeOK, Range, Events
  <1>2. IsFiniteSet(Events)
    BY FS_Union, DeliveryAssumption DEF Events
  <1>3. IsFiniteSet(W) /\ Ordinary \subseteq W
    BY <1>1, <1>2, FS_Subset DEF Ordinary
  <1>4. IsFiniteSet(Ordinary) /\ Cardinality(Ordinary) <= Cardinality(W)
    BY <1>3, FS_Subset
  <1>5. Cardinality(W) \in Nat /\ Cardinality(Ordinary) \in Nat
    BY <1>3, <1>4, FS_CardinalityType
  <1>6. Depth = Cardinality(W) \/ Depth = Cardinality(W) + 1
    <2>1. CASE term = "retry" \/ TerminalIn
      BY <2>1, <1>5 DEF Depth
    <2>2. CASE ~(term = "retry" \/ TerminalIn)
      BY <2>2, <1>5 DEF Depth
    <2> QED  BY <2>1, <2>2
  <1> HIDE DEF W
  <1> QED  BY <1>4, <1>5, <1>6

\* No ordinary event comes in, and admission does not open again.
LEMMA SameBound ==
    ASSUME TypeInv, BoundInv, Ordinary' \subseteq Ordinary, adm' \in Accepts => adm \in Accepts
    PROVE  BoundInv'
  <1>1. IsFiniteSet(Ordinary) /\ Cardinality(Ordinary) \in Nat /\ Cap \in Nat
    BY DepthCounts, DeliveryAssumption
  <1>2. IsFiniteSet(Ordinary') /\ Cardinality(Ordinary') <= Cardinality(Ordinary)
    BY <1>1, FS_Subset
  <1>3. Cardinality(Ordinary') \in Nat
    BY <1>2, FS_CardinalityType
  <1>4. Cardinality(Ordinary)' = Cardinality(Ordinary')
    OBVIOUS
  <1>5. adm' \in Accepts => Cardinality(Ordinary') <= Cap
    BY <1>1, <1>2, <1>3 DEF BoundInv
  <1>6. Cardinality(Ordinary') <= Cap + 1
    BY <1>1, <1>2, <1>3 DEF BoundInv, BacklogBounded
  <1> QED  BY <1>5, <1>6 DEF BoundInv, BacklogBounded

\* One event is admitted: below the capacity, or as the last one.
LEMMA AdmitBound ==
    ASSUME TypeInv, BoundInv, NEW e \in Directs \cup Delivers, NEW item \in Item, item.ids = <<e>>,
           NEW in, Admit(item, in), hand' = hand
    PROVE  BoundInv'
  <1>1. adm \in Accepts /\ (adm' \in Accepts => adm' = adm /\ Depth < Cap)
    BY DEF Admit, Accepts
  <1>2. CASE UNCHANGED spool
    <2>1. Ordinary' = Ordinary
      BY <1>2 DEF Ordinary, InSpool, Range
    <2> QED  BY <1>1, <2>1, SameBound
  <1>3. CASE Enter(item)
    <2>1. InSpool' = InSpool \cup {e}
      <3>1. spool \in Seq(Item) /\ spool' = Append(spool, item)
        BY <1>3 DEF Enter, TypeInv, TypeOK
      <3>2. InSpool' = InSpool \cup Range(<<e>>)
        BY <3>1, SpoolGrows
      <3> QED  BY <3>2, SingletonRange
    <2>2. Ordinary' = Ordinary \cup {e}
      BY <2>1 DEF Ordinary, Range
    <2>3. /\ IsFiniteSet(Ordinary) /\ Cardinality(Ordinary) \in Nat /\ Depth \in Nat
          /\ Cardinality(Ordinary) <= Depth /\ Cap \in Nat
      BY DepthCounts, DeliveryAssumption
    <2>4. /\ Cardinality(Ordinary') \in Nat
          /\ Cardinality(Ordinary') <= Cardinality(Ordinary) + 1
      <3>1. IsFiniteSet(Ordinary') /\ Cardinality(Ordinary') = IF e \in Ordinary THEN Cardinality(Ordinary)
                                                               ELSE Cardinality(Ordinary) + 1
        BY <2>2, <2>3, FS_AddElement
      <3>2. CASE e \in Ordinary
        BY <2>3, <3>1, <3>2
      <3>3. CASE e \notin Ordinary
        BY <2>3, <3>1, <3>3
      <3> QED  BY <3>2, <3>3
    <2>5. Cardinality(Ordinary) <= Cap
      BY <1>1 DEF BoundInv
    <2>6. Cardinality(Ordinary') <= Cap + 1
      BY <2>3, <2>4, <2>5
    <2>7. adm' \in Accepts => Cardinality(Ordinary') <= Cap
      BY <1>1, <2>3, <2>4
    <2> QED  BY <2>6, <2>7 DEF BoundInv, BacklogBounded
  <1> QED  BY <1>2, <1>3 DEF Admit

\* The dispatcher only takes out.
LEMMA DispatcherBound == ASSUME TypeInv, BoundInv, Dispatcher PROVE BoundInv'
  <1>1. adm' \in Accepts => adm \in Accepts
    BY DEF Dispatcher, DispatchTerminal, Receive, AwaitTicket, Forward, Discard, gate
  <1>2. ASSUME InSpool' \subseteq InSpool, hand' = hand \/ hand' = <<>> PROVE BoundInv'
    <2>1. Range(<<>>) = {}
      BY DEF Range
    <2>2. Range(hand)' \subseteq Range(hand)
      BY <1>2, <2>1 DEF Range
    <2> QED  BY <1>1, <1>2, <2>2, SameBound DEF Ordinary
  <1>3. ASSUME spool' = spool PROVE InSpool' = InSpool
    BY <1>3 DEF InSpool, Range
  <1>4. CASE DispatchTerminal
    <2>1. DOMAIN spool' = {} /\ hand' = hand
      BY <1>4 DEF DispatchTerminal
    <2>2. InSpool' = {}
      BY <2>1 DEF InSpool
    <2> QED  BY <1>2, <2>1, <2>2
  <1>5. CASE Receive
    <2>1. spool # <<>> /\ spool' = Tail(spool) /\ (hand' = hand \/ hand' = Head(spool).ids)
      BY <1>5 DEF Receive
    <2>2. InSpool = InSpool' \cup Range(Head(spool).ids)
      BY <2>1, SpoolShrinks DEF TypeInv, TypeOK
    <2>3. CASE hand' = hand
      BY <1>2, <2>2, <2>3
    <2>4. CASE hand' = Head(spool).ids
      <3>1. Range(hand)' = Range(Head(spool).ids)
        BY <2>4 DEF Range
      <3> QED  BY <1>1, <2>2, <3>1, SameBound DEF Ordinary
    <2> QED  BY <2>1, <2>3, <2>4
  <1>6. CASE AwaitTicket \/ Forward \/ Discard
    <2>1. spool' = spool /\ (hand' = hand \/ hand' = <<>>)
      BY <1>6 DEF AwaitTicket, Forward, Discard, Advance
    <2> QED  BY <1>2, <1>3, <2>1
  <1> QED  BY <1>4, <1>5, <1>6 DEF Dispatcher

\* What the teardown puts into the spool are dropped submits and its end.
LEMMA CleanupBound == ASSUME TypeInv, BoundInv, Cleanup \/ ReapFallback \/ SendTerminal PROVE BoundInv'
  <1>1. (adm' \in Accepts => adm \in Accepts) /\ hand' = hand
    BY DEF Cleanup, CleanupFail, CleanupTake, CleanupSend, CleanupClose, ReapFallback, CloseSpool,
           SendTerminal, Accepts, gate, disp
  <1>2. ASSUME NEW item \in Item, Shaped(item), item.kind \in {"batch", "terminal"}, spool' = Append(spool, item)
        PROVE  Ordinary' \subseteq Ordinary
    <2>1. InSpool' = InSpool \cup Range(item.ids)
      BY <1>2, SpoolGrows DEF TypeInv, TypeOK
    <2>2. Range(item.ids) \subseteq Owed
      <3>1. Range(<<>>) = {}
        BY DEF Range
      <3> QED  BY <1>2, <3>1 DEF Shaped
    <2>3. Range(hand)' = Range(hand)
      BY <1>1 DEF Range
    <2> QED  BY <2>1, <2>2, <2>3, DeliveryAssumption DEF Ordinary
  <1>3. CASE spool' = spool
    <2>1. Ordinary' = Ordinary
      BY <1>1, <1>3 DEF Ordinary, InSpool, Range
    <2> QED  BY <1>1, <2>1, SameBound
  <1>4. CASE CleanupSend
    <2>1. ASSUME NEW order \in SetToSeqs(chunk), Enter([kind |-> "batch", ids |-> order])
          PROVE  BoundInv'
      <3>1. [kind |-> "batch", ids |-> order] \in Item /\ Shaped([kind |-> "batch", ids |-> order])
        BY <1>4, BatchItem DEF CleanupSend
      <3> QED  BY <1>1, <1>2, <2>1, <3>1, SameBound DEF Enter
    <2> QED  BY <1>3, <1>4, <2>1 DEF CleanupSend
  <1>5. CASE SendTerminal
    <2>1. [kind |-> "terminal", ids |-> <<>>] \in Item /\ Shaped([kind |-> "terminal", ids |-> <<>>])
      BY DEF Item, Kinds, Shaped
    <2>2. spool' = Append(spool, [kind |-> "terminal", ids |-> <<>>])
      BY <1>5 DEF SendTerminal
    <2> QED  BY <1>1, <1>2, <2>1, <2>2, SameBound
  <1>6. CASE CleanupFail \/ CleanupTake \/ CleanupClose \/ ReapFallback
    BY <1>3, <1>6 DEF CleanupFail, CleanupTake, CleanupClose, ReapFallback
  <1> QED  BY <1>4, <1>5, <1>6 DEF Cleanup

\* Every step keeps it.
LEMMA StepBound == TypeInv /\ BoundInv /\ [Next]_vars => BoundInv'
  <1> SUFFICES ASSUME TypeInv, BoundInv, [Next]_vars PROVE BoundInv'
    OBVIOUS
  <1>1. ASSUME UNCHANGED <<spool, hand>>, adm' \in Accepts => adm \in Accepts PROVE BoundInv'
    <2>1. Ordinary' = Ordinary
      BY <1>1 DEF Ordinary, InSpool, Range
    <2> QED  BY <1>1, <2>1, SameBound
  <1>2. CASE UNCHANGED vars
    BY <1>1, <1>2 DEF vars, gate, disp
  <1>3. ASSUME NEW d \in Directs, Emit(d) PROVE BoundInv'
    <2>1. [kind |-> "direct", ids |-> <<d>>] \in Item /\ hand' = hand
      BY <1>3, SingleItem DEF Emit, disp
    <2> QED  BY <1>1, <1>3, <2>1, AdmitBound DEF Emit, gate
  <1>4. ASSUME NEW v \in Delivers, Reserve(v) PROVE BoundInv'
    <2>1. [kind |-> "deferred", ids |-> <<v>>] \in Item /\ hand' = hand
      BY <1>4, SingleItem DEF Reserve, disp
    <2> QED  BY <1>1, <1>4, <2>1, AdmitBound DEF Reserve, gate
  <1>5. ASSUME NEW v \in Delivers, ResponseWritten(v) \/ TicketDropped(v) PROVE BoundInv'
    BY <1>1, <1>5 DEF ResponseWritten, TicketDropped, gate, disp
  <1>6. CASE Dispatcher
    BY <1>6, DispatcherBound
  <1>7. CASE Take \/ DropReceiver \/ BeginClose \/ SealAdmission \/ Finish
    BY <1>1, <1>7 DEF Take, DropReceiver, BeginClose, BeginEventDrain, SealAdmission, Finish, Accepts, gate, disp
  <1>8. CASE Cleanup \/ ReapFallback \/ SendTerminal
    BY <1>8, CleanupBound
  <1> QED  BY <1>2, <1>3, <1>4, <1>5, <1>6, <1>7, <1>8 DEF Next

-----------------------------------------------------------------------------
\* The inductive invariant, and what follows from it.

IInv == TypeInv /\ Ends /\ OrderInv /\ LastInv /\ AckInv /\ BoundInv

\* It holds before the first event.
LEMMA InitInv == Init => IInv
  <1> SUFFICES ASSUME Init PROVE IInv
    OBVIOUS
  <1>1. TypeInv /\ Ends /\ OrderInv
    BY InitTypes, InitOrder
  <1>2. /\ spool = <<>> /\ hand = <<>> /\ seen = <<>> /\ public = <<>> /\ dpc = "recv" /\ idleSeal = FALSE
        /\ ticket = [v \in Delivers |-> "none"]
    BY DEF Init
  <1>3. DOMAIN <<>> = {} /\ Len(<<>>) = 0 /\ <<>> \o <<>> = <<>>
    OBVIOUS
  <1>4. Stream = <<>> /\ Range(Stream) = {} /\ InSpool = {} /\ Range(hand) = {}
    BY <1>2, <1>3 DEF Stream, Range, InSpool
  <1>5. LastInv
    <2>1. Len(public) < PublicCap
      BY <1>2, <1>3, DeliveryAssumption
    <2>2. {k \in DOMAIN Stream : Stream[k] = Bye} = {}
      BY <1>4, NoByes
    <2> QED  BY <1>2, <1>4, <2>1, <2>2 DEF LastInv, DisconnectedLast
  <1>6. AckInv
    <2>1. \A v \in Delivers : ticket[v] # "sent"
      BY <1>2
    <2> QED  BY <1>2, <1>4, <2>1 DEF AckInv, DeliverSafe, DeliverAcknowledged, IdleSealHolds
  <1>7. BoundInv
    <2>1. Ordinary = {} /\ Cap \in Nat
      BY <1>4, DeliveryAssumption DEF Ordinary
    <2>2. Cardinality(Ordinary) = 0
      BY <2>1, FS_EmptySet
    <2> QED  BY <2>1, <2>2 DEF BoundInv, BacklogBounded
  <1> QED  BY <1>1, <1>5, <1>6, <1>7 DEF IInv

\* Every step keeps it.
LEMMA StepInv == IInv /\ [Next]_vars => IInv'
  BY StepTypes, StepEnds, StepOrder, StepLast, StepAcks, StepBound DEF IInv

\* It holds throughout, whatever the scheduling.
LEMMA AlwaysInv == Safety => []IInv
  BY InitInv, StepInv, PTL DEF Safety

\* Spool, dispatcher and public channel are one queue: no event overtakes
\* another, none is delivered twice, and only what was counted or left behind
\* the Terminal item disappears (emit_event, event_dispatcher_task).
THEOREM OneQueue == Safety => []InOrder
  <1>1. IInv => InOrder
    BY DEF IInv, OrderInv
  <1> QED  BY <1>1, AlwaysInv, PTL

\* The backlog of a consumer that does not read exceeds its capacity by one
\* event at most, and what is given up is counted once (emit_event, record_dropped).
THEOREM BacklogIsBounded == Safety => []OverloadBounded
  <1>1. IInv => OverloadBounded
    BY DEF IInv, TypeInv, OrderInv, BoundInv, OverloadBounded
  <1> QED  BY <1>1, AlwaysInv, PTL

\* Disconnected is the last event, and a consumer that kept its receiver gets it
\* (event_dispatcher_task reserves a slot for it).
THEOREM DisconnectedComesLast == Safety => []DisconnectedLast
  <1>1. IInv => DisconnectedLast
    BY DEF IInv, LastInv
  <1> QED  BY <1>1, AlwaysInv, PTL

\* A DELIVER is shown only after its DELIVER_RESP was written, and admission
\* sealed as idle has no ticket left (reserve_deferred_event, seal_event_admission_if_idle).
THEOREM DeliversAreSafe == Safety => []DeliverSafe
  <1>1. IInv => DeliverSafe
    BY DEF IInv, AckInv
  <1> QED  BY <1>1, AlwaysInv, PTL
=============================================================================
