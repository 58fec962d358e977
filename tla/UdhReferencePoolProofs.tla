----------------------- MODULE UdhReferencePoolProofs -----------------------
(***************************************************************************)
(* Proofs about UdhReferencePool, for every value of its constants.        *)
(***************************************************************************)
EXTENDS UdhReferencePool, TLAPS, WellFoundedInduction

\* A set of naturals that is not empty has a least member, so the choices of
\* the model (the next bucket to lock, the first free reference) exist.
LEMMA LeastOfNaturals ==
    ASSUME NEW S, S \subseteq Nat, S # {} PROVE \E b \in S : \A o \in S : b <= o
<1> DEFINE Less == {ss \in Nat \X Nat : ss[1] < ss[2]}
<1>1. IsWellFoundedOn(Less, Nat)
  BY NatLessThanWellFounded DEF OpToRel
<1> HIDE DEF Less
<1>2. PICK x \in S : \A y \in S : ~ (<<y, x>> \in Less)
  BY <1>1, WFMin
<1>3. \A y \in S : <<y, x>> \in Less <=> y < x
  BY DEF Less
<1>4. \A y \in S : ~ (y < x)
  BY <1>2, <1>3
<1>5. x \in Nat /\ \A y \in S : x <= y
  BY <1>4
<1> QED
  BY <1>5

\* Buckets are taken in ascending order: the next one is one of those left.
LEMMA LowestIsMember ==
    ASSUME NEW S, S \subseteq Buckets, S # {} PROVE Lowest(S) \in S
<1>1. S \subseteq Nat
  BY PoolAssumption DEF PoolAssumption
<1>2. \E b \in S : \A o \in S : b <= o
  BY <1>1, LeastOfNaturals
<1> QED
  BY <1>2 DEF Lowest

\* The search for a free reference, wrapping at the end, finds one of them.
LEMMA FirstIsMember ==
    ASSUME NEW S, S \subseteq References, S # {}, NEW preferred \in References
    PROVE  First(S, preferred) \in S
<1> DEFINE d(r)  == (r - preferred) % Size
           D     == {d(r) : r \in S}
<1>1. \A r \in S : d(r) \in Nat
  BY PoolAssumption DEF PoolAssumption, References
<1>2. D \subseteq Nat /\ D # {}
  BY <1>1
<1> HIDE DEF d
<1>3. \E b \in D : \A o \in D : b <= o
  BY <1>2, LeastOfNaturals
<1>4. \E r \in S : \A o \in S : d(r) <= d(o)
  BY <1>3
<1> QED
  BY <1>4 DEF First, d

-----------------------------------------------------------------------------
\* The clock a caller read lies in the past, it has buckets to lock, and a
\* release under way has a bucket left.
Walks(c) == /\ caller[c].since <= now
            /\ caller[c].pc \in {"locking", "held"} => Domain(c) # {}
            /\ In(c, "releasing") => caller[c].todo # {}

\* Every deadline in a heap is the end of the cooldown of a reference that no
\* lease holds; so a reference has one deadline at most.
Heap == \A b \in Buckets : \A e \in cooldowns[b] : e[1] = until[b][e[2]] /\ e[2] \notin active[b]

\* A reference that is neither held nor cooling has rested long enough.
Rested == \A b \in Buckets, r \in References :
              r \notin active[b] /\ r \notin cooling[b] => until[b][r] <= now

\* The reference of a lease had rested when it was taken; once it is released
\* after use, its cooldown ends when the deadline it will leave says.
Leases(c) ==
    \A b \in Occupied(c) :
        IF In(c, "releasing") /\ caller[c].exposed
        THEN until[b][caller[c].ref] = caller[c].since + caller[c].cooldown
        ELSE until[b][caller[c].ref] <= now

PoolInv == PoolExact /\ Heap /\ Rested /\ \A c \in Callers : Walks(c) /\ Leases(c)

\* What TypeOK says of one caller and of one bucket.
LEMMA CallerTypes ==
    ASSUME TypeOK, NEW c \in Callers
    PROVE  /\ caller[c] \in Caller
           /\ caller[c].pc \in {"idle", "locking", "held", "releasing"}
           /\ caller[c].todo \subseteq Buckets /\ Domain(c) \subseteq Buckets
           /\ caller[c].since \in 0 .. MaxTime /\ caller[c].ref \in References
           /\ caller[c].cooldown \in Nat /\ caller[c].exposed \in BOOLEAN
           /\ Occupied(c) \subseteq Buckets
<1>1. caller[c] \in Caller
  BY DEF TypeOK
<1>2. /\ caller[c].pc \in {"idle", "locking", "held", "releasing"}
      /\ caller[c].todo \subseteq Buckets /\ Domain(c) \subseteq Buckets
      /\ caller[c].since \in 0 .. MaxTime /\ caller[c].ref \in References
      /\ caller[c].cooldown \in Cooldowns \cup {0} /\ caller[c].exposed \in BOOLEAN
  BY <1>1 DEF Caller, Domain
<1>3. caller[c].cooldown \in Nat
  <2>1. Cooldowns \cup {0} \subseteq Nat
    BY PoolAssumption DEF PoolAssumption
  <2>2. caller[c].cooldown \in Cooldowns \cup {0}
    BY <1>2
  <2> QED
    BY <2>1, <2>2
<1>4. Occupied(c) \subseteq Buckets
  BY <1>2 DEF Occupied
<1> QED
  BY <1>1, <1>2, <1>3, <1>4

\* The record of an idle caller is typed.
LEMMA IdleTyped == Idle \in Caller
BY PoolAssumption DEF Idle, Caller, References, PoolAssumption

\* Every step keeps the types; a step changes the record of its own caller only.
LEMMA TypeStep ==
    ASSUME TypeOK, \A c \in Callers : Walks(c), [Next]_vars PROVE TypeOK'
<1> USE DEF TypeOK, tables
<1>1. ASSUME NEW c \in Callers, Start(c) PROVE TypeOK'
  <2>1. PICK D \in SUBSET Buckets, time \in Cooldowns :
          caller' = [caller EXCEPT ![c] = [Idle EXCEPT !.pc = "locking", !.todo = D, !.since = now,
                                                       !.domain = D, !.cooldown = time]]
    BY <1>1 DEF Start
  <2>2. [Idle EXCEPT !.pc = "locking", !.todo = D, !.since = now, !.domain = D, !.cooldown = time] \in Caller
    <3>1. 0 \in References /\ time \in Cooldowns \cup {0} /\ now \in 0 .. MaxTime
      BY PoolAssumption DEF References, PoolAssumption
    <3> QED
      BY <3>1 DEF Idle, Caller
  <2>3. caller' \in [Callers -> Caller]
    BY <2>1, <2>2
  <2> QED
    BY <1>1, <2>3 DEF Start
<1>2. ASSUME NEW c \in Callers, Lock(c) PROVE TypeOK'
  <2>1. [caller[c] EXCEPT !.todo = @ \ {NextOf(c)}] \in Caller
    BY DEF Caller
  <2>2. caller' \in [Callers -> Caller]
    BY <1>2, <2>1 DEF Lock
  <2>3. lock' \in [Buckets -> Callers \cup {Nobody}]
    BY <1>2 DEF Lock
  <2> QED
    BY <1>2, <2>2, <2>3 DEF Lock
<1>3. ASSUME NEW c \in Callers, NEW p \in References, Pick(c, p) PROVE TypeOK'
  <2>1. cooling' \in [Buckets -> SUBSET References]
    BY <1>3 DEF Pick, Purged
  <2>2. cooldowns' \in [Buckets -> SUBSET (Nat \X References)]
    BY <1>3 DEF Pick, Expired
  <2>3. lock' \in [Buckets -> Callers \cup {Nobody}]
    BY <1>3 DEF Pick
  <2>4. CASE Usable(c) = {}
    <3>1. caller' = [caller EXCEPT ![c] = Idle] /\ active' = active
      BY <1>3, <2>4 DEF Pick
    <3> QED
      BY <1>3, <2>1, <2>2, <2>3, <3>1, IdleTyped DEF Pick
  <2>5. CASE Usable(c) # {}
    <3> DEFINE r == First(Usable(c), p)
    <3>1. r \in References
      BY <2>5, FirstIsMember DEF Usable
    <3>2. /\ caller' = [caller EXCEPT ![c].pc = "held", ![c].ref = r]
          /\ active' = [b \in Buckets |-> IF b \in Domain(c) THEN active[b] \cup {r} ELSE active[b]]
      BY <1>3, <2>5 DEF Pick
    <3> HIDE DEF r
    <3>3. [caller[c] EXCEPT !.pc = "held", !.ref = r] \in Caller
      BY <3>1 DEF Caller
    <3>4. caller' \in [Callers -> Caller]
      BY <3>2, <3>3
    <3>5. active' \in [Buckets -> SUBSET References]
      BY <3>1, <3>2
    <3> QED
      BY <1>3, <2>1, <2>2, <2>3, <3>4, <3>5 DEF Pick
  <2> QED
    BY <2>4, <2>5
<1>4. ASSUME NEW c \in Callers, MarkExposed(c) PROVE TypeOK'
  <2>1. [caller[c] EXCEPT !.exposed = TRUE] \in Caller
    BY DEF Caller
  <2>2. caller' \in [Callers -> Caller]
    BY <1>4, <2>1 DEF MarkExposed
  <2> QED
    BY <1>4, <2>2 DEF MarkExposed
<1>5. ASSUME NEW c \in Callers, BeginRelease(c) PROVE TypeOK'
  <2>1. [caller[c] EXCEPT !.pc = "releasing", !.todo = caller[c].domain, !.since = now] \in Caller
    BY DEF Caller
  <2>2. caller' \in [Callers -> Caller]
    BY <1>5, <2>1 DEF BeginRelease
  <2>3. now + caller[c].cooldown \in Nat
    BY CallerTypes
  <2>4. until' \in [Buckets -> [References -> Nat]]
    BY <1>5, <2>3 DEF BeginRelease
  <2> QED
    BY <1>5, <2>2, <2>4 DEF BeginRelease
<1>6. ASSUME NEW c \in Callers, ReleaseBucket(c) PROVE TypeOK'
  <2> DEFINE b == NextOf(c)
  <2>1. b \in Buckets
    BY <1>6, CallerTypes, LowestIsMember DEF ReleaseBucket, Walks, NextOf
  <2>2. caller[c].since + caller[c].cooldown \in Nat /\ caller[c].ref \in References
    BY CallerTypes
  <2>3. [caller[c] EXCEPT !.todo = @ \ {b}] \in Caller
    BY DEF Caller
  <2>4. /\ caller' = [caller EXCEPT ![c] = IF caller[c].todo = {b} THEN Idle ELSE [caller[c] EXCEPT !.todo = @ \ {b}]]
        /\ active' = [active EXCEPT ![b] = @ \ {caller[c].ref}] /\ UNCHANGED <<now, lock, until>>
        /\ cooling' = cooling \/ cooling' = [cooling EXCEPT ![b] = @ \cup {caller[c].ref}]
        /\ \/ cooldowns' = cooldowns
           \/ cooldowns' = [cooldowns EXCEPT ![b] = @ \cup {<<caller[c].since + caller[c].cooldown, caller[c].ref>>}]
    BY <1>6 DEF ReleaseBucket
  <2> HIDE DEF b
  <2>5. caller' \in [Callers -> Caller]
    BY <2>3, <2>4, IdleTyped
  <2>6. active' \in [Buckets -> SUBSET References] /\ cooling' \in [Buckets -> SUBSET References]
    BY <2>1, <2>2, <2>4
  <2>7. cooldowns' \in [Buckets -> SUBSET (Nat \X References)]
    <3>1. {<<caller[c].since + caller[c].cooldown, caller[c].ref>>} \subseteq Nat \X References
      BY <2>2
    <3> QED
      BY <2>1, <2>4, <3>1
  <2> QED
    BY <2>4, <2>5, <2>6, <2>7
<1>7. ASSUME Tick PROVE TypeOK'
  BY <1>7, PoolAssumption DEF Tick, PoolAssumption
<1>8. CASE UNCHANGED vars
  BY <1>8 DEF vars
<1> QED
  BY <1>1, <1>2, <1>3, <1>4, <1>5, <1>6, <1>7, <1>8 DEF Next, Acquiring

\* Every step keeps Walks.
LEMMA WalksStep ==
    ASSUME TypeOK, \A c \in Callers : Walks(c), [Next]_vars, NEW d \in Callers PROVE Walks(d)'
<1>0. /\ now \in Nat /\ caller \in [Callers -> Caller] /\ MaxTime \in Nat
      /\ \A c \in Callers : Walks(c) /\ caller[c].since \in Nat
  BY CallerTypes, PoolAssumption DEF TypeOK, PoolAssumption
<1> USE DEF Walks, In, Domain
\* A step of c gives it a new record and leaves the other callers alone.
<1>1. ASSUME NEW c \in Callers, NEW new, caller' = [caller EXCEPT ![c] = new], UNCHANGED now,
             new.since \in {0, now, caller[c].since},
             new.pc \in {"locking", "held"} => new.domain # {},
             new.pc = "releasing" => new.todo # {}
      PROVE  Walks(d)'
  <2>1. CASE c = d
    BY <1>0, <1>1, <2>1
  <2>2. CASE c # d
    BY <1>0, <1>1, <2>2
  <2> QED
    BY <2>1, <2>2
<1>2. ASSUME NEW c \in Callers, Start(c) PROVE Walks(d)'
  <2>1. PICK D \in (SUBSET Buckets) \ {{}}, time \in Cooldowns :
          caller' = [caller EXCEPT ![c] = [Idle EXCEPT !.pc = "locking", !.todo = D, !.since = now,
                                                       !.domain = D, !.cooldown = time]]
    BY <1>2 DEF Start
  <2> DEFINE new == [Idle EXCEPT !.pc = "locking", !.todo = D, !.since = now, !.domain = D, !.cooldown = time]
  <2>2. new.since = now /\ new.pc = "locking" /\ new.domain = D
    BY DEF Idle
  <2> HIDE DEF new
  <2>3. caller' = [caller EXCEPT ![c] = new] /\ UNCHANGED now
    BY <1>2, <2>1 DEF Start, new
  <2>4. D # {}
    OBVIOUS
  <2> QED
    BY <1>1, <2>2, <2>3, <2>4
<1>3. ASSUME NEW c \in Callers, Lock(c) PROVE Walks(d)'
  <2> DEFINE new == [caller[c] EXCEPT !.todo = @ \ {NextOf(c)}]
  <2>1. caller' = [caller EXCEPT ![c] = new] /\ UNCHANGED now /\ caller[c].pc = "locking"
    BY <1>0, <1>3 DEF Lock
  <2>2. new.since = caller[c].since /\ new.pc = caller[c].pc /\ new.domain = caller[c].domain
    BY <1>0 DEF Caller
  <2> HIDE DEF new
  <2> QED
    BY <1>0, <1>1, <2>1, <2>2
<1>4. ASSUME NEW c \in Callers, NEW p \in References, Pick(c, p) PROVE Walks(d)'
  <2>1. CASE Usable(c) = {}
    <3>1. caller' = [caller EXCEPT ![c] = Idle] /\ UNCHANGED now
      BY <1>4, <2>1 DEF Pick
    <3>2. Idle.since = 0 /\ Idle.pc = "idle"
      BY DEF Idle
    <3> QED
      BY <1>1, <3>1, <3>2
  <2>2. CASE Usable(c) # {}
    <3> DEFINE new == [caller[c] EXCEPT !.pc = "held", !.ref = First(Usable(c), p)]
    <3>1. caller' = [caller EXCEPT ![c] = new] /\ UNCHANGED now /\ caller[c].pc = "locking"
      BY <1>0, <1>4, <2>2 DEF Pick
    <3>2. new.since = caller[c].since /\ new.pc = "held" /\ new.domain = caller[c].domain
      BY <1>0 DEF Caller
    <3> HIDE DEF new
    <3> QED
      BY <1>0, <1>1, <3>1, <3>2
  <2> QED
    BY <2>1, <2>2
<1>5. ASSUME NEW c \in Callers, MarkExposed(c) PROVE Walks(d)'
  <2> DEFINE new == [caller[c] EXCEPT !.exposed = TRUE]
  <2>1. caller' = [caller EXCEPT ![c] = new] /\ UNCHANGED now /\ caller[c].pc = "held"
    BY <1>0, <1>5 DEF MarkExposed
  <2>2. new.since = caller[c].since /\ new.pc = "held" /\ new.domain = caller[c].domain
    BY <1>0, <2>1 DEF Caller
  <2> HIDE DEF new
  <2> QED
    BY <1>0, <1>1, <2>1, <2>2
<1>6. ASSUME NEW c \in Callers, BeginRelease(c) PROVE Walks(d)'
  <2> DEFINE new == [caller[c] EXCEPT !.pc = "releasing", !.todo = caller[c].domain, !.since = now]
  <2>1. caller' = [caller EXCEPT ![c] = new] /\ UNCHANGED now /\ caller[c].pc = "held"
    BY <1>0, <1>6 DEF BeginRelease
  <2>2. new.since = now /\ new.pc = "releasing" /\ new.todo = caller[c].domain
    BY <1>0 DEF Caller
  <2> HIDE DEF new
  <2> QED
    BY <1>0, <1>1, <2>1, <2>2
<1>7. ASSUME NEW c \in Callers, ReleaseBucket(c) PROVE Walks(d)'
  <2> DEFINE b   == NextOf(c)
             new == [caller[c] EXCEPT !.todo = @ \ {b}]
  <2>1. /\ caller' = [caller EXCEPT ![c] = IF caller[c].todo = {b} THEN Idle ELSE new]
        /\ UNCHANGED now /\ caller[c].pc = "releasing"
    BY <1>7 DEF ReleaseBucket
  <2>2. new.since = caller[c].since /\ new.pc = "releasing" /\ new.todo = caller[c].todo \ {b}
    BY <1>0, <2>1 DEF Caller
  <2>3. Idle.since = 0 /\ Idle.pc = "idle"
    BY DEF Idle
  <2>4. caller[c].todo # {} /\ caller[c].todo # {b} => caller[c].todo \ {b} # {}
    OBVIOUS
  <2> HIDE DEF b, new
  <2>5. CASE caller[c].todo = {b}
    <3>1. caller' = [caller EXCEPT ![c] = Idle]
      BY <2>1, <2>5
    <3> QED
      BY <1>1, <2>1, <2>3, <3>1
  <2>6. CASE caller[c].todo # {b}
    <3>1. caller' = [caller EXCEPT ![c] = new]
      BY <2>1, <2>6
    <3>2. new.todo # {}
      BY <1>0, <2>1, <2>2, <2>4, <2>6
    <3> QED
      BY <1>1, <2>1, <2>2, <3>1, <3>2
  <2> QED
    BY <2>5, <2>6
<1>8. ASSUME Tick PROVE Walks(d)'
  BY <1>0, <1>8 DEF Tick
<1>9. CASE UNCHANGED vars
  BY <1>0, <1>9 DEF vars
<1> QED
  BY <1>2, <1>3, <1>4, <1>5, <1>6, <1>7, <1>8, <1>9 DEF Next, Acquiring

-----------------------------------------------------------------------------
\* What is left of PoolInv once types and clocks are settled.
Tables == /\ ReferenceExclusive /\ ActiveExact /\ CoolingEnds /\ Heap /\ Rested
          /\ \A c \in Callers : Leases(c)

\* A step that moves no reference keeps the tables true, also as time passes.
LEMMA QuietKeepsTables ==
    ASSUME TypeOK, Tables, UNCHANGED <<active, cooling, cooldowns, until>>, now' \in Nat, now <= now',
           \A c \in Callers :
              /\ Occupied(c)' = Occupied(c)
              /\ Occupied(c) # {} =>
                    /\ UNCHANGED <<caller[c].pc, caller[c].ref, caller[c].since, caller[c].cooldown>>
                    /\ In(c, "releasing") => UNCHANGED caller[c].exposed
    PROVE  Tables'
<1>0. /\ now \in Nat /\ until \in [Buckets -> [References -> Nat]] /\ Tables
      /\ \A c \in Callers : caller[c].ref \in References /\ Occupied(c) \subseteq Buckets
  BY CallerTypes, PoolAssumption DEF TypeOK, PoolAssumption
<1>1. ReferenceExclusive'
  BY <1>0 DEF Tables, ReferenceExclusive
<1>2. ActiveExact'
  <2>1. \A b \in Buckets : {caller[c].ref : c \in {d \in Callers : b \in Occupied(d)}}'
                         = {caller[c].ref : c \in {d \in Callers : b \in Occupied(d)}}
    OBVIOUS
  <2> QED
    BY <1>0, <2>1 DEF Tables, ActiveExact
<1>3. CoolingEnds' /\ Heap'
  BY <1>0 DEF Tables, CoolingEnds, Heap
<1>4. Rested'
  BY <1>0 DEF Tables, Rested
<1>5. ASSUME NEW c \in Callers PROVE Leases(c)'
  BY <1>0 DEF Tables, Leases, In
<1> QED
  BY <1>1, <1>2, <1>3, <1>4, <1>5 DEF Tables

\* A caller that starts, locks or marks its lease moves no reference, nor does
\* the clock.
LEMMA QuietSteps ==
    ASSUME TypeOK, Tables, TypeOK',
           \/ \E c \in Callers : Start(c) \/ Lock(c) \/ MarkExposed(c)
           \/ Tick \/ UNCHANGED vars
    PROVE  Tables'
<1>0. now \in Nat /\ now' \in Nat /\ caller \in [Callers -> Caller]
  BY PoolAssumption DEF TypeOK, PoolAssumption
<1> USE DEF Occupied, In, Domain
<1>1. ASSUME NEW c \in Callers, Start(c) \/ Lock(c) PROVE Tables'
  <2>1. /\ UNCHANGED <<active, cooling, cooldowns, until, now>>
        /\ \A o \in Callers : o # c => caller'[o] = caller[o]
        /\ caller[c].pc \in {"idle", "locking"} /\ caller'[c].pc = "locking"
    <3>1. CASE Start(c)
      <4>1. PICK D \in (SUBSET Buckets) \ {{}}, time \in Cooldowns :
              caller' = [caller EXCEPT ![c] = [Idle EXCEPT !.pc = "locking", !.todo = D, !.since = now,
                                                           !.domain = D, !.cooldown = time]]
        BY <3>1 DEF Start
      <4>2. [Idle EXCEPT !.pc = "locking", !.todo = D, !.since = now, !.domain = D, !.cooldown = time].pc = "locking"
        BY DEF Idle
      <4>3. caller'[c].pc = "locking" /\ \A o \in Callers : o # c => caller'[o] = caller[o]
        BY <4>1, <4>2, <1>0
      <4> QED
        BY <3>1, <4>3 DEF Start, tables
    <3>2. CASE Lock(c)
      <4>1. /\ caller[c].pc = "locking"
            /\ caller' = [caller EXCEPT ![c] = [caller[c] EXCEPT !.todo = @ \ {NextOf(c)}]]
        BY <3>2, <1>0 DEF Lock
      <4>2. [caller[c] EXCEPT !.todo = @ \ {NextOf(c)}].pc = "locking"
        BY <4>1, <1>0 DEF Caller
      <4>3. caller'[c].pc = "locking" /\ \A o \in Callers : o # c => caller'[o] = caller[o]
        BY <4>1, <4>2, <1>0
      <4> QED
        BY <3>2, <4>1, <4>3 DEF Lock, tables
    <3> QED
      BY <1>1, <3>1, <3>2
  <2>2. Occupied(c) = {} /\ Occupied(c)' = {}
    BY <2>1
  <2>3. \A o \in Callers : o # c => Occupied(o)' = Occupied(o)
    BY <2>1
  <2> HIDE DEF Occupied
  <2> QED
    BY <1>0, <2>1, <2>2, <2>3, QuietKeepsTables
<1>2. ASSUME NEW c \in Callers, MarkExposed(c) PROVE Tables'
  <2>1. /\ UNCHANGED <<active, cooling, cooldowns, until, now>>
        /\ caller' = [caller EXCEPT ![c] = [caller[c] EXCEPT !.exposed = TRUE]]
        /\ caller[c].pc = "held"
    BY <1>2, <1>0 DEF MarkExposed, tables
  <2>2. /\ UNCHANGED <<caller[c].pc, caller[c].ref, caller[c].since, caller[c].cooldown, caller[c].domain>>
        /\ \A o \in Callers : o # c => caller'[o] = caller[o]
    BY <2>1, <1>0 DEF Caller
  <2>3. \A o \in Callers : Occupied(o)' = Occupied(o)
    BY <2>1, <2>2
  <2>4. \A o \in Callers :
           /\ UNCHANGED <<caller[o].pc, caller[o].ref, caller[o].since, caller[o].cooldown>>
           /\ In(o, "releasing") => UNCHANGED caller[o].exposed
    BY <2>1, <2>2
  <2>5. now <= now'
    BY <1>0, <2>1
  <2> HIDE DEF Occupied, In
  <2> QED
    BY <1>0, <2>1, <2>3, <2>4, <2>5, QuietKeepsTables
<1>3. ASSUME Tick \/ UNCHANGED vars PROVE Tables'
  <2>1. UNCHANGED <<active, cooling, cooldowns, until, caller>> /\ now <= now'
    BY <1>3, <1>0 DEF Tick, vars, tables
  <2> QED
    BY <1>0, <2>1, QuietKeepsTables
<1> QED
  BY <1>1, <1>2, <1>3

-----------------------------------------------------------------------------
\* A purge takes a reference out of a bitmap only after its deadline.
LEMMA PurgeKeeps ==
    ASSUME TypeOK, Tables, NEW c \in Callers, Walks(c), NEW b \in Buckets
    PROVE  /\ Purged(c)[b] = {e[2] : e \in cooldowns[b] \ Expired(c, b)}
           /\ \A r \in References : r \notin active[b] /\ r \notin Purged(c)[b] => until[b][r] <= now
<1>0. /\ now \in Nat /\ until \in [Buckets -> [References -> Nat]] /\ caller[c].since \in Nat
      /\ cooldowns[b] \subseteq Nat \X References
      /\ caller[c].since <= now
      /\ cooling[b] = {e[2] : e \in cooldowns[b]}
      /\ \A e \in cooldowns[b] : e[1] = until[b][e[2]]
  BY CallerTypes, PoolAssumption DEF TypeOK, PoolAssumption, Walks, Tables, CoolingEnds, Heap
<1>1. Purged(c)[b] = cooling[b] \ {e[2] : e \in Expired(c, b)}
  BY DEF Purged
<1>2. \A e \in cooldowns[b] : e = <<e[1], e[2]>>
  BY <1>0
<1>3. \A e, f \in cooldowns[b] : e[2] = f[2] => e = f
  BY <1>0, <1>2
<1>4. Expired(c, b) \subseteq cooldowns[b]
  BY DEF Expired
<1>5. Purged(c)[b] = {e[2] : e \in cooldowns[b] \ Expired(c, b)}
  BY <1>0, <1>1, <1>3, <1>4
<1>6. ASSUME NEW r \in References, r \notin active[b], r \notin Purged(c)[b] PROVE until[b][r] <= now
  <2>1. CASE r \notin cooling[b]
    BY <1>6, <2>1 DEF Tables, Rested
  <2>2. CASE r \in cooling[b]
    <3>1. PICK e \in Expired(c, b) : e[2] = r
      BY <1>1, <1>6, <2>2
    <3>2. e[1] <= caller[c].since /\ e[1] = until[b][r]
      BY <3>1, <1>0, <1>4 DEF Expired
    <3>3. until[b][r] \in Nat
      BY <1>0
    <3> QED
      BY <3>2, <3>3, <1>0
  <2> QED
    BY <2>1, <2>2
<1> QED
  BY <1>5, <1>6

\* The reference try_acquire picks is free and rested in every bucket it locks.
LEMMA PickedIsFree ==
    ASSUME TypeOK, Tables, NEW c \in Callers, Walks(c), NEW p \in References, Usable(c) # {},
           NEW b \in Domain(c)
    PROVE  LET r == First(Usable(c), p) IN
           /\ r \in References /\ r \notin active[b] /\ r \notin Purged(c)[b] /\ until[b][r] <= now
<1> DEFINE r == First(Usable(c), p)
<1>1. r \in Usable(c)
  BY FirstIsMember DEF Usable
<1> HIDE DEF r
<1>2. r \in References /\ r \notin active[b] /\ r \notin Purged(c)[b] /\ b \in Buckets
  BY <1>1, CallerTypes DEF Usable
<1>3. until[b][r] <= now
  BY <1>2, PurgeKeeps
<1> QED
  BY <1>2, <1>3 DEF r

\* Picking purges the buckets it has locked and takes a reference in all of them.
LEMMA PickStep ==
    ASSUME TypeOK, Tables, NEW c \in Callers, Walks(c), NEW p \in References, Pick(c, p) PROVE Tables'
<1>0. /\ caller \in [Callers -> Caller] /\ active \in [Buckets -> SUBSET References]
      /\ \A d \in Callers : Occupied(d) \subseteq Buckets /\ caller[d].ref \in References
      /\ Domain(c) \subseteq Buckets
  BY CallerTypes DEF TypeOK
<1>1. /\ cooling' = Purged(c) /\ cooldowns' = [b \in Buckets |-> cooldowns[b] \ Expired(c, b)]
      /\ UNCHANGED <<now, until>> /\ In(c, "locking")
  BY DEF Pick
<1>2. Occupied(c) = {}
  BY <1>1 DEF Occupied, In
<1>3. CoolingEnds'
  BY <1>1, PurgeKeeps DEF CoolingEnds
<1>4. CASE Usable(c) = {}
  <2>1. caller' = [caller EXCEPT ![c] = Idle] /\ active' = active
    BY <1>4 DEF Pick
  <2>2. Occupied(c)' = {}
    BY <2>1, <1>0 DEF Occupied, In, Idle
  <2>3. \A d \in Callers : d # c => Occupied(d)' = Occupied(d) /\ caller'[d] = caller[d]
    BY <2>1, <1>0 DEF Occupied, In, Domain
  <2>4. ReferenceExclusive'
    BY <1>2, <2>2, <2>3 DEF Tables, ReferenceExclusive
  <2>5. ActiveExact'
    BY <1>2, <2>1, <2>2, <2>3 DEF Tables, ActiveExact
  <2>6. Heap' /\ Rested'
    BY <1>1, <2>1, PurgeKeeps DEF Tables, Heap, Rested
  <2>7. \A d \in Callers : Leases(d)'
    BY <1>1, <2>2, <2>3 DEF Tables, Leases, In
  <2> QED
    BY <1>3, <2>4, <2>5, <2>6, <2>7 DEF Tables
<1>5. CASE Usable(c) # {}
  <2> DEFINE r == First(Usable(c), p)
  <2>1. /\ caller' = [caller EXCEPT ![c] = [caller[c] EXCEPT !.pc = "held", !.ref = r]]
        /\ active' = [b \in Buckets |-> IF b \in Domain(c) THEN active[b] \cup {r} ELSE active[b]]
    BY <1>5, <1>0 DEF Pick
  <2>2. \A b \in Domain(c) : r \in References /\ r \notin active[b] /\ r \notin Purged(c)[b] /\ until[b][r] <= now
    BY <1>5, PickedIsFree
  <2> HIDE DEF r
  <2>3. caller'[c].pc = "held" /\ caller'[c].ref = r /\ caller'[c].domain = Domain(c)
    BY <2>1, <1>0 DEF Caller, Domain
  <2>4. Occupied(c)' = Domain(c)
    BY <2>3 DEF Occupied, In, Domain
  <2>5. \A d \in Callers : d # c => Occupied(d)' = Occupied(d) /\ caller'[d] = caller[d]
    BY <2>1, <1>0 DEF Occupied, In, Domain
  <2>6. \A d \in Callers : \A b \in Occupied(d) : caller[d].ref \in active[b]
    BY <1>0 DEF Tables, ActiveExact
  <2>7. ReferenceExclusive'
    <3> SUFFICES ASSUME NEW d \in Callers, NEW e \in Callers, d # e,
                        Occupied(d)' \cap Occupied(e)' # {}
                 PROVE  caller'[d].ref # caller'[e].ref
      BY DEF ReferenceExclusive
    <3>1. PICK b : b \in Occupied(d)' /\ b \in Occupied(e)'
      OBVIOUS
    <3>2. CASE d = c
      BY <2>2, <2>3, <2>4, <2>5, <2>6, <3>1, <3>2
    <3>3. CASE e = c
      BY <2>2, <2>3, <2>4, <2>5, <2>6, <3>1, <3>3
    <3>4. CASE d # c /\ e # c
      BY <2>5, <3>1, <3>4 DEF Tables, ReferenceExclusive
    <3> QED
      BY <3>2, <3>3, <3>4
  <2>8. ActiveExact'
    <3> SUFFICES ASSUME NEW b \in Buckets
                 PROVE  active'[b] = {caller'[d].ref : d \in {e \in Callers : b \in Occupied(e)'}}
      BY DEF ActiveExact
    <3>1. active[b] = {caller[d].ref : d \in {e \in Callers : b \in Occupied(e)}}
      BY DEF Tables, ActiveExact
    <3>2. CASE b \in Domain(c)
      BY <1>2, <2>1, <2>3, <2>4, <2>5, <3>1, <3>2
    <3>3. CASE b \notin Domain(c)
      BY <1>2, <2>1, <2>4, <2>5, <3>1, <3>3
    <3> QED
      BY <3>2, <3>3
  <2>9. Heap'
    <3> SUFFICES ASSUME NEW b \in Buckets, NEW e \in cooldowns'[b]
                 PROVE  e[1] = until[b][e[2]] /\ e[2] \notin active'[b]
      BY <1>1 DEF Heap
    <3>1. e \in cooldowns[b] \ Expired(c, b) /\ e[2] \in Purged(c)[b]
      BY <1>1, PurgeKeeps
    <3>2. e[1] = until[b][e[2]] /\ e[2] \notin active[b]
      BY <3>1 DEF Tables, Heap
    <3> QED
      BY <2>1, <2>2, <3>1, <3>2
  <2>10. Rested'
    BY <1>1, <2>1, PurgeKeeps DEF Rested
  <2>11. ASSUME NEW d \in Callers PROVE Leases(d)'
    <3>1. CASE d = c
      BY <1>1, <2>2, <2>3, <2>4, <3>1 DEF Leases, In
    <3>2. CASE d # c
      BY <1>1, <2>5, <3>2 DEF Tables, Leases, In
    <3> QED
      BY <3>1, <3>2
  <2> QED
    BY <1>3, <2>7, <2>8, <2>9, <2>10, <2>11 DEF Tables
<1> QED
  BY <1>4, <1>5

\* The reference of a lease is in the bitmaps of its buckets, has no deadline
\* there, and belongs to nobody else.
LEMMA LeaseOwns ==
    ASSUME TypeOK, Tables, NEW c \in Callers, NEW b \in Occupied(c)
    PROVE  /\ b \in Buckets /\ caller[c].ref \in active[b] /\ caller[c].ref \notin cooling[b]
           /\ \A e \in cooldowns[b] : e[2] # caller[c].ref
           /\ \A d \in Callers : d # c /\ b \in Occupied(d) => caller[d].ref # caller[c].ref
<1>1. b \in Buckets
  BY CallerTypes
<1>2. caller[c].ref \in active[b]
  BY <1>1 DEF Tables, ActiveExact
<1>3. \A e \in cooldowns[b] : e[2] # caller[c].ref
  BY <1>1, <1>2 DEF Tables, Heap
<1>4. caller[c].ref \notin cooling[b]
  BY <1>1, <1>3 DEF Tables, CoolingEnds
<1>5. \A d \in Callers : d # c /\ b \in Occupied(d) => caller[d].ref # caller[c].ref
  BY DEF Tables, ReferenceExclusive
<1> QED
  BY <1>1, <1>2, <1>3, <1>4, <1>5

\* The last Arc goes: the end of the cooldown is fixed before any bucket is reached.
LEMMA BeginReleaseStep ==
    ASSUME TypeOK, Tables, NEW c \in Callers, BeginRelease(c) PROVE Tables'
<1> DEFINE ref == caller[c].ref
<1>0. /\ caller \in [Callers -> Caller] /\ until \in [Buckets -> [References -> Nat]]
      /\ active \in [Buckets -> SUBSET References] /\ \A b \in Buckets : cooldowns[b] \subseteq Nat \X References
      /\ \A d \in Callers : Occupied(d) \subseteq Buckets /\ caller[d].ref \in References
  BY CallerTypes DEF TypeOK
<1>1. /\ caller' = [caller EXCEPT ![c] = [caller[c] EXCEPT !.pc = "releasing", !.todo = caller[c].domain, !.since = now]]
      /\ until' = [b \in Buckets |-> IF b \in caller[c].domain /\ caller[c].exposed
                                     THEN [until[b] EXCEPT ![ref] = now + caller[c].cooldown] ELSE until[b]]
      /\ UNCHANGED <<now, active, cooling, cooldowns>> /\ caller[c].pc = "held"
  BY <1>0 DEF BeginRelease, In, tables
<1>2. /\ caller'[c].pc = "releasing" /\ caller'[c].todo = caller[c].domain /\ caller'[c].since = now
      /\ caller'[c].ref = ref /\ caller'[c].cooldown = caller[c].cooldown /\ caller'[c].exposed = caller[c].exposed
      /\ \A d \in Callers : d # c => caller'[d] = caller[d]
  BY <1>0, <1>1 DEF Caller
<1>3. Occupied(c) = caller[c].domain
  BY <1>1 DEF Occupied, In, Domain
<1>4. \A d \in Callers : Occupied(d)' = Occupied(d) /\ caller'[d].ref = caller[d].ref
  BY <1>1, <1>2 DEF Occupied, In, Domain
\* Only the reference of the lease gets a new end of its cooldown.
<1>5. ASSUME NEW b \in Buckets, NEW r \in References, ~(b \in Occupied(c) /\ r = ref)
      PROVE  until'[b][r] = until[b][r]
  BY <1>0, <1>1, <1>3, <1>5
<1>6. ASSUME NEW b \in Occupied(c)
      PROVE  until'[b][ref] = IF caller[c].exposed THEN now + caller[c].cooldown ELSE until[b][ref]
  BY <1>0, <1>1, <1>3
<1> HIDE DEF ref
<1>7. ReferenceExclusive'
  BY <1>4 DEF Tables, ReferenceExclusive
<1>8. ActiveExact'
  BY <1>1, <1>4 DEF Tables, ActiveExact
<1>9. CoolingEnds'
  BY <1>1 DEF Tables, CoolingEnds
<1>10. Heap'
  <2> SUFFICES ASSUME NEW b \in Buckets, NEW e \in cooldowns[b]
               PROVE  e[1] = until'[b][e[2]] /\ e[2] \notin active[b]
    BY <1>1 DEF Heap
  <2>1. ~(b \in Occupied(c) /\ e[2] = ref) /\ e[2] \in References
    BY <1>0, LeaseOwns DEF ref
  <2> QED
    BY <1>5, <2>1 DEF Tables, Heap
<1>11. Rested'
  <2> SUFFICES ASSUME NEW b \in Buckets, NEW r \in References, r \notin active[b], r \notin cooling[b]
               PROVE  until'[b][r] <= now
    BY <1>1 DEF Rested
  <2>1. ~(b \in Occupied(c) /\ r = ref)
    BY LeaseOwns DEF ref
  <2> QED
    BY <1>5, <2>1 DEF Tables, Rested
<1>12. ASSUME NEW d \in Callers PROVE Leases(d)'
  <2>1. CASE d = c
    <3>1. ~caller[c].exposed => \A b \in Occupied(c) : until[b][ref] <= now
      BY <1>1 DEF Tables, Leases, In, ref
    <3>2. ASSUME NEW b \in Occupied(c)
          PROVE  IF caller[c].exposed THEN until'[b][ref] = now + caller[c].cooldown
                                      ELSE until'[b][ref] <= now
      BY <1>6, <3>1
    <3>3. Occupied(c)' = Occupied(c) /\ In(c, "releasing")' /\ UNCHANGED now
      BY <1>1, <1>2, <1>4 DEF In
    <3> QED
      BY <1>2, <2>1, <3>2, <3>3 DEF Leases
  <2>2. CASE d # c
    <3>1. \A b \in Occupied(d) : until'[b][caller[d].ref] = until[b][caller[d].ref]
      BY <1>0, <1>5, <2>2, LeaseOwns DEF ref
    <3> QED
      BY <1>1, <1>2, <1>4, <2>2, <3>1 DEF Tables, Leases, In
  <2> QED
    BY <2>1, <2>2
<1> QED
  BY <1>7, <1>8, <1>9, <1>10, <1>11, <1>12 DEF Tables

\* One bucket of a release: the reference leaves the bitmap for the heap, or is free.
LEMMA ReleaseBucketStep ==
    ASSUME TypeOK, Tables, NEW c \in Callers, Walks(c), ReleaseBucket(c) PROVE Tables'
<1> DEFINE ref == caller[c].ref
           b   == NextOf(c)
           end == caller[c].since + caller[c].cooldown
<1>0. /\ caller \in [Callers -> Caller] /\ until \in [Buckets -> [References -> Nat]]
      /\ active \in [Buckets -> SUBSET References] /\ cooling \in [Buckets -> SUBSET References]
      /\ cooldowns \in [Buckets -> SUBSET (Nat \X References)]
      /\ \A d \in Callers : Occupied(d) \subseteq Buckets /\ caller[d].ref \in References
  BY CallerTypes DEF TypeOK
<1>1. /\ caller' = [caller EXCEPT ![c] = IF caller[c].todo = {b} THEN Idle ELSE [caller[c] EXCEPT !.todo = @ \ {b}]]
      /\ active' = [active EXCEPT ![b] = @ \ {ref}]
      /\ cooling' = IF caller[c].exposed THEN [cooling EXCEPT ![b] = @ \cup {ref}] ELSE cooling
      /\ cooldowns' = IF caller[c].exposed THEN [cooldowns EXCEPT ![b] = @ \cup {<<end, ref>>}] ELSE cooldowns
      /\ UNCHANGED <<now, until>> /\ caller[c].pc = "releasing"
  BY DEF ReleaseBucket, In
<1>2. Occupied(c) = caller[c].todo
  BY <1>1 DEF Occupied, In
<1>3. b \in Occupied(c) /\ b \in Buckets
  BY <1>0, <1>1, <1>2, LowestIsMember DEF Walks, In, NextOf
<1>4. /\ ref \in References /\ ref \in active[b] /\ ref \notin cooling[b]
      /\ \A e \in cooldowns[b] : e[2] # ref
      /\ \A d \in Callers : d # c /\ b \in Occupied(d) => caller[d].ref # ref
  BY <1>0, <1>3, LeaseOwns
<1>5. until[b][ref] = end \/ (~caller[c].exposed /\ until[b][ref] <= now)
  BY <1>1, <1>3 DEF Tables, Leases, In
<1>6. \A d \in Callers : d # c => Occupied(d)' = Occupied(d) /\ caller'[d] = caller[d]
  BY <1>0, <1>1 DEF Occupied, In, Domain
<1> HIDE DEF ref, b, end
<1>7. /\ Occupied(c)' = Occupied(c) \ {b}
      /\ Occupied(c)' # {} => /\ UNCHANGED <<caller[c].pc, caller[c].ref, caller[c].since>>
                              /\ UNCHANGED <<caller[c].cooldown, caller[c].exposed>>
  <2>1. CASE caller[c].todo = {b}
    <3>1. caller'[c] = Idle /\ Idle.pc = "idle"
      BY <1>0, <1>1, <2>1 DEF Idle
    <3>2. Occupied(c)' = {}
      BY <3>1 DEF Occupied, In
    <3> QED
      BY <1>2, <2>1, <3>2
  <2>2. CASE caller[c].todo # {b}
    <3>1. caller' = [caller EXCEPT ![c] = [caller[c] EXCEPT !.todo = @ \ {b}]]
      BY <1>1, <2>2
    <3>2. /\ caller'[c].todo = caller[c].todo \ {b}
          /\ UNCHANGED <<caller[c].pc, caller[c].ref, caller[c].since>>
          /\ UNCHANGED <<caller[c].cooldown, caller[c].exposed>>
      BY <1>0, <3>1 DEF Caller
    <3>3. Occupied(c)' = caller'[c].todo
      BY <1>1, <3>2 DEF Occupied, In
    <3> QED
      BY <1>2, <3>2, <3>3
  <2> QED
    BY <2>1, <2>2
<1>8. \A d \in Callers : Occupied(d)' \subseteq Occupied(d) /\ (Occupied(d)' # {} => caller'[d].ref = caller[d].ref)
  BY <1>6, <1>7
<1>9. ReferenceExclusive'
  BY <1>8 DEF Tables, ReferenceExclusive
<1>10. ActiveExact'
  <2> SUFFICES ASSUME NEW o \in Buckets
               PROVE  active'[o] = {caller'[d].ref : d \in {e \in Callers : o \in Occupied(e)'}}
    BY DEF ActiveExact
  <2>1. active[o] = {caller[d].ref : d \in {e \in Callers : o \in Occupied(e)}}
    BY DEF Tables, ActiveExact
  <2>2. CASE o # b
    <3>1. \A d \in Callers : (o \in Occupied(d)' <=> o \in Occupied(d))
                             /\ (o \in Occupied(d) => caller'[d].ref = caller[d].ref)
      BY <1>6, <1>7, <2>2
    <3>2. active'[o] = active[o]
      BY <1>0, <1>1, <2>2
    <3> QED
      BY <2>1, <3>1, <3>2
  <2>3. CASE o = b
    <3>1. \A d \in Callers : o \in Occupied(d)' <=> d # c /\ o \in Occupied(d)
      BY <1>6, <1>7, <2>3
    <3>2. active'[o] = active[o] \ {ref}
      BY <1>0, <1>1, <2>3
    <3>3. \A d \in Callers : d # c /\ o \in Occupied(d) => caller'[d].ref = caller[d].ref /\ caller[d].ref # ref
      BY <1>4, <1>6, <2>3
    <3>4. ref = caller[c].ref
      BY DEF ref
    <3> QED
      BY <2>1, <3>1, <3>2, <3>3, <3>4
  <2> QED
    BY <2>2, <2>3
<1>11. CoolingEnds'
  <2> SUFFICES ASSUME NEW o \in Buckets PROVE cooling'[o] = {e[2] : e \in cooldowns'[o]}
    BY DEF CoolingEnds
  <2>1. cooling[o] = {e[2] : e \in cooldowns[o]}
    BY DEF Tables, CoolingEnds
  <2>2. CASE o = b /\ caller[c].exposed
    <3>1. cooling'[o] = cooling[o] \cup {ref} /\ cooldowns'[o] = cooldowns[o] \cup {<<end, ref>>}
      BY <1>0, <1>1, <2>2
    <3>2. <<end, ref>>[2] = ref
      OBVIOUS
    <3>3. {e[2] : e \in cooldowns'[o]} = {e[2] : e \in cooldowns[o]} \cup {ref}
      BY <3>1, <3>2
    <3> QED
      BY <2>1, <3>1, <3>3
  <2>3. CASE ~(o = b /\ caller[c].exposed)
    <3>1. cooling'[o] = cooling[o] /\ cooldowns'[o] = cooldowns[o]
      BY <1>0, <1>1, <2>3
    <3> QED
      BY <2>1, <3>1
  <2> QED
    BY <2>2, <2>3
<1>12. Heap'
  <2> SUFFICES ASSUME NEW o \in Buckets, NEW e \in cooldowns'[o]
               PROVE  e[1] = until[o][e[2]] /\ e[2] \notin active'[o]
    BY <1>1 DEF Heap
  <2>1. active'[o] \subseteq active[o] /\ (o = b => ref \notin active'[o])
    BY <1>0, <1>1
  <2>2. CASE e \in cooldowns[o]
    BY <2>1, <2>2 DEF Tables, Heap
  <2>3. CASE e \notin cooldowns[o]
    <3>1. o = b /\ e = <<end, ref>> /\ caller[c].exposed
      BY <1>0, <1>1, <2>3
    <3> QED
      BY <1>5, <2>1, <3>1
  <2> QED
    BY <2>2, <2>3
<1>13. Rested'
  <2> SUFFICES ASSUME NEW o \in Buckets, NEW r \in References, r \notin active'[o], r \notin cooling'[o]
               PROVE  until[o][r] <= now
    BY <1>1 DEF Rested
  <2>1. CASE r \in active[o]
    <3>1. o = b /\ r = ref
      BY <1>0, <1>1, <2>1
    <3>2. ~caller[c].exposed
      BY <1>0, <1>1, <3>1
    <3>3. until[b][ref] <= now
      BY <1>1, <1>3, <3>2 DEF Tables, Leases, In, ref
    <3> QED
      BY <3>1, <3>3
  <2>2. CASE r \notin active[o]
    <3>1. r \notin cooling[o]
      BY <1>0, <1>1
    <3> QED
      BY <2>2, <3>1 DEF Tables, Rested
  <2> QED
    BY <2>1, <2>2
<1>14. ASSUME NEW d \in Callers PROVE Leases(d)'
  <2>1. CASE d = c
    BY <1>1, <1>7, <2>1 DEF Tables, Leases, In
  <2>2. CASE d # c
    BY <1>1, <1>6, <2>2 DEF Tables, Leases, In
  <2> QED
    BY <2>1, <2>2
<1> QED
  BY <1>9, <1>10, <1>11, <1>12, <1>13, <1>14 DEF Tables

-----------------------------------------------------------------------------
\* An empty pool satisfies the invariant.
LEMMA PoolInit == Init => PoolInv
<1> SUFFICES ASSUME Init PROVE PoolInv
  OBVIOUS
<1>1. TypeOK
  BY IdleTyped, PoolAssumption DEF Init, TypeOK, PoolAssumption
<1>2. \A c \in Callers : In(c, "idle") /\ Occupied(c) = {} /\ caller[c].since = 0
  BY DEF Init, In, Occupied, Idle
<1>3. ReferenceExclusive /\ ActiveExact /\ CoolingEnds
  BY <1>2 DEF Init, ReferenceExclusive, ActiveExact, CoolingEnds
<1>4. Heap /\ Rested
  BY DEF Init, Heap, Rested
<1>5. \A c \in Callers : Walks(c) /\ Leases(c)
  BY <1>2 DEF Init, Walks, Leases, In
<1> QED
  BY <1>1, <1>3, <1>4, <1>5 DEF PoolInv, PoolExact

\* Every step keeps it: types and clocks first, then the tables, action by action.
LEMMA PoolStep == PoolInv /\ [Next]_vars => PoolInv'
<1> SUFFICES ASSUME PoolInv, [Next]_vars PROVE PoolInv'
  OBVIOUS
<1>1. TypeOK /\ Tables /\ \A c \in Callers : Walks(c)
  BY DEF PoolInv, PoolExact, Tables
<1>2. TypeOK' /\ \A c \in Callers : Walks(c)'
  BY <1>1, TypeStep, WalksStep
<1>3. Tables'
  BY <1>1, <1>2, QuietSteps, PickStep, BeginReleaseStep, ReleaseBucketStep DEF Next, Acquiring
<1> QED
  BY <1>2, <1>3 DEF PoolInv, PoolExact, Tables

\* So PoolInv is an invariant.
LEMMA PoolInvariant == Safety => []PoolInv
BY PoolInit, PoolStep, PTL DEF Safety

\* No two leases that share a bucket hold the same reference, and the bitmaps and
\* heaps hold exactly what is leased or cooling, for any number of callers,
\* buckets and references and any overlap (try_acquire, release).
THEOREM PoolIsExact == Safety => []PoolExact
BY PoolInvariant, PTL DEF PoolInv

\* A reference that was on the wire is taken again only after its cooldown,
\* although purge compares deadlines with a clock read before the locks.
THEOREM CooldownIsRespected == Safety => CooldownRespected
<1>1. ASSUME PoolInv, [Next]_vars, NEW c \in Callers, In(c, "locking"), In(c, "held")', NEW b \in Domain(c)
      PROVE  until[b][caller'[c].ref] <= now
  <2>0. TypeOK /\ Tables /\ Walks(c) /\ caller \in [Callers -> Caller] /\ caller[c].pc = "locking"
        /\ caller'[c].pc = "held"
    BY <1>1 DEF PoolInv, PoolExact, Tables, TypeOK, In
  <2>1. PICK p \in References : Pick(c, p)
    <3>1. \A d \in Callers : Start(d) \/ Lock(d) \/ MarkExposed(d) \/ BeginRelease(d) \/ ReleaseBucket(d)
             => d # c
      <4>1. ~Lock(c)
        BY <2>0 DEF Lock, Caller
      <4> QED
        BY <2>0, <4>1 DEF Start, MarkExposed, BeginRelease, ReleaseBucket, In
    <3>2. \A d \in Callers : d # c /\ (Start(d) \/ Lock(d) \/ MarkExposed(d) \/ BeginRelease(d) \/ ReleaseBucket(d))
             => caller'[c] = caller[c]
      BY <2>0 DEF Start, Lock, MarkExposed, BeginRelease, ReleaseBucket
    <3>3. \A d \in Callers, p \in References : d # c /\ Pick(d, p) => caller'[c] = caller[c]
      BY <2>0 DEF Pick
    <3>4. Tick \/ UNCHANGED vars => caller' = caller
      BY DEF Tick, vars
    <3> QED
      BY <1>1, <2>0, <3>1, <3>2, <3>3, <3>4 DEF Next, Acquiring
  <2>2. Usable(c) # {}
    BY <2>0, <2>1 DEF Pick, Idle
  <2> DEFINE r == First(Usable(c), p)
  <2>3. caller' = [caller EXCEPT ![c] = [caller[c] EXCEPT !.pc = "held", !.ref = r]]
    BY <2>0, <2>1, <2>2 DEF Pick
  <2>4. until[b][r] <= now
    BY <1>1, <2>0, <2>2, PickedIsFree
  <2> HIDE DEF r
  <2>5. caller'[c].ref = r
    BY <2>0, <2>3 DEF Caller
  <2> QED
    BY <2>4, <2>5
<1>2. PoolInv /\ [Next]_vars
        => [\A c \in Callers : In(c, "locking") /\ In(c, "held")' =>
               \A b \in Domain(c) : until[b][caller'[c].ref] <= now]_vars
  BY <1>1
<1> QED
  BY <1>2, PoolInvariant, PTL DEF Safety, CooldownRespected
====
