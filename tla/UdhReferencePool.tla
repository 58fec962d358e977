-------------------------- MODULE UdhReferencePool --------------------------
(***************************************************************************)
(* UdhReferencePool and UdhReferenceLease (src/connection.rs): the process *)
(* wide pool of 8-bit references that tell concatenated messages apart.    *)
(* Source and destinations hash to buckets; a lease holds one reference in *)
(* all of its buckets at once.  try_acquire takes the bucket locks in      *)
(* ascending order and holds them together; dropping a lease takes them    *)
(* one by one, and lets a reference that was on the wire cool down.        *)
(***************************************************************************)
EXTENDS Integers, FiniteSets

CONSTANTS Callers,    \* submit() calls that hold or want a lease
          Buckets,    \* bucket ids (0 .. UDH_REFERENCE_BUCKET_COUNT - 1)
          Size,       \* number of references (256)
          Cooldowns,  \* udh_reference_cooldown of the connections
          MaxTime     \* bound on the clock

ASSUME PoolAssumption ==
    /\ Buckets \subseteq Nat /\ IsFiniteSet(Buckets) /\ IsFiniteSet(Callers)
    /\ Size \in Nat \ {0} /\ Cooldowns \subseteq Nat /\ MaxTime \in Nat

References == 0 .. Size - 1
Nobody     == "nobody"

VARIABLES
    now,                        \* Instant::now()
    active, cooling, cooldowns, \* per bucket: bitmaps, heap of <<deadline, reference>>
    lock,                       \* owner of the mutex of a bucket
    caller,                     \* what a caller is doing, and its lease
    until                       \* history: end of the cooldown of a reference

tables == <<active, cooling, cooldowns>>
vars   == <<now, tables, lock, caller, until>>

\* todo: buckets the step has not reached; since: the `now` the step read.
Caller == [pc : {"idle", "locking", "held", "releasing"}, todo : SUBSET Buckets,
           since : 0 .. MaxTime, domain : SUBSET Buckets, ref : References,
           cooldown : Cooldowns \cup {0}, exposed : BOOLEAN]
Idle   == [pc |-> "idle", todo |-> {}, since |-> 0, domain |-> {}, ref |-> 0,
           cooldown |-> 0, exposed |-> FALSE]

TypeOK ==
    /\ now \in 0 .. MaxTime
    /\ active \in [Buckets -> SUBSET References] /\ cooling \in [Buckets -> SUBSET References]
    /\ cooldowns \in [Buckets -> SUBSET (Nat \X References)]
    /\ lock \in [Buckets -> Callers \cup {Nobody}]
    /\ caller \in [Callers -> Caller] /\ until \in [Buckets -> [References -> Nat]]

Init ==
    /\ now = 0
    /\ active = [b \in Buckets |-> {}] /\ cooling = [b \in Buckets |-> {}]
    /\ cooldowns = [b \in Buckets |-> {}] /\ lock = [b \in Buckets |-> Nobody]
    /\ caller = [c \in Callers |-> Idle]
    /\ until = [b \in Buckets |-> [r \in References |-> 0]]

In(c, pc)  == caller[c].pc = pc
Domain(c)  == caller[c].domain
Lowest(S)  == CHOOSE b \in S : \A o \in S : b <= o
NextOf(c)  == Lowest(caller[c].todo)

-----------------------------------------------------------------------------
\* try_acquire

\* Sorted, deduplicated bucket ids; the clock is read before the locks.
Start(c) ==
    /\ In(c, "idle")
    /\ \E D \in (SUBSET Buckets) \ {{}}, time \in Cooldowns :
          caller' = [caller EXCEPT ![c] = [Idle EXCEPT !.pc = "locking", !.todo = D, !.since = now,
                                                       !.domain = D, !.cooldown = time]]
    /\ UNCHANGED <<now, tables, lock, until>>

\* Mutant of Lock: the buckets are locked in any order.
LockAny(c) ==
    /\ In(c, "locking")
    /\ \E b \in caller[c].todo :
          /\ lock[b] = Nobody /\ lock' = [lock EXCEPT ![b] = c]
          /\ caller' = [caller EXCEPT ![c].todo = @ \ {b}]
    /\ UNCHANGED <<now, tables, until>>

Lock(c) ==
    /\ In(c, "locking") /\ caller[c].todo # {} /\ lock[NextOf(c)] = Nobody
    /\ lock' = [lock EXCEPT ![NextOf(c)] = c]
    /\ caller' = [caller EXCEPT ![c].todo = @ \ {NextOf(c)}]
    /\ UNCHANGED <<now, tables, until>>

\* purge_udh_cooldowns: entries whose deadline has come leave heap and bitmap.
Expired(c, b) == {e \in cooldowns[b] : b \in Domain(c) /\ e[1] <= caller[c].since}
Purged(c) == [b \in Buckets |-> cooling[b] \ {e[2] : e \in Expired(c, b)}]

\* Mutant of Usable: only the first bucket is looked at.
UsableInFirst(c) == {r \in References : r \notin active[Lowest(Domain(c))] \cup Purged(c)[Lowest(Domain(c))]}

\* References free in every bucket, the first one from preferred on, wrapping.
Usable(c) == {r \in References : \A b \in Domain(c) : r \notin active[b] \cup Purged(c)[b]}

First(S, preferred) == CHOOSE r \in S : \A o \in S : (r - preferred) % Size <= (o - preferred) % Size

\* With all locks held; without a usable reference the caller gets an error.
Pick(c, preferred) ==
    /\ In(c, "locking") /\ caller[c].todo = {}
    /\ cooling' = Purged(c) /\ cooldowns' = [b \in Buckets |-> cooldowns[b] \ Expired(c, b)]
    /\ lock' = [b \in Buckets |-> IF lock[b] = c THEN Nobody ELSE lock[b]]
    /\ IF Usable(c) = {}
       THEN caller' = [caller EXCEPT ![c] = Idle] /\ UNCHANGED active
       ELSE LET r == First(Usable(c), preferred)
            IN /\ caller' = [caller EXCEPT ![c].pc = "held", ![c].ref = r]
               /\ active' = [b \in Buckets |-> IF b \in Domain(c) THEN active[b] \cup {r} ELSE active[b]]
    /\ UNCHANGED <<now, until>>

-----------------------------------------------------------------------------
\* The lease: mark_exposed when a segment is admitted, then the last Arc goes.

MarkExposed(c) ==
    /\ In(c, "held") /\ ~caller[c].exposed /\ caller' = [caller EXCEPT ![c].exposed = TRUE]
    /\ UNCHANGED <<now, tables, lock, until>>

\* Mutant of BeginRelease: the cooldown counts from the acquisition.
ReleaseKeepsClock(c) ==
    LET me == caller[c]
    IN /\ In(c, "held")
       /\ caller' = [caller EXCEPT ![c].pc = "releasing", ![c].todo = me.domain]
       /\ until' = [b \in Buckets |-> IF b \in me.domain /\ me.exposed
                                      THEN [until[b] EXCEPT ![me.ref] = now + me.cooldown] ELSE until[b]]
       /\ UNCHANGED <<now, tables, lock>>

\* release: the clock and exposed are read first.
BeginRelease(c) ==
    LET me == caller[c]
    IN /\ In(c, "held")
       /\ caller' = [caller EXCEPT ![c].pc = "releasing", ![c].todo = me.domain, ![c].since = now]
       /\ until' = [b \in Buckets |-> IF b \in me.domain /\ me.exposed
                                      THEN [until[b] EXCEPT ![me.ref] = now + me.cooldown] ELSE until[b]]
       /\ UNCHANGED <<now, tables, lock>>

\* One bucket: lock, update, unlock.
ReleaseBucket(c) ==
    LET me == caller[c]
        b  == NextOf(c)
    IN /\ In(c, "releasing") /\ lock[b] = Nobody
       /\ caller' = [caller EXCEPT ![c] = IF me.todo = {b} THEN Idle ELSE [me EXCEPT !.todo = @ \ {b}]]
       /\ active' = [active EXCEPT ![b] = @ \ {me.ref}]
       /\ IF me.exposed
          THEN /\ cooling' = [cooling EXCEPT ![b] = @ \cup {me.ref}]
               /\ cooldowns' = [cooldowns EXCEPT ![b] = @ \cup {<<me.since + me.cooldown, me.ref>>}]
          ELSE UNCHANGED <<cooling, cooldowns>>
       /\ UNCHANGED <<now, lock, until>>

Tick ==
    /\ now < MaxTime /\ now' = now + 1
    /\ UNCHANGED <<tables, lock, caller, until>>

Acquiring(c) == Lock(c) \/ \E p \in References : Pick(c, p)

Next ==
    \/ \E c \in Callers : Start(c) \/ Acquiring(c) \/ MarkExposed(c) \/ BeginRelease(c) \/ ReleaseBucket(c)
    \/ Tick

Safety == Init /\ [][Next]_vars

\* A thread inside the pool never waits for anything but a bucket lock, and
\* parking_lot hands a contended mutex over eventually.
Spec == Safety /\ \A c \in Callers : SF_vars(Acquiring(c)) /\ SF_vars(ReleaseBucket(c))

-----------------------------------------------------------------------------
\* Properties.

\* The buckets a caller still occupies with its reference.
Occupied(c) == CASE In(c, "held") -> Domain(c) [] In(c, "releasing") -> caller[c].todo [] OTHER -> {}

\* Two messages of one reassembly domain never carry the same reference at a
\* time, even while one of the leases is half released (try_acquire, release).
ReferenceExclusive ==
    \A c, d \in Callers : c # d /\ Occupied(c) \cap Occupied(d) # {} => caller[c].ref # caller[d].ref

\* The bitmaps hold exactly the references of the leases: none is leaked and
\* none is freed early.
ActiveExact == \A b \in Buckets : active[b] = {caller[c].ref : c \in {d \in Callers : b \in Occupied(d)}}

\* A reference that was on the wire is taken again in a bucket only after its
\* cooldown: purge, heap and bitmap agree, whatever clock a caller read.
CooldownRespected ==
    [][\A c \in Callers : In(c, "locking") /\ In(c, "held")' =>
           \A b \in Domain(c) : until[b][caller'[c].ref] <= now]_vars

\* Every cooling reference has its deadline in the heap, so it comes back.
CoolingEnds == \A b \in Buckets : cooling[b] = {e[2] : e \in cooldowns[b]}

\* Two messages never share a reference, and none is leaked or freed early,
\* whatever order callers lock, purge and release the buckets in.
PoolExact == TypeOK /\ ReferenceExclusive /\ ActiveExact /\ CoolingEnds

\* Callers that share buckets in any overlap never block each other for good.
CallersProceed == \A c \in Callers : In(c, "locking") \/ In(c, "releasing") ~> In(c, "idle") \/ In(c, "held")
=============================================================================
