-------------------------- MODULE SequenceRegistry --------------------------
(***************************************************************************)
(* SequenceRegistry and SequenceLease (src/connection.rs): who may use     *)
(* which sequence id of one connection.  reserve_next hands out automatic  *)
(* ids in ascending order and never again; a manual batch reserves ids the *)
(* caller chose, and an id that went on the wire is retired into a table   *)
(* of disjoint closed ranges, so that a late SUBMIT_RESP can never be      *)
(* taken for the answer to a different message.                            *)
(*                                                                         *)
(* An id is an unsigned integer of fixed width: Ids = 0 .. N-1, additions  *)
(* wrap in a manual batch and overflow to None in reserve_next.            *)
(***************************************************************************)
EXTENDS Integers, FiniteSets

CONSTANTS N,          \* number of sequence ids (2^32 in the code)
          AutoStart,  \* first automatic id (2 in the code: 1 is the CONNECT)
          MaxBatch,   \* u8::MAX: ids of one manual batch
          MaxRanges   \* MAX_RETIRED_SEQUENCE_RANGES

ASSUME RegistryAssumption ==
    /\ N \in Nat /\ AutoStart \in Nat /\ 0 < AutoStart /\ AutoStart < N
    /\ MaxBatch \in Nat \ {0} /\ MaxRanges \in Nat \ {0}

Ids     == 0 .. N - 1
NoNext  == N          \* next_automatic = None: the ids are used up
NoRange == -1         \* no range of the table starts here

VARIABLES
    next,      \* next_automatic
    used,      \* automatic_used_through; AutoStart - 1 stands for None
    reserved,  \* reserved
    retired,   \* the BTreeMap start -> end
    holders,   \* live SequenceLeases of an id
    manual,    \* ids whose lease is manual
    exposed,   \* history: ids a frame was queued with
    open       \* FALSE once a caller of the registry had to finish()

vars == <<next, used, reserved, retired, holders, manual, exposed, open>>

TypeOK ==
    /\ next \in 0 .. N /\ used \in 0 .. N - 1
    /\ reserved \in SUBSET Ids /\ retired \in [Ids -> Ids \cup {NoRange}]
    /\ holders \in [Ids -> Nat] /\ manual \in SUBSET Ids /\ exposed \in SUBSET Ids
    /\ open \in BOOLEAN

Init ==
    /\ next = AutoStart /\ used = AutoStart - 1
    /\ reserved = {} /\ retired = [s \in Ids |-> NoRange]
    /\ holders = [i \in Ids |-> 0] /\ manual = {} /\ exposed = {} /\ open = TRUE

-----------------------------------------------------------------------------
\* The range table.

Starts == {s \in Ids : retired[s] # NoRange}

\* The ids the table covers.
Covered == {i \in Ids : \E s \in Starts : s <= i /\ i <= retired[s]}

\* range(..=i).next_back() and range(i..).next(): at most one element each.
Previous(i) == {s \in Starts : s <= i /\ \A t \in Starts : t <= i => t <= s}
Following(i) == {s \in Starts : i <= s /\ \A t \in Starts : i <= t => s <= t}

\* retired_sequence_contains
Contains(i) == \E s \in Previous(i) : i <= retired[s]

InPrefix(i) == AutoStart <= i /\ i <= used

JoinsPrevious(i)  == \E s \in Previous(i) : retired[s] + 1 = i
JoinsFollowing(i) == \E s \in Following(i) : i + 1 = s
TableFull         == Cardinality(Starts) >= MaxRanges

\* Mutant of Inserted: i is not joined to the range that follows it.
InsertedApart(i) ==
    LET first == IF JoinsPrevious(i) THEN CHOOSE s \in Previous(i) : TRUE ELSE i
    IN [retired EXCEPT ![first] = i]

\* insert_retired_sequence, when it returns true: i joins its neighbours or
\* becomes a range of its own.
Inserted(i) ==
    LET first == IF JoinsPrevious(i) THEN CHOOSE s \in Previous(i) : TRUE ELSE i
        last  == IF JoinsFollowing(i) THEN retired[i + 1] ELSE i
    IN [s \in Ids |-> IF s = first THEN last
                      ELSE IF JoinsFollowing(i) /\ s = i + 1 THEN NoRange
                      ELSE retired[s]]

\* retire(i): false when i needs a range of its own and the table is full;
\* then i stays reserved.
Retire(i, ok) ==
    LET known == InPrefix(i) \/ Contains(i)
    IN /\ ok = (known \/ JoinsPrevious(i) \/ JoinsFollowing(i) \/ ~TableFull)
       /\ retired' = IF ok /\ ~known THEN Inserted(i) ELSE retired
       /\ reserved' = IF ok THEN reserved \ {i} ELSE reserved

-----------------------------------------------------------------------------
\* reserve_next walks from next over retired ranges and reserved ids.  Ranges
\* it meets become part of the automatic prefix; what such a range covers
\* below AutoStart stays in the table.

\* Mutant of Candidates: next_automatic is taken for the last id handed out.
CandidatesAfter == {i \in Ids : next < i /\ i \notin Covered /\ i \notin reserved}

Candidates == {i \in Ids : next <= i /\ i \notin Covered /\ i \notin reserved}

\* Mutant of WalkedTo: a range met on the way is dropped as a whole.
WalkedForgets(last) ==
    [s \in Ids |-> IF s \in Starts /\ next <= retired[s] /\ s <= last THEN NoRange ELSE retired[s]]

WalkedTo(last) ==
    [s \in Ids |-> IF s \in Starts /\ next <= retired[s] /\ s <= last
                   THEN IF s < AutoStart THEN AutoStart - 1 ELSE NoRange
                   ELSE retired[s]]

ReserveNext(i) ==
    /\ i \in Candidates /\ \A c \in Candidates : i <= c
    /\ next' = i + 1 /\ used' = i /\ retired' = WalkedTo(i)
    /\ reserved' = reserved \cup {i}
    /\ holders' = [holders EXCEPT ![i] = @ + 1] /\ manual' = manual \ {i}
    /\ UNCHANGED <<exposed, open>>

\* None: every caller finishes the connection.
ReserveNextFails ==
    /\ Candidates = {}
    /\ next' = NoNext
    /\ used' = IF next = NoNext THEN used ELSE N - 1
    /\ retired' = IF next = NoNext THEN retired ELSE WalkedTo(N - 1)
    /\ open' = FALSE
    /\ UNCHANGED <<reserved, holders, manual, exposed>>

\* reserve_batch: all the ids or none; the addition wraps.
Batch(base, count) == {(base + k) % N : k \in 0 .. count - 1}

\* Mutant of ReserveBatch: an id that is reserved already is taken again.
BatchOverReserved(base, count) ==
    /\ count <= N
    /\ \A i \in Batch(base, count) : ~InPrefix(i) /\ ~Contains(i)
    /\ reserved' = reserved \cup Batch(base, count)
    /\ holders' = [i \in Ids |-> holders[i] + IF i \in Batch(base, count) THEN 1 ELSE 0]
    /\ manual' = manual \cup Batch(base, count)
    /\ UNCHANGED <<next, used, retired, exposed, open>>

\* Mutant of ReserveBatch: live leases are consulted instead of retired ids.
BatchOverRetired(base, count) ==
    /\ count <= N
    /\ \A i \in Batch(base, count) : ~InPrefix(i) /\ i \notin reserved /\ holders[i] = 0
    /\ reserved' = reserved \cup Batch(base, count)
    /\ holders' = [i \in Ids |-> holders[i] + IF i \in Batch(base, count) THEN 1 ELSE 0]
    /\ manual' = manual \cup Batch(base, count)
    /\ UNCHANGED <<next, used, retired, exposed, open>>

ReserveBatch(base, count) ==
    /\ count <= N    \* otherwise an id repeats
    /\ \A i \in Batch(base, count) : ~InPrefix(i) /\ i \notin reserved /\ ~Contains(i)
    /\ reserved' = reserved \cup Batch(base, count)
    /\ holders' = [i \in Ids |-> holders[i] + IF i \in Batch(base, count) THEN 1 ELSE 0]
    /\ manual' = manual \cup Batch(base, count)
    /\ UNCHANGED <<next, used, retired, exposed, open>>

-----------------------------------------------------------------------------
\* The life of a lease.

Leased(i) == holders[i] > 0

\* Dropped before a frame carried the id: a cancelled, refused or partial submit.
DropUnused(i) ==
    /\ Leased(i) /\ i \notin exposed
    /\ reserved' = reserved \ {i} /\ holders' = [holders EXCEPT ![i] = @ - 1]
    /\ UNCHANGED <<next, used, retired, manual, exposed, open>>

\* Admission (or a heartbeat, a TERMINATE): the frame is queued.  A manual id
\* is retired first; when the table is full it stays reserved for good.
Expose(i) ==
    /\ Leased(i) /\ i \notin exposed /\ open
    /\ \/ /\ i \notin manual /\ exposed' = exposed \cup {i}
          /\ UNCHANGED <<reserved, retired, holders, open>>
       \/ /\ i \in manual /\ Retire(i, TRUE) /\ exposed' = exposed \cup {i}
          /\ UNCHANGED <<holders, open>>
       \/ /\ i \in manual /\ Retire(i, FALSE) /\ open' = FALSE
          /\ holders' = [holders EXCEPT ![i] = @ - 1]
          /\ UNCHANGED exposed
    /\ UNCHANGED <<next, used, manual>>

\* The pending entry is removed: an automatic lease releases its id, a manual
\* one was retired and releases nothing.
Conclude(i) ==
    /\ Leased(i) /\ i \in exposed
    /\ reserved' = IF i \in manual THEN reserved ELSE reserved \ {i}
    /\ holders' = [holders EXCEPT ![i] = @ - 1]
    /\ UNCHANGED <<next, used, retired, manual, exposed, open>>

\* The entry timed out: its lease is retired, then dropped.
ConcludeTimedOut(i) ==
    /\ Leased(i) /\ i \in exposed
    /\ \E ok \in BOOLEAN : Retire(i, ok) /\ open' = (open /\ ok)
    /\ holders' = [holders EXCEPT ![i] = @ - 1]
    /\ UNCHANGED <<next, used, manual, exposed>>

Next ==
    \/ ReserveNextFails
    \/ \E base \in Ids, count \in 1 .. MaxBatch : ReserveBatch(base, count)
    \/ \E i \in Ids : \/ ReserveNext(i) \/ DropUnused(i) \/ Expose(i)
                      \/ Conclude(i) \/ ConcludeTimedOut(i)

Spec == Init /\ [][Next]_vars

-----------------------------------------------------------------------------
\* Properties.

\* An id has at most one live lease, automatic or manual.
SoleHolder == \A i \in Ids : holders[i] <= 1

\* A leased id is protected: still reserved, or already beyond reuse.
Remembered(i) == InPrefix(i) \/ i \in Covered
LeaseProtected == \A i \in Ids : Leased(i) => i \in reserved \/ Remembered(i)

\* Every id that a frame carried is remembered for the life of the connection:
\* in the automatic prefix or in the table (retire, reserve_next's trimming).
ExposedRemembered == \A i \in exposed : Remembered(i)

\* An id is nobody else's while it is leased, and nobody's once a frame carried
\* it, whatever was reserved, released and retired in between.
IdsGuarded == SoleHolder /\ LeaseProtected /\ ExposedRemembered

\* No id that a frame carried is ever leased again.
NeverReissued == [][\A i \in exposed : holders'[i] <= holders[i]]_vars

\* The table is a set of disjoint ranges that do not even touch, at most
\* MaxRanges of them, and reserve_next leaves none of them inside the prefix.
TableDisjoint == \A s \in Starts : s <= retired[s] /\ \A t \in Starts : s < t => retired[s] + 1 < t
TableCapped   == Cardinality(Starts) <= MaxRanges
TableOutside  == \A i \in Covered : ~InPrefix(i)
TableCompact  == TableDisjoint /\ TableCapped /\ TableOutside

\* Looking only at the nearest range start finds every covered id.
ContainsExact == \A i \in Ids : Contains(i) <=> i \in Covered

\* After any history of retirements the table is compact and the shortcut of
\* its lookup is exact (insert_retired_sequence, contains_retired_sequence).
TableExact == TableCompact /\ ContainsExact
=============================================================================
