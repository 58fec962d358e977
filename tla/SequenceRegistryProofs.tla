----------------------- MODULE SequenceRegistryProofs -----------------------
(***************************************************************************)
(* Proofs about SequenceRegistry, for every width of the ids and every     *)
(* capacity of the table.                                                  *)
(***************************************************************************)
EXTENDS SequenceRegistry, TLAPS, FiniteSetTheorems

\* The prefix ends right before next_automatic.
PrefixInv == next = used + 1 /\ AutoStart - 1 <= used

\* A lease that is not manual came from reserve_next.
AutomaticInPrefix == \A i \in Ids : Leased(i) /\ i \notin manual => InPrefix(i)

TableInv    == PrefixInv /\ TableDisjoint /\ TableOutside
LeaseInv    == SoleHolder /\ LeaseProtected /\ ExposedRemembered /\ AutomaticInPrefix
RegistryInv == TypeOK /\ TableInv /\ LeaseInv

-----------------------------------------------------------------------------
\* Facts about the table.

\* retired_sequence_contains is exact: the nearest start below i decides.
LEMMA ContainsIsCovered ==
    ASSUME TypeOK, TableDisjoint, NEW i \in Ids
    PROVE  Contains(i) <=> i \in Covered
<1> USE DEF TypeOK, Ids, Starts, TableDisjoint
<1>1. ASSUME Contains(i) PROVE i \in Covered
  BY <1>1 DEF Contains, Previous, Covered
<1>2. ASSUME i \in Covered PROVE Contains(i)
  <2>1. PICK s \in Starts : s <= i /\ i <= retired[s]
    BY <1>2 DEF Covered
  <2>2. \A t \in Starts : t <= i => t <= s
    BY <2>1, RegistryAssumption DEF RegistryAssumption, NoRange
  <2> QED
    BY <2>1, <2>2 DEF Contains, Previous
<1> QED
  BY <1>1, <1>2

\* The neighbours insert_retired_sequence looks at are the adjacent ranges.
LEMMA JoinsPreviousIsAdjacent ==
    ASSUME TypeOK, TableDisjoint, NEW i \in Ids, i \notin Covered
    PROVE  /\ JoinsPrevious(i) <=> \E s \in Starts : retired[s] + 1 = i
           /\ \A s \in Starts : retired[s] + 1 = i => Previous(i) = {s}
<1> USE RegistryAssumption DEF RegistryAssumption, TypeOK, Ids, NoRange, Starts, TableDisjoint
<1>1. ASSUME NEW s \in Starts, retired[s] + 1 = i PROVE Previous(i) = {s}
  <2>1. s <= i /\ \A t \in Starts : t <= i => t <= s
    BY <1>1
  <2> QED
    BY <2>1 DEF Previous
<1>2. JoinsPrevious(i) => \E s \in Starts : retired[s] + 1 = i
  BY DEF JoinsPrevious, Previous
<1>3. (\E s \in Starts : retired[s] + 1 = i) => JoinsPrevious(i)
  BY <1>1 DEF JoinsPrevious
<1> QED
  BY <1>1, <1>2, <1>3

\* ... and so is the one after i.
LEMMA JoinsFollowingIsAdjacent ==
    ASSUME TypeOK, TableDisjoint, NEW i \in Ids, i \notin Covered
    PROVE  JoinsFollowing(i) <=> i + 1 \in Starts
<1> USE RegistryAssumption DEF RegistryAssumption, TypeOK, Ids, NoRange, Starts, TableDisjoint
<1>1. i \notin Starts
  BY DEF Covered
<1>2. JoinsFollowing(i) => i + 1 \in Starts
  BY DEF JoinsFollowing, Following
<1>3. i + 1 \in Starts => i + 1 \in Following(i)
  BY <1>1 DEF Following
<1> QED
  BY <1>2, <1>3 DEF JoinsFollowing

\* The four outcomes of insert_retired_sequence.
LEMMA InsertedShapes ==
    ASSUME TypeOK, TableDisjoint, NEW i \in Ids, i \notin Covered
    PROVE  \/ /\ ~JoinsPrevious(i) /\ i + 1 \notin Starts
              /\ Inserted(i) = [retired EXCEPT ![i] = i]
           \/ /\ ~JoinsPrevious(i) /\ i + 1 \in Starts
              /\ Inserted(i) = [retired EXCEPT ![i] = retired[i + 1], ![i + 1] = NoRange]
           \/ \E p \in Starts :
                /\ retired[p] + 1 = i /\ i + 1 \notin Starts
                /\ Inserted(i) = [retired EXCEPT ![p] = i]
           \/ \E p \in Starts :
                /\ retired[p] + 1 = i /\ i + 1 \in Starts
                /\ Inserted(i) = [retired EXCEPT ![p] = retired[i + 1], ![i + 1] = NoRange]
<1>1. JoinsFollowing(i) <=> i + 1 \in Starts
  BY JoinsFollowingIsAdjacent
<1>2. CASE ~JoinsPrevious(i)
  <2>1. CASE i + 1 \in Starts
    <3>1. i + 1 \in Ids /\ i # i + 1
      BY <2>1 DEF Starts, Ids
    <3> QED
      BY <1>1, <1>2, <2>1, <3>1 DEF Inserted, TypeOK
  <2>2. CASE i + 1 \notin Starts
    BY <1>1, <1>2, <2>2 DEF Inserted, TypeOK
  <2> QED
    BY <2>1, <2>2
<1>3. CASE JoinsPrevious(i)
  <2>1. PICK p \in Starts : retired[p] + 1 = i
    BY <1>3, JoinsPreviousIsAdjacent
  <2>2. (CHOOSE s \in Previous(i) : TRUE) = p
    BY <2>1, JoinsPreviousIsAdjacent
  <2>3. p \in Ids /\ p # i + 1
    BY <2>1, RegistryAssumption DEF RegistryAssumption, TypeOK, Starts, Ids, NoRange, TableDisjoint
  <2>4. CASE i + 1 \in Starts
    BY <1>1, <1>3, <2>1, <2>2, <2>3, <2>4 DEF Inserted, TypeOK, Starts
  <2>5. CASE i + 1 \notin Starts
    BY <1>1, <1>3, <2>1, <2>2, <2>3, <2>5 DEF Inserted, TypeOK, Starts
  <2> QED
    BY <2>4, <2>5
<1> QED
  BY <1>2, <1>3

\* A retired id joins the table: the ranges stay disjoint and cover one id more.
LEMMA InsertedTable ==
    ASSUME TypeOK, TableDisjoint, NEW i \in Ids, i \notin Covered, retired' = Inserted(i)
    PROVE  /\ retired' \in [Ids -> Ids \cup {NoRange}]
           /\ TableDisjoint'
           /\ Covered' = Covered \cup {i}
<1> USE RegistryAssumption DEF RegistryAssumption, TypeOK, Ids, NoRange, Starts, TableDisjoint, Covered
<1>1. CASE /\ ~JoinsPrevious(i) /\ i + 1 \notin Starts
           /\ retired' = [retired EXCEPT ![i] = i]
  <2>1. \A s \in Starts : retired[s] + 1 # i
    BY <1>1, JoinsPreviousIsAdjacent
  <2>2. Starts' = Starts \cup {i} /\ i \notin Starts
    BY <1>1
  <2> QED
    BY <1>1, <2>1, <2>2
<1>2. CASE /\ ~JoinsPrevious(i) /\ i + 1 \in Starts
           /\ retired' = [retired EXCEPT ![i] = retired[i + 1], ![i + 1] = NoRange]
  <2>1. \A s \in Starts : retired[s] + 1 # i
    BY <1>2, JoinsPreviousIsAdjacent
  <2>2. i + 1 \in Ids /\ i # i + 1 /\ i \notin Starts
    BY <1>2
  <2>3. /\ retired'[i] = retired[i + 1] /\ retired'[i + 1] = NoRange
        /\ \A s \in Ids : s # i /\ s # i + 1 => retired'[s] = retired[s]
    BY <1>2, <2>2
  <2>4. Starts' = (Starts \ {i + 1}) \cup {i}
    BY <1>2, <2>2, <2>3
  <2>5. retired' \in [Ids -> Ids \cup {NoRange}]
    BY <1>2, <2>2
  <2>6. TableDisjoint'
    <3>1. \A s \in Starts : s # i + 1 => retired[s] + 1 < i \/ i + 1 < s
      BY <1>2, <2>1, <2>2
    <3> SUFFICES ASSUME NEW s \in Starts', NEW t \in Starts'
                 PROVE  s <= retired'[s] /\ (s < t => retired'[s] + 1 < t)
      OBVIOUS
    <3>2. CASE s = i
      BY <1>2, <2>2, <2>3, <2>4, <3>1, <3>2
    <3>3. CASE s # i
      BY <1>2, <2>2, <2>3, <2>4, <3>1, <3>3
    <3> QED
      BY <3>2, <3>3
  <2>7. Covered' = Covered \cup {i}
    <3> SUFFICES ASSUME NEW j \in Ids PROVE j \in Covered' <=> j \in Covered \/ j = i
      OBVIOUS
    <3>1. (i <= j /\ j <= retired'[i]) <=> (j = i \/ (i + 1 <= j /\ j <= retired[i + 1]))
      BY <1>2, <2>2, <2>3
    <3>2. j \in Covered' <=> \/ i <= j /\ j <= retired'[i]
                             \/ \E s \in Starts \ {i + 1} : s <= j /\ j <= retired[s]
      BY <2>2, <2>3, <2>4
    <3>3. j \in Covered <=> \/ i + 1 <= j /\ j <= retired[i + 1]
                            \/ \E s \in Starts \ {i + 1} : s <= j /\ j <= retired[s]
      BY <1>2
    <3> QED
      BY <3>1, <3>2, <3>3
  <2> QED
    BY <2>5, <2>6, <2>7
<1>3. ASSUME NEW p \in Starts, retired[p] + 1 = i, i + 1 \notin Starts,
             retired' = [retired EXCEPT ![p] = i]
      PROVE  /\ retired' \in [Ids -> Ids \cup {NoRange}]
             /\ TableDisjoint' /\ Covered' = Covered \cup {i}
  <2>1. Starts' = Starts
    BY <1>3
  <2> QED
    BY <1>3, <2>1
<1>4. ASSUME NEW p \in Starts, retired[p] + 1 = i, i + 1 \in Starts,
             retired' = [retired EXCEPT ![p] = retired[i + 1], ![i + 1] = NoRange]
      PROVE  /\ retired' \in [Ids -> Ids \cup {NoRange}]
             /\ TableDisjoint' /\ Covered' = Covered \cup {i}
  <2>1. p \in Ids /\ i + 1 \in Ids /\ p < i + 1
    BY <1>4
  <2>2. /\ retired'[p] = retired[i + 1] /\ retired'[i + 1] = NoRange
        /\ \A s \in Ids : s # p /\ s # i + 1 => retired'[s] = retired[s]
    BY <1>4, <2>1
  <2>3. Starts' = Starts \ {i + 1}
    BY <1>4, <2>1, <2>2
  <2>4. retired' \in [Ids -> Ids \cup {NoRange}]
    BY <1>4, <2>1
  <2>5. TableDisjoint'
    <3> SUFFICES ASSUME NEW s \in Starts', NEW t \in Starts'
                 PROVE  s <= retired'[s] /\ (s < t => retired'[s] + 1 < t)
      OBVIOUS
    <3>1. s \in Starts /\ t \in Starts /\ s # i + 1 /\ t # i + 1
      BY <2>3
    <3>2. CASE s = p
      <4>1. i + 1 <= retired[i + 1] /\ (p < t => i + 1 < t)
        BY <1>4, <2>1, <3>1
      <4>2. i + 1 < t => retired[i + 1] + 1 < t
        BY <1>4, <2>1, <3>1
      <4> QED
        BY <2>1, <2>2, <3>2, <4>1, <4>2
    <3>3. CASE s # p
      BY <1>4, <2>1, <2>2, <3>1, <3>3
    <3> QED
      BY <3>2, <3>3
  <2>6. Covered' = Covered \cup {i}
    <3> SUFFICES ASSUME NEW j \in Ids PROVE j \in Covered' <=> j \in Covered \/ j = i
      OBVIOUS
    <3>1. (p <= j /\ j <= retired'[p]) <=> \/ j = i
                                           \/ p <= j /\ j <= retired[p]
                                           \/ i + 1 <= j /\ j <= retired[i + 1]
      BY <1>4, <2>1, <2>2
    <3>2. j \in Covered' <=> \/ p <= j /\ j <= retired'[p]
                             \/ \E s \in Starts \ {p, i + 1} : s <= j /\ j <= retired[s]
      BY <1>4, <2>1, <2>2, <2>3
    <3>3. j \in Covered <=> \/ p <= j /\ j <= retired[p]
                            \/ i + 1 <= j /\ j <= retired[i + 1]
                            \/ \E s \in Starts \ {p, i + 1} : s <= j /\ j <= retired[s]
      BY <1>4
    <3> QED
      BY <3>1, <3>2, <3>3
  <2> QED
    BY <2>4, <2>5, <2>6
<1> QED
  BY <1>1, <1>2, <1>3, <1>4, InsertedShapes

\* reserve_next's walk: the ranges it meets move into the prefix it extends.
LEMMA WalkedTable ==
    ASSUME TypeOK, TableInv, NEW last \in Ids, next <= last,
           \A s \in Starts : s <= last => retired[s] <= last,
           retired' = WalkedTo(last), used' = last
    PROVE  /\ retired' \in [Ids -> Ids \cup {NoRange}]
           /\ TableDisjoint' /\ TableOutside' /\ Starts' \subseteq Starts
           /\ \A j \in Covered : j \in Covered' \/ InPrefix(j)'
<1> USE RegistryAssumption DEF RegistryAssumption, TypeOK, TableInv, PrefixInv, Ids, NoRange, Starts, TableDisjoint
<1>1. AutoStart - 1 \in Ids /\ AutoStart <= next
  OBVIOUS
<1>2. retired' \in [Ids -> Ids \cup {NoRange}]
  BY <1>1 DEF WalkedTo
<1>3. \A s \in Starts : next <= retired[s] /\ s <= last =>
          retired'[s] = IF s < AutoStart THEN AutoStart - 1 ELSE NoRange
  BY <1>1 DEF WalkedTo
<1>4. \A s \in Ids : ~(s \in Starts /\ next <= retired[s] /\ s <= last) => retired'[s] = retired[s]
  BY <1>1 DEF WalkedTo
<1>5. \A s \in Starts' : /\ s \in Starts /\ retired'[s] <= retired[s]
                         /\ s <= retired'[s] /\ s <= retired[s]
  BY <1>1, <1>3, <1>4
<1>6. TableDisjoint'
  BY <1>2, <1>5
<1>7. TableOutside'
  <2> SUFFICES ASSUME NEW j \in Ids, NEW s \in Starts', s <= j, j <= retired'[s]
               PROVE  ~(AutoStart <= j /\ j <= last)
    BY DEF TableOutside, Covered, InPrefix
  <2>1. CASE next <= retired[s] /\ s <= last
    BY <1>3, <1>5, <2>1
  <2>2. CASE last < s
    BY <2>2
  <2>3. CASE retired[s] < next
    <3>1. s \in Starts /\ j <= retired[s] /\ j <= used
      BY <1>2, <1>5, <2>3
    <3>2. ~InPrefix(j)
      BY <3>1 DEF TableOutside, Covered
    <3> QED
      BY <3>1, <3>2 DEF InPrefix
  <2> QED
    BY <1>5, <2>1, <2>2, <2>3
<1>8. ASSUME NEW j \in Covered PROVE j \in Covered' \/ InPrefix(j)'
  <2>1. PICK s \in Starts : s <= j /\ j <= retired[s]
    BY DEF Covered
  <2>2. CASE next <= retired[s] /\ s <= last
    <3>1. CASE AutoStart <= j
      BY <2>1, <2>2, <3>1 DEF Covered, InPrefix
    <3>2. CASE j < AutoStart
      <4>1. retired'[s] = AutoStart - 1
        BY <1>3, <2>1, <2>2, <3>2 DEF Covered
      <4>2. s \in Starts' /\ s <= j /\ j <= retired'[s]
        BY <1>1, <2>1, <3>2, <4>1 DEF Covered
      <4> QED
        BY <4>2 DEF Covered
    <3> QED
      BY <3>1, <3>2 DEF Covered
  <2>3. CASE ~(next <= retired[s] /\ s <= last)
    BY <1>4, <2>1, <2>3 DEF Covered
  <2> QED
    BY <2>2, <2>3
<1> QED
  BY <1>2, <1>5, <1>6, <1>7, <1>8

\* retire: afterwards the id is remembered, and no other id is forgotten.
LEMMA RetireTable ==
    ASSUME TypeOK, TableInv, NEW i \in Ids, NEW ok \in BOOLEAN, Retire(i, ok),
           UNCHANGED <<next, used>>
    PROVE  /\ retired' \in [Ids -> Ids \cup {NoRange}] /\ TableInv'
           /\ Covered \subseteq Covered' /\ (ok => Remembered(i)')
           /\ reserved' = IF ok THEN reserved \ {i} ELSE reserved
<1>1. CASE InPrefix(i) \/ Contains(i)
  <2>1. UNCHANGED <<next, used, retired>>
    BY <1>1 DEF Retire
  <2>2. Remembered(i)
    BY <1>1, ContainsIsCovered DEF Remembered, TableInv
  <2> QED
    BY <2>1, <2>2 DEF Retire, TypeOK, TableInv, PrefixInv, TableDisjoint, TableOutside,
                      Covered, Starts, Remembered, InPrefix
<1>2. CASE ~InPrefix(i) /\ ~Contains(i) /\ ok
  <2>1. i \notin Covered /\ retired' = Inserted(i)
    BY <1>2, ContainsIsCovered DEF Retire, TableInv
  <2>2. /\ retired' \in [Ids -> Ids \cup {NoRange}] /\ TableDisjoint'
        /\ Covered' = Covered \cup {i}
    BY <2>1, InsertedTable DEF TableInv
  <2> QED
    BY <1>2, <2>2 DEF Retire, TableInv, PrefixInv, TableOutside, InPrefix, Remembered
<1>3. CASE ~ok
  <2>1. UNCHANGED <<next, used, retired, reserved>>
    BY <1>3 DEF Retire
  <2> QED
    BY <1>3, <2>1 DEF TypeOK, TableInv, PrefixInv, TableDisjoint, TableOutside,
                      Covered, Starts, InPrefix
<1> QED
  BY <1>1, <1>2, <1>3

\* An id that reserve_next or reserve_batch may take has no lease and was
\* never on the wire.
LEMMA FreshId ==
    ASSUME TypeOK, LeaseInv, NEW i \in Ids, ~InPrefix(i), i \notin Covered, i \notin reserved
    PROVE  holders[i] = 0 /\ i \notin exposed
BY DEF TypeOK, LeaseInv, LeaseProtected, ExposedRemembered, Remembered, Leased

-----------------------------------------------------------------------------
\* The inductive invariant, action by action.

\* A new registry has given out and retired nothing.
LEMMA RegistryInit == Init => RegistryInv
<1> SUFFICES ASSUME Init PROVE RegistryInv
  OBVIOUS
<1> USE RegistryAssumption DEF RegistryAssumption, Init, Ids, NoRange
<1>1. TypeOK
  BY DEF TypeOK
<1>2. Starts = {} /\ Covered = {}
  BY DEF Starts, Covered
<1>3. TableInv
  BY <1>2 DEF TableInv, PrefixInv, TableDisjoint, TableOutside
<1>4. LeaseInv
  BY DEF LeaseInv, SoleHolder, LeaseProtected, ExposedRemembered, AutomaticInPrefix, Leased
<1> QED
  BY <1>1, <1>3, <1>4 DEF RegistryInv

\* reserve_next: the id it hands out is new, and what the walk passes is
\* remembered by the prefix.
LEMMA ReserveNextStep ==
    ASSUME RegistryInv, NEW i \in Ids, ReserveNext(i)
    PROVE  RegistryInv' /\ i \notin exposed /\ holders[i] = 0
<1> USE RegistryAssumption DEF RegistryAssumption, RegistryInv, Ids, NoRange
<1>1. /\ next <= i /\ i \notin Covered /\ i \notin reserved /\ ~InPrefix(i)
      /\ AutoStart <= next /\ used < next
  BY DEF ReserveNext, Candidates, InPrefix, TableInv, PrefixInv, TypeOK
<1>2. holders[i] = 0 /\ i \notin exposed
  BY <1>1, FreshId
<1>3. \A s \in Starts : s <= i => retired[s] <= i
  BY <1>1 DEF Covered, Starts, TypeOK
<1>4. /\ retired' \in [Ids -> Ids \cup {NoRange}]
      /\ TableDisjoint' /\ TableOutside'
      /\ \A j \in Covered : j \in Covered' \/ InPrefix(j)'
  BY <1>1, <1>3, WalkedTable DEF ReserveNext
<1>5. TypeOK'
  BY <1>4 DEF TypeOK, ReserveNext
<1>6. TableInv'
  BY <1>1, <1>4 DEF TableInv, PrefixInv, ReserveNext, TypeOK
<1>7. \A j \in Ids : Remembered(j) => Remembered(j)'
  BY <1>1, <1>4 DEF Remembered, InPrefix, ReserveNext, TypeOK
<1>8. InPrefix(i)'
  BY <1>1 DEF InPrefix, ReserveNext, TypeOK
<1>9. LeaseInv'
  BY <1>1, <1>2, <1>7, <1>8
     DEF LeaseInv, SoleHolder, LeaseProtected, ExposedRemembered, AutomaticInPrefix,
         Leased, InPrefix, ReserveNext, TypeOK
<1> QED
  BY <1>2, <1>5, <1>6, <1>9

\* None: the prefix swallows the rest of the ids.
LEMMA ReserveNextFailsStep ==
    ASSUME RegistryInv, ReserveNextFails
    PROVE  RegistryInv'
<1> USE RegistryAssumption DEF RegistryAssumption, RegistryInv, Ids, NoRange, NoNext
<1>1. CASE next = NoNext
  <2>1. UNCHANGED <<next, used, reserved, retired, holders, manual, exposed>> /\ open' \in BOOLEAN
    BY <1>1 DEF ReserveNextFails
  <2> QED
    BY <2>1 DEF TypeOK, TableInv, PrefixInv, TableDisjoint, TableOutside, Covered, Starts,
                LeaseInv, SoleHolder, LeaseProtected, ExposedRemembered, AutomaticInPrefix,
                Leased, Remembered, InPrefix
<1>2. CASE next # NoNext
  <2>1. N - 1 \in Ids /\ next <= N - 1 /\ used < next
    BY <1>2 DEF TypeOK, TableInv, PrefixInv
  <2>2. \A s \in Starts : s <= N - 1 => retired[s] <= N - 1
    BY DEF Starts, TypeOK
  <2>3. used' = N - 1 /\ next' = N /\ retired' = WalkedTo(N - 1)
    BY <1>2 DEF ReserveNextFails
  <2>4. /\ retired' \in [Ids -> Ids \cup {NoRange}]
        /\ TableDisjoint' /\ TableOutside'
        /\ \A j \in Covered : j \in Covered' \/ InPrefix(j)'
    BY <2>1, <2>2, <2>3, WalkedTable
  <2>5. TypeOK'
    <3>1. open' \in BOOLEAN /\ UNCHANGED <<reserved, holders, manual, exposed>>
      BY DEF ReserveNextFails
    <3> QED
      BY <2>1, <2>3, <2>4, <3>1 DEF TypeOK
  <2>6. TableInv'
    BY <2>3, <2>4 DEF TableInv, PrefixInv
  <2>7. \A j \in Ids : Remembered(j) => Remembered(j)'
    BY <2>1, <2>3, <2>4 DEF Remembered, InPrefix, TypeOK
  <2>8. LeaseInv'
    BY <2>1, <2>3, <2>7
       DEF LeaseInv, SoleHolder, LeaseProtected, ExposedRemembered, AutomaticInPrefix,
           Leased, InPrefix, ReserveNextFails, TypeOK
  <2> QED
    BY <2>5, <2>6, <2>8
<1> QED
  BY <1>1, <1>2

\* reserve_batch: every id of the batch is new.
LEMMA ReserveBatchStep ==
    ASSUME RegistryInv, NEW base \in Ids, NEW count \in 1 .. MaxBatch, ReserveBatch(base, count)
    PROVE  /\ RegistryInv'
           /\ \A i \in Batch(base, count) : i \notin exposed /\ holders[i] = 0
<1> USE DEF RegistryInv
<1>1. Batch(base, count) \subseteq Ids
  BY RegistryAssumption DEF RegistryAssumption, Batch, Ids
<1>2. \A i \in Batch(base, count) : ~InPrefix(i) /\ i \notin Covered /\ i \notin reserved
  BY <1>1, ContainsIsCovered DEF ReserveBatch, TableInv
<1>3. \A i \in Batch(base, count) : i \notin exposed /\ holders[i] = 0
  BY <1>1, <1>2, FreshId
<1>4. UNCHANGED <<next, used, retired, exposed, open>>
  BY DEF ReserveBatch
<1>5. TypeOK'
  BY <1>1, <1>4 DEF TypeOK, ReserveBatch
<1>6. TableInv'
  BY <1>4 DEF TableInv, PrefixInv, TableDisjoint, TableOutside, Covered, Starts, InPrefix
<1>7. \A j \in Ids : Remembered(j)' = Remembered(j) /\ InPrefix(j)' = InPrefix(j)
  BY <1>4 DEF Remembered, InPrefix, Covered, Starts
<1>8. /\ reserved' = reserved \cup Batch(base, count) /\ manual' = manual \cup Batch(base, count)
      /\ \A j \in Ids : holders'[j] = IF j \in Batch(base, count) THEN holders[j] + 1 ELSE holders[j]
  BY DEF ReserveBatch, TypeOK
<1>9. LeaseInv'
  BY <1>3, <1>4, <1>7, <1>8
     DEF LeaseInv, SoleHolder, LeaseProtected, ExposedRemembered, AutomaticInPrefix, Leased, TypeOK
<1> QED
  BY <1>3, <1>5, <1>6, <1>9

\* What the steps of a lease that leave the table alone have in common.
LEMMA SameTable ==
    ASSUME RegistryInv, UNCHANGED <<next, used, retired>>
    PROVE  /\ TableInv' /\ \A j \in Ids : Remembered(j)' = Remembered(j) /\ InPrefix(j)' = InPrefix(j)
BY DEF RegistryInv, TableInv, PrefixInv, TableDisjoint, TableOutside, Covered, Starts, InPrefix, Remembered

\* An id no frame carried is given back.
LEMMA DropUnusedStep ==
    ASSUME RegistryInv, NEW i \in Ids, DropUnused(i)
    PROVE  RegistryInv'
<1> USE DEF RegistryInv
<1>1. TableInv' /\ \A j \in Ids : Remembered(j)' = Remembered(j) /\ InPrefix(j)' = InPrefix(j)
  BY SameTable DEF DropUnused
<1>2. TypeOK' /\ holders'[i] = 0 /\ \A j \in Ids : j # i => holders'[j] = holders[j]
  BY DEF TypeOK, DropUnused, Leased, LeaseInv, SoleHolder
<1>3. LeaseInv'
  BY <1>1, <1>2
     DEF LeaseInv, SoleHolder, LeaseProtected, ExposedRemembered, AutomaticInPrefix, Leased, DropUnused, TypeOK
<1> QED
  BY <1>1, <1>2, <1>3

\* A frame is queued with the id: from then on it is remembered.
LEMMA ExposeStep ==
    ASSUME RegistryInv, NEW i \in Ids, Expose(i)
    PROVE  RegistryInv'
<1> USE DEF RegistryInv
<1>1. Leased(i) /\ holders[i] = 1 /\ UNCHANGED <<next, used, manual>>
  BY DEF Expose, Leased, LeaseInv, SoleHolder, TypeOK
<1>2. CASE i \notin manual /\ exposed' = exposed \cup {i} /\ UNCHANGED <<reserved, retired, holders, open>>
  <2>1. TableInv' /\ \A j \in Ids : Remembered(j)' = Remembered(j) /\ InPrefix(j)' = InPrefix(j)
    BY <1>1, <1>2, SameTable
  <2>2. Remembered(i)
    BY <1>1, <1>2 DEF LeaseInv, AutomaticInPrefix, Remembered
  <2> QED
    BY <1>1, <1>2, <2>1, <2>2
       DEF LeaseInv, SoleHolder, LeaseProtected, ExposedRemembered, AutomaticInPrefix, Leased, TypeOK
<1>3. CASE i \in manual /\ Retire(i, TRUE) /\ exposed' = exposed \cup {i} /\ UNCHANGED <<holders, open>>
  <2>1. /\ retired' \in [Ids -> Ids \cup {NoRange}] /\ TableInv'
        /\ Covered \subseteq Covered' /\ Remembered(i)' /\ reserved' = reserved \ {i}
    BY <1>1, <1>3, RetireTable
  <2>2. \A j \in Ids : Remembered(j) => Remembered(j)'
    BY <1>1, <2>1 DEF Remembered, InPrefix
  <2> QED
    BY <1>1, <1>3, <2>1, <2>2
       DEF LeaseInv, SoleHolder, LeaseProtected, ExposedRemembered, AutomaticInPrefix, Leased, InPrefix, TypeOK
<1>4. CASE /\ i \in manual /\ Retire(i, FALSE) /\ open' = FALSE
           /\ holders' = [holders EXCEPT ![i] = @ - 1] /\ UNCHANGED exposed
  <2>1. UNCHANGED <<retired, reserved>>
    BY <1>4 DEF Retire
  <2>2. TableInv' /\ \A j \in Ids : Remembered(j)' = Remembered(j) /\ InPrefix(j)' = InPrefix(j)
    BY <1>1, <2>1, SameTable
  <2>3. holders'[i] = 0 /\ \A j \in Ids : j # i => holders'[j] = holders[j]
    BY <1>1, <1>4 DEF TypeOK
  <2>4. open' \in BOOLEAN /\ holders' \in [Ids -> Nat] /\ UNCHANGED exposed
    <3>1. open' \in BOOLEAN
      BY <1>4
    <3>2. holders' \in [Ids -> Nat]
      BY <1>1, <1>4 DEF TypeOK
    <3> QED
      BY <1>4, <3>1, <3>2
  <2>5. TypeOK'
    BY <1>1, <2>1, <2>4 DEF TypeOK
  <2>6. LeaseInv'
    BY <1>1, <2>1, <2>2, <2>3, <2>4
       DEF LeaseInv, SoleHolder, LeaseProtected, ExposedRemembered, AutomaticInPrefix, Leased, TypeOK
  <2> QED
    BY <2>2, <2>5, <2>6
<1> QED
  BY <1>2, <1>3, <1>4 DEF Expose

\* The entry is removed: the id is remembered without its lease.
LEMMA ConcludeStep ==
    ASSUME RegistryInv, NEW i \in Ids, Conclude(i)
    PROVE  RegistryInv'
<1> USE DEF RegistryInv
<1>1. TableInv' /\ \A j \in Ids : Remembered(j)' = Remembered(j) /\ InPrefix(j)' = InPrefix(j)
  BY SameTable DEF Conclude
<1>2. TypeOK' /\ holders'[i] = 0 /\ \A j \in Ids : j # i => holders'[j] = holders[j]
  BY DEF TypeOK, Conclude, Leased, LeaseInv, SoleHolder
<1>3. LeaseInv'
  BY <1>1, <1>2
     DEF LeaseInv, SoleHolder, LeaseProtected, ExposedRemembered, AutomaticInPrefix, Leased, Conclude, TypeOK
<1> QED
  BY <1>1, <1>2, <1>3

\* The entry timed out: its id is retired before the lease goes.
LEMMA ConcludeTimedOutStep ==
    ASSUME RegistryInv, NEW i \in Ids, ConcludeTimedOut(i)
    PROVE  RegistryInv'
<1> USE DEF RegistryInv
<1>1. PICK ok \in BOOLEAN : Retire(i, ok) /\ open' = (open /\ ok)
  BY DEF ConcludeTimedOut
<1>2. UNCHANGED <<next, used, manual, exposed>>
  BY DEF ConcludeTimedOut
<1>3. /\ retired' \in [Ids -> Ids \cup {NoRange}] /\ TableInv' /\ Covered \subseteq Covered'
      /\ reserved' = IF ok THEN reserved \ {i} ELSE reserved
  BY <1>1, <1>2, RetireTable
<1>4. \A j \in Ids : Remembered(j) => Remembered(j)'
  BY <1>2, <1>3 DEF Remembered, InPrefix
<1>5. holders' \in [Ids -> Nat] /\ holders'[i] = 0 /\ \A j \in Ids : j # i => holders'[j] = holders[j]
  BY DEF TypeOK, ConcludeTimedOut, Leased, LeaseInv, SoleHolder
<1>6. TypeOK'
  BY <1>1, <1>2, <1>3, <1>5 DEF TypeOK
<1>7. LeaseInv'
  BY <1>2, <1>3, <1>4, <1>5
     DEF LeaseInv, SoleHolder, LeaseProtected, ExposedRemembered, AutomaticInPrefix, Leased, InPrefix, TypeOK
<1> QED
  BY <1>3, <1>6, <1>7

\* Every step keeps the invariant.
LEMMA RegistryStep == RegistryInv /\ [Next]_vars => RegistryInv'
<1> SUFFICES ASSUME RegistryInv, [Next]_vars PROVE RegistryInv'
  OBVIOUS
<1>1. CASE ReserveNextFails
  BY <1>1, ReserveNextFailsStep
<1>2. ASSUME NEW base \in Ids, NEW count \in 1 .. MaxBatch, ReserveBatch(base, count) PROVE RegistryInv'
  BY <1>2, ReserveBatchStep
<1>3. ASSUME NEW i \in Ids, ReserveNext(i) PROVE RegistryInv'
  BY <1>3, ReserveNextStep
<1>4. ASSUME NEW i \in Ids, DropUnused(i) PROVE RegistryInv'
  BY <1>4, DropUnusedStep
<1>5. ASSUME NEW i \in Ids, Expose(i) PROVE RegistryInv'
  BY <1>5, ExposeStep
<1>6. ASSUME NEW i \in Ids, Conclude(i) PROVE RegistryInv'
  BY <1>6, ConcludeStep
<1>7. ASSUME NEW i \in Ids, ConcludeTimedOut(i) PROVE RegistryInv'
  BY <1>7, ConcludeTimedOutStep
<1>8. CASE UNCHANGED vars
  <2>1. TableInv' /\ \A j \in Ids : Remembered(j)' = Remembered(j) /\ InPrefix(j)' = InPrefix(j)
    BY <1>8, SameTable DEF vars
  <2> QED
    BY <1>8, <2>1
       DEF vars, RegistryInv, TypeOK, LeaseInv, SoleHolder, LeaseProtected, ExposedRemembered,
           AutomaticInPrefix, Leased
<1> QED
  BY <1>1, <1>2, <1>3, <1>4, <1>5, <1>6, <1>7, <1>8 DEF Next

-----------------------------------------------------------------------------
\* The theorems.

\* Types, table and leases are in order throughout.
THEOREM RegistryInvariant == Spec => []RegistryInv
BY RegistryInit, RegistryStep, PTL DEF Spec

\* An id has at most one live lease, automatic or manual, is protected while it
\* has one, and stays remembered once a frame carried it, whatever reserve_next
\* trims and insert_retired_sequence merges.
THEOREM IdsAlwaysGuarded == Spec => []IdsGuarded
<1>1. RegistryInv => IdsGuarded
  BY DEF RegistryInv, LeaseInv, IdsGuarded
<1> QED
  BY <1>1, RegistryInvariant, PTL

\* retired_sequence_contains, which looks at one range only, finds exactly the
\* ids the table covers.
THEOREM NearestRangeDecides == Spec => []ContainsExact
<1>1. RegistryInv => ContainsExact
  BY ContainsIsCovered DEF RegistryInv, TableInv, ContainsExact
<1> QED
  BY <1>1, RegistryInvariant, PTL

\* No id that a frame carried is leased again: a late SUBMIT_RESP can only
\* meet the entry it answers, or none.
THEOREM ExposedNeverReissued == Spec => NeverReissued
<1>1. ASSUME RegistryInv, [Next]_vars
      PROVE  [\A i \in exposed : holders'[i] <= holders[i]]_vars
  <2> SUFFICES ASSUME Next, NEW j \in exposed PROVE holders'[j] <= holders[j]
    BY <1>1
  <2> USE <1>1 DEF RegistryInv, TypeOK
  <2>1. CASE ReserveNextFails
    BY <2>1 DEF ReserveNextFails
  <2>2. ASSUME NEW base \in Ids, NEW count \in 1 .. MaxBatch, ReserveBatch(base, count)
        PROVE  holders'[j] <= holders[j]
    <3>1. j \notin Batch(base, count)
      BY <2>2, ReserveBatchStep
    <3> QED
      BY <2>2, <3>1 DEF ReserveBatch
  <2>3. ASSUME NEW i \in Ids, ReserveNext(i) PROVE holders'[j] <= holders[j]
    <3>1. j # i
      BY <2>3, ReserveNextStep
    <3> QED
      BY <2>3, <3>1 DEF ReserveNext
  <2>4. ASSUME NEW i \in Ids, DropUnused(i) \/ Expose(i) \/ Conclude(i) \/ ConcludeTimedOut(i)
        PROVE  holders'[j] <= holders[j]
    <3>1. holders' = holders \/ holders' = [holders EXCEPT ![i] = @ - 1]
      BY <2>4 DEF DropUnused, Expose, Conclude, ConcludeTimedOut
    <3> QED
      BY <3>1
  <2> QED
    BY <2>1, <2>2, <2>3, <2>4 DEF Next
<1> QED
  BY <1>1, RegistryInvariant, PTL DEF Spec, NeverReissued

-----------------------------------------------------------------------------
\* The size of the table.

\* The set of range starts is finite.
LEMMA StartsFinite == IsFiniteSet(Starts) /\ Cardinality(Starts) \in Nat
<1>1. IsFiniteSet(Ids)
  BY FS_Interval, RegistryAssumption DEF RegistryAssumption, Ids
<1>2. Starts \subseteq Ids
  BY DEF Starts
<1> QED
  BY <1>1, <1>2, FS_Subset, FS_CardinalityType

\* An id that joins a neighbour adds no range; one that joins none adds one.
LEMMA InsertedStarts ==
    ASSUME TypeOK, TableDisjoint, NEW i \in Ids, i \notin Covered, retired' = Inserted(i)
    PROVE  \/ ~JoinsPrevious(i) /\ ~JoinsFollowing(i) /\ Starts' = Starts \cup {i}
           \/ \E f \in Starts : Starts' = (Starts \ {f}) \cup {i}
           \/ Starts' \subseteq Starts
<1> USE RegistryAssumption DEF RegistryAssumption, TypeOK, Ids, NoRange
<1>1. JoinsFollowing(i) <=> i + 1 \in Starts
  BY JoinsFollowingIsAdjacent
<1>2. CASE /\ ~JoinsPrevious(i) /\ i + 1 \notin Starts
           /\ retired' = [retired EXCEPT ![i] = i]
  <2>1. Starts' = Starts \cup {i}
    BY <1>2 DEF Starts
  <2> QED
    BY <1>1, <1>2, <2>1
<1>3. CASE /\ ~JoinsPrevious(i) /\ i + 1 \in Starts
           /\ retired' = [retired EXCEPT ![i] = retired[i + 1], ![i + 1] = NoRange]
  <2>1. i + 1 \in Ids /\ Starts' = (Starts \ {i + 1}) \cup {i}
    BY <1>3 DEF Starts
  <2> QED
    BY <1>3, <2>1
<1>4. ASSUME NEW p \in Starts, retired' = [retired EXCEPT ![p] = i]
      PROVE  Starts' \subseteq Starts
  BY <1>4 DEF Starts
<1>5. ASSUME NEW p \in Starts, i + 1 \in Starts,
             retired' = [retired EXCEPT ![p] = retired[i + 1], ![i + 1] = NoRange]
      PROVE  Starts' \subseteq Starts
  BY <1>5 DEF Starts
<1> QED
  BY <1>2, <1>3, <1>4, <1>5, InsertedShapes

\* retire() makes a range only where there is room for one.
LEMMA RetireCapped ==
    ASSUME TypeOK, TableDisjoint, TableCapped, NEW i \in Ids, NEW ok, Retire(i, ok)
    PROVE  TableCapped'
<1>1. CASE retired' = retired
  BY <1>1 DEF TableCapped, Starts
<1>2. CASE retired' # retired
  <2>1. /\ retired' = Inserted(i) /\ ~Contains(i)
        /\ JoinsPrevious(i) \/ JoinsFollowing(i) \/ ~TableFull
    BY <1>2 DEF Retire
  <2>2. i \notin Covered
    BY <2>1, ContainsIsCovered
  <2>3. IsFiniteSet(Starts) /\ Cardinality(Starts) \in Nat /\ Cardinality(Starts) <= MaxRanges
        /\ MaxRanges \in Nat
    BY StartsFinite, RegistryAssumption DEF RegistryAssumption, TableCapped
  <2>4. CASE ~JoinsPrevious(i) /\ ~JoinsFollowing(i) /\ Starts' = Starts \cup {i}
    <3>1. Cardinality(Starts) < MaxRanges
      BY <2>1, <2>3, <2>4 DEF TableFull
    <3>2. Cardinality(Starts \cup {i}) \in {Cardinality(Starts), Cardinality(Starts) + 1}
      <4>1. CASE i \in Starts
        <5>1. Starts \cup {i} = Starts
          BY <4>1
        <5>2. Cardinality(Starts \cup {i}) = Cardinality(Starts)
          BY <5>1
        <5> QED
          BY <5>2
      <4>2. CASE i \notin Starts
        <5>1. Cardinality(Starts \cup {i}) = Cardinality(Starts) + 1
          BY <2>3, <4>2, FS_AddElement
        <5> QED
          BY <5>1
      <4> QED
        BY <4>1, <4>2
    <3>3. Cardinality(Starts \cup {i}) \in Nat
      BY <2>3, FS_AddElement, FS_CardinalityType
    <3> QED
      BY <2>3, <2>4, <3>1, <3>2, <3>3 DEF TableCapped
  <2>5. CASE \E f \in Starts : Starts' = (Starts \ {f}) \cup {i}
    <3>1. PICK f \in Starts : Starts' = (Starts \ {f}) \cup {i}
      BY <2>5
    <3>2. IsFiniteSet(Starts \ {f}) /\ Cardinality(Starts \ {f}) = Cardinality(Starts) - 1
      BY <2>3, FS_RemoveElement
    <3>3. Cardinality(Starts') <= Cardinality(Starts)
      <4>1. CASE i \in Starts \ {f}
        <5>1. Starts' = Starts \ {f}
          BY <3>1, <4>1
        <5> QED
          BY <2>3, <3>2, <5>1
      <4>2. CASE i \notin Starts \ {f}
        <5>1. Cardinality((Starts \ {f}) \cup {i}) = Cardinality(Starts \ {f}) + 1
          BY <3>2, <4>2, FS_AddElement
        <5> QED
          BY <2>3, <3>1, <3>2, <5>1
      <4> QED
        BY <4>1, <4>2
    <3>4. Cardinality(Starts') \in Nat
      BY <3>1, <3>2, FS_AddElement, FS_CardinalityType
    <3> QED
      BY <2>3, <3>3, <3>4 DEF TableCapped
  <2>6. CASE Starts' \subseteq Starts
    <3>1. Cardinality(Starts') <= Cardinality(Starts) /\ Cardinality(Starts') \in Nat
      BY <2>3, <2>6, FS_Subset, FS_CardinalityType
    <3> QED
      BY <2>3, <3>1 DEF TableCapped
  <2> QED
    BY <2>1, <2>2, <2>4, <2>5, <2>6, InsertedStarts
<1> QED
  BY <1>1, <1>2

\* The walk of reserve_next trims and drops ranges, and makes none.
LEMMA WalkedCapped ==
    ASSUME TableCapped, NEW last, retired' = WalkedTo(last)
    PROVE  TableCapped'
<1>1. Starts' \subseteq Starts
  BY DEF Starts, WalkedTo
<1>2. Cardinality(Starts') <= Cardinality(Starts) /\ Cardinality(Starts') \in Nat
  BY <1>1, StartsFinite, FS_Subset, FS_CardinalityType
<1>3. Cardinality(Starts) \in Nat /\ MaxRanges \in Nat
  BY StartsFinite, RegistryAssumption DEF RegistryAssumption
<1> QED
  BY <1>2, <1>3 DEF TableCapped

\* Every step keeps the table within its capacity.
LEMMA CappedStep == RegistryInv /\ TableCapped /\ [Next]_vars => TableCapped'
<1> SUFFICES ASSUME RegistryInv, TableCapped, [Next]_vars PROVE TableCapped'
  OBVIOUS
<1>1. CASE retired' = retired
  BY <1>1 DEF TableCapped, Starts
<1>2. ASSUME NEW last, retired' = WalkedTo(last) PROVE TableCapped'
  BY <1>2, WalkedCapped
<1>3. ASSUME NEW i \in Ids, NEW ok, Retire(i, ok) PROVE TableCapped'
  BY <1>3, RetireCapped DEF RegistryInv, TableInv
<1>4. CASE ReserveNextFails
  BY <1>1, <1>2, <1>4 DEF ReserveNextFails
<1>5. ASSUME NEW base \in Ids, NEW count \in 1 .. MaxBatch, ReserveBatch(base, count) PROVE TableCapped'
  BY <1>1, <1>5 DEF ReserveBatch
<1>6. ASSUME NEW i \in Ids, ReserveNext(i) PROVE TableCapped'
  BY <1>2, <1>6 DEF ReserveNext
<1>7. ASSUME NEW i \in Ids, DropUnused(i) \/ Conclude(i) PROVE TableCapped'
  BY <1>1, <1>7 DEF DropUnused, Conclude
<1>8. ASSUME NEW i \in Ids, Expose(i) PROVE TableCapped'
  BY <1>1, <1>3, <1>8 DEF Expose
<1>9. ASSUME NEW i \in Ids, ConcludeTimedOut(i) PROVE TableCapped'
  BY <1>3, <1>9 DEF ConcludeTimedOut
<1>10. CASE UNCHANGED vars
  BY <1>1, <1>10 DEF vars
<1> QED
  BY <1>4, <1>5, <1>6, <1>7, <1>8, <1>9, <1>10 DEF Next

\* After any history of retirements the table is a set of ranges that do not
\* touch, at most MaxRanges of them and none inside the automatic prefix, and
\* looking at the nearest range decides (insert_retired_sequence,
\* retired_sequence_contains, reserve_next).
THEOREM TableStaysExact == Spec => []TableExact
<1>1. Init => TableCapped
  <2>1. ASSUME Init PROVE Starts = {}
    BY <2>1 DEF Init, Starts
  <2> QED
    BY <2>1, FS_EmptySet, RegistryAssumption DEF RegistryAssumption, TableCapped
<1>2. RegistryInv /\ TableCapped => TableExact
  BY ContainsIsCovered DEF TableExact, TableCompact, ContainsExact, RegistryInv, TableInv
<1> QED
  BY <1>1, <1>2, CappedStep, RegistryInvariant, PTL DEF Spec

=============================================================================
