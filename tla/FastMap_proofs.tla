--------------------------- MODULE FastMap_proofs ---------------------------
(***************************************************************************)
(* The search of HashTable finds the one entry of a key, or a free slot    *)
(* when there is one, and every insertion, update and removal keeps each   *)
(* entry within its reach; so FastMap keeps its invariants and implements  *)
(* the dictionary KVDict, for every set of keys and values, every hash     *)
(* function and every initial capacity of at least four slots.             *)
(***************************************************************************)
EXTENDS FastMap, FiniteSetTheorems, WellFoundedInduction, TLAPS

-----------------------------------------------------------------------------
(* The search.                                                             *)

Caps == Nat \ {0}

\* The probe for a key starts inside the table.
LEMMA HomeInTable ==
  ASSUME NEW k \in Keys, NEW cap \in Caps
  PROVE  Home(k, cap) \in Slots(cap)
<1>1. Hash[k] \in Nat
  BY HashAssumption
<1> QED
  BY <1>1 DEF Home, Slots, Caps

\* The probe needs fewer than cap steps to any slot, and comes to no slot
\* twice: cap steps visit the whole table.
LEMMA ProbeVisitsEachSlotOnce ==
  ASSUME NEW k \in Keys, NEW cap \in Caps
  PROVE  /\ \A s \in Slots(cap) : Dist(k, s, cap) \in Slots(cap)
         /\ \A r, s \in Slots(cap) : Dist(k, r, cap) = Dist(k, s, cap) => r = s
<1>1. Home(k, cap) \in Slots(cap)
  BY HomeInTable
<1> QED
  BY <1>1 DEF Dist, Slots, Caps

\* The loop that looks for a slot of S ends at one, if S has any.
LEMMA NearestExists ==
  ASSUME NEW k \in Keys, NEW cap \in Caps, NEW S \in SUBSET Slots(cap), S # {}
  PROVE  Nearest(k, S, cap) # {}
<1> DEFINE T == {Dist(k, s, cap) : s \in S}
<1>1. \A s \in S : Dist(k, s, cap) \in Nat
  BY ProbeVisitsEachSlotOnce DEF Slots, Caps
<1>2. T \subseteq Nat /\ T # {}
  BY <1>1
<1>3. PICK d \in T : \A e \in T : ~ (<<e, d>> \in OpToRel(<, Nat))
  <2> HIDE DEF T
  <2> QED BY <1>2, NatLessThanWellFounded, WFMin
<1>4. \A e \in T : d <= e
  <2> HIDE DEF T
  <2>1. d \in Nat
    BY <1>2
  <2> SUFFICES ASSUME NEW e \in T PROVE d <= e
    OBVIOUS
  <2>2. e \in Nat
    BY <1>2
  <2>3. ~ (e < d)
    BY <1>3, <2>1, <2>2 DEF OpToRel
  <2> QED
    BY <2>1, <2>2, <2>3
<1>5. PICK s \in S : d = Dist(k, s, cap)
  OBVIOUS
<1> QED
  BY <1>4, <1>5 DEF Nearest

\* The search finds an entry wherever it is, and only that entry.
LEMMA MatchFinds ==
  ASSUME NEW k \in Keys, NEW cap \in Caps, NEW t, WellFormed(t, cap),
         NEW s \in Slots(cap), t[s].key = k
  PROVE  Match(t, k, cap) = {s}
<1>1. k # NoKey
  BY NoneAssumption
<1>2. s \in Stops(t, k, cap)
  BY <1>1 DEF Stops, WellFormed, Entries
<1>3. \A r \in Stops(t, k, cap) : Dist(k, s, cap) <= Dist(k, r, cap)
  <2> TAKE r \in Stops(t, k, cap)
  <2>1. r \in Slots(cap) /\ ~t[r].deleted /\ (t[r].key = k \/ t[r].key = NoKey)
    BY DEF Stops
  <2>2. Dist(k, s, cap) \in Int /\ Dist(k, r, cap) \in Int
    BY <2>1, ProbeVisitsEachSlotOnce DEF Slots
  <2>3. CASE t[r].key = k
    <3>1. r = s
      BY <1>1, <2>1, <2>3 DEF WellFormed, UniqueKeys
    <3> QED
      BY <3>1, <2>2
  <2>4. CASE t[r].key = NoKey
    <3>1. Dist(k, s, cap) < Dist(k, r, cap)
      BY <1>1, <2>1, <2>4 DEF WellFormed, ProbeChain, IsVirgin
    <3> QED
      BY <3>1, <2>2
  <2> QED
    BY <2>1, <2>3, <2>4
<1>4. \A r \in Slots(cap) : t[r].key = k => r = s
  BY <1>1 DEF WellFormed, UniqueKeys
<1> QED
  BY <1>2, <1>3, <1>4 DEF Match, Nearest, Stops

\* What the search returns holds the key, so a missing key has no match.
LEMMA MatchHolds ==
  ASSUME NEW k \in Keys, NEW cap, NEW t, NEW s \in Match(t, k, cap)
  PROVE  s \in Slots(cap) /\ t[s].key = k
BY DEF Match, Nearest, Stops

\* get_entry<match> finds nothing for a key that is not in the table.
LEMMA MatchMissing ==
  ASSUME NEW k \in Keys, NEW cap, NEW t \in [Slots(cap) -> Entries], k \notin KeysOf(t)
  PROVE  Match(t, k, cap) = {}
BY MatchHolds, NoneAssumption DEF KeysOf

\* What get returns of a key that has an entry, and of one that has none.
LEMMA LookupFinds ==
  ASSUME NEW k \in Keys, NEW cap \in Caps, NEW t, WellFormed(t, cap),
         NEW s \in Slots(cap), t[s].key = k
  PROVE  Lookup(t, k, cap) = t[s].value
<1>1. Match(t, k, cap) = {s}
  BY MatchFinds
<1> QED
  BY <1>1 DEF Lookup

\* And get then returns nothing.
LEMMA LookupMissing ==
  ASSUME NEW k \in Keys, NEW cap, NEW t \in [Slots(cap) -> Entries], k \notin KeysOf(t)
  PROVE  Lookup(t, k, cap) = NoValue
BY MatchMissing DEF Lookup

\* A key is in the table or it is not: the slot that holds it.
LEMMA KeysOfSlots ==
  ASSUME NEW k \in Keys, NEW cap, NEW t \in [Slots(cap) -> Entries]
  PROVE  k \in KeysOf(t) <=> \E s \in Slots(cap) : t[s].key = k
BY NoneAssumption DEF KeysOf

-----------------------------------------------------------------------------
(* Free slots.                                                             *)

\* A table with fewer keys than slots has a slot without a key.
LEMMA FreeSlotExists ==
  ASSUME NEW cap \in Caps, NEW t, WellFormed(t, cap),
         IsFiniteSet(KeysOf(t)), Cardinality(KeysOf(t)) < cap
  PROVE  \E s \in Slots(cap) : t[s].key = NoKey
<1> SUFFICES ASSUME \A s \in Slots(cap) : t[s].key # NoKey PROVE FALSE
  OBVIOUS
<1> DEFINE f == [s \in Slots(cap) |-> t[s].key]
<1>1. f \in [Slots(cap) -> KeysOf(t)]
  BY DEF WellFormed, KeysOf
<1>2. IsFiniteSet(Slots(cap)) /\ Cardinality(Slots(cap)) = cap
  BY FS_Interval DEF Slots, Caps
<1>3. \E r, s \in Slots(cap) : r # s /\ f[r] = f[s]
  <2> HIDE DEF f
  <2> QED BY <1>1, <1>2, FS_PigeonHole
<1> QED
  BY <1>3 DEF WellFormed, UniqueKeys

\* What get_entry<match_or_empty> finds for a missing key: a slot without a
\* key, and no unused slot comes before it.
LEMMA SlotForMissing ==
  ASSUME NEW k \in Keys, NEW cap \in Caps, NEW t \in [Slots(cap) -> Entries],
         k \notin KeysOf(t), NEW s \in SlotFor(t, k, cap)
  PROVE  /\ s \in Slots(cap) /\ t[s].key = NoKey
         /\ \A r \in Slots(cap) : IsVirgin(t[r]) => Dist(k, s, cap) <= Dist(k, r, cap)
<1>1. Match(t, k, cap) = {}
  BY MatchMissing
<1> QED
  BY <1>1 DEF SlotFor, Nearest, IsVirgin

\* get_entry<match_or_empty> finds a slot while one is free.
LEMMA SlotForExists ==
  ASSUME NEW k \in Keys, NEW cap \in Caps, NEW t, WellFormed(t, cap),
         IsFiniteSet(KeysOf(t)), Cardinality(KeysOf(t)) < cap
  PROVE  SlotFor(t, k, cap) # {}
<1> DEFINE S == {s \in Slots(cap) : t[s].key = NoKey}
<1>1. S \in SUBSET Slots(cap) /\ S # {}
  BY FreeSlotExists
<1>2. Nearest(k, S, cap) # {}
  BY <1>1, NearestExists
<1> QED
  BY <1>2 DEF SlotFor

\* What get_entry<empty> finds in a table without tombstones.
LEMMA VirginSlotForExists ==
  ASSUME NEW k \in Keys, NEW cap \in Caps, NEW t, WellFormed(t, cap),
         \A s \in Slots(cap) : ~t[s].deleted,
         IsFiniteSet(KeysOf(t)), Cardinality(KeysOf(t)) < cap
  PROVE  VirginSlotFor(t, k, cap) # {}
<1> DEFINE S == {s \in Slots(cap) : IsVirgin(t[s])}
<1>1. S \in SUBSET Slots(cap) /\ S # {}
  BY FreeSlotExists DEF IsVirgin
<1>2. Nearest(k, S, cap) # {}
  BY <1>1, NearestExists
<1> QED
  BY <1>2 DEF VirginSlotFor

\* The slot of get_entry<empty> is free.
LEMMA VirginSlotForFree ==
  ASSUME NEW k \in Keys, NEW cap \in Caps, NEW t, NEW s \in VirginSlotFor(t, k, cap)
  PROVE  /\ s \in Slots(cap) /\ t[s].key = NoKey
         /\ \A r \in Slots(cap) : IsVirgin(t[r]) => Dist(k, s, cap) <= Dist(k, r, cap)
BY DEF VirginSlotFor, Nearest, IsVirgin

\* SlotFor of a key that has an entry is that entry.
LEMMA SlotForPresent ==
  ASSUME NEW k \in Keys, NEW cap \in Caps, NEW t, WellFormed(t, cap),
         k \in KeysOf(t), NEW s \in SlotFor(t, k, cap)
  PROVE  s \in Slots(cap) /\ t[s].key = k
<1>1. PICK r \in Slots(cap) : t[r].key = k
  BY KeysOfSlots DEF WellFormed
<1>2. Match(t, k, cap) = {r}
  BY <1>1, MatchFinds
<1> QED
  BY <1>1, <1>2 DEF SlotFor

-----------------------------------------------------------------------------
(* The four changes made to a table.                                       *)

\* A table with no entries is well formed.
LEMMA EmptyTableWellFormed ==
  ASSUME NEW cap \in Caps
  PROVE  /\ WellFormed(EmptyTable(cap), cap)
         /\ KeysOf(EmptyTable(cap)) = {}
BY DEF WellFormed, EmptyTable, Virgin, Entries, ProbeChain, UniqueKeys, KeysOf

\* An entry put where the search for its missing key ended.
LEMMA InsertWellFormed ==
  ASSUME NEW k \in Keys, NEW v \in Values, NEW cap \in Caps, NEW t, WellFormed(t, cap),
         k \notin KeysOf(t), NEW s \in Slots(cap), t[s].key = NoKey,
         \A r \in Slots(cap) : IsVirgin(t[r]) => Dist(k, s, cap) <= Dist(k, r, cap),
         NEW u \in [Slots(cap) -> Entries], u[s] = Live(k, v),
         \A r \in Slots(cap) : r # s => u[r] = t[r]
  PROVE  /\ WellFormed(u, cap)
         /\ KeysOf(u) = KeysOf(t) \cup {k}
<1>1. t \in [Slots(cap) -> Entries]
  BY DEF WellFormed
<1>3. u[s] = Live(k, v) /\ \A r \in Slots(cap) : r # s => u[r] = t[r]
  OBVIOUS
<1>4. k # NoKey /\ Live(k, v).key = k /\ Live(k, v).value = v /\ ~Live(k, v).deleted
  BY NoneAssumption DEF Live
<1>5. \A r \in Slots(cap) : t[r].key # k
  BY <1>1, KeysOfSlots
<1>6. \A r \in Slots(cap) : /\ u[r].deleted => u[r].key = NoKey
                            /\ u[r].key # NoKey => u[r].value \in Values
  BY <1>3, <1>4 DEF WellFormed
<1>7. ProbeChain(u, cap)
  <2> SUFFICES ASSUME NEW r \in Slots(cap), NEW q \in Slots(cap),
                      u[q].key # NoKey, IsVirgin(u[r])
               PROVE  Dist(u[q].key, q, cap) < Dist(u[q].key, r, cap)
    BY DEF ProbeChain
  <2>1. r # s /\ IsVirgin(t[r])
    BY <1>3, <1>4 DEF IsVirgin
  <2>2. CASE q = s
    <3>1. Dist(k, s, cap) <= Dist(k, r, cap)
      BY <2>1
    <3>2. Dist(k, s, cap) # Dist(k, r, cap)
      BY <2>1, ProbeVisitsEachSlotOnce
    <3>3. Dist(k, s, cap) \in Int /\ Dist(k, r, cap) \in Int
      BY ProbeVisitsEachSlotOnce DEF Slots
    <3> QED
      BY <1>3, <1>4, <2>2, <3>1, <3>2, <3>3
  <2>3. CASE q # s
    BY <1>3, <2>1, <2>3 DEF WellFormed, ProbeChain
  <2> QED
    BY <2>2, <2>3
<1>8. UniqueKeys(u, cap)
  BY <1>3, <1>4, <1>5 DEF WellFormed, UniqueKeys
<1>9. KeysOf(u) = KeysOf(t) \cup {k}
  <2>1. DOMAIN u = Slots(cap) /\ DOMAIN t = Slots(cap)
    BY <1>1
  <2> QED
    BY <1>3, <1>4, <2>1 DEF KeysOf
<1> QED
  BY <1>6, <1>7, <1>8, <1>9 DEF WellFormed

\* A new value for a key that has an entry.
LEMMA UpdateWellFormed ==
  ASSUME NEW cap \in Caps, NEW t, WellFormed(t, cap),
         NEW u \in [Slots(cap) -> Entries],
         \A r \in Slots(cap) : u[r].key = t[r].key /\ u[r].deleted = t[r].deleted,
         \A r \in Slots(cap) : u[r].value \in Values \/ u[r].value = t[r].value
  PROVE  /\ WellFormed(u, cap)
         /\ KeysOf(u) = KeysOf(t)
<1>1. t \in [Slots(cap) -> Entries]
  BY DEF WellFormed
<1>3. \A r \in Slots(cap) : u[r].key = t[r].key /\ u[r].deleted = t[r].deleted
  OBVIOUS
<1>4. KeysOf(u) = KeysOf(t)
  <2>1. DOMAIN u = Slots(cap) /\ DOMAIN t = Slots(cap)
    BY <1>1
  <2> QED
    BY <1>3, <2>1 DEF KeysOf
<1>5. \A r \in Slots(cap) : IsVirgin(u[r]) <=> IsVirgin(t[r])
  BY <1>3 DEF IsVirgin
<1>6. \A r \in Slots(cap) : /\ u[r].deleted => u[r].key = NoKey
                            /\ u[r].key # NoKey => u[r].value \in Values
  BY <1>3 DEF WellFormed
<1>7. ProbeChain(u, cap)
  BY <1>3, <1>5 DEF ProbeChain, WellFormed
<1>8. UniqueKeys(u, cap)
  BY <1>3 DEF UniqueKeys, WellFormed
<1> QED
  BY <1>4, <1>6, <1>7, <1>8 DEF WellFormed

\* A tombstone in the place of an entry.
LEMMA RemoveWellFormed ==
  ASSUME NEW cap \in Caps, NEW t, WellFormed(t, cap),
         NEW s \in Slots(cap), t[s].key # NoKey,
         NEW u \in [Slots(cap) -> Entries], u[s] = Tombstone,
         \A r \in Slots(cap) : r # s => u[r] = t[r]
  PROVE  /\ WellFormed(u, cap)
         /\ KeysOf(u) = KeysOf(t) \ {t[s].key}
<1>1. t \in [Slots(cap) -> Entries]
  BY DEF WellFormed
<1>3. u[s] = Tombstone /\ \A r \in Slots(cap) : r # s => u[r] = t[r]
  OBVIOUS
<1>4. Tombstone.key = NoKey /\ Tombstone.deleted
  BY DEF Tombstone
<1>5. \A r \in Slots(cap) : r # s => t[r].key # t[s].key
  BY DEF WellFormed, UniqueKeys
<1>6. KeysOf(u) = KeysOf(t) \ {t[s].key}
  <2>1. DOMAIN u = Slots(cap) /\ DOMAIN t = Slots(cap)
    BY <1>1
  <2> QED
    BY <1>3, <1>4, <1>5, <2>1 DEF KeysOf
<1>7. \A r \in Slots(cap) : /\ u[r].deleted => u[r].key = NoKey
                            /\ u[r].key # NoKey => u[r].value \in Values
  BY <1>3, <1>4 DEF WellFormed
<1>8. ProbeChain(u, cap)
  BY <1>3, <1>4 DEF ProbeChain, IsVirgin, WellFormed
<1>9. UniqueKeys(u, cap)
  BY <1>3, <1>4 DEF UniqueKeys, WellFormed
<1> QED
  BY <1>6, <1>7, <1>8, <1>9 DEF WellFormed

-----------------------------------------------------------------------------
(* What the changes do to the result of get.                               *)

\* Two tables that hold a key with one value, or both lack it.
LEMMA SameLookup ==
  ASSUME NEW k \in Keys,
         NEW cap \in Caps, NEW t \in [Slots(cap) -> Entries], WellFormed(t, cap),
         NEW cap2 \in Caps, NEW u \in [Slots(cap2) -> Entries], WellFormed(u, cap2),
         k \in KeysOf(u) => k \in KeysOf(t),
         \A s \in Slots(cap) : t[s].key = k =>
           \E r \in Slots(cap2) : u[r].key = k /\ u[r].value = t[s].value
  PROVE  Lookup(u, k, cap2) = Lookup(t, k, cap)
<1>1. CASE k \in KeysOf(t)
  <2>1. PICK s \in Slots(cap) : t[s].key = k
    BY <1>1, KeysOfSlots
  <2>2. PICK r \in Slots(cap2) : u[r].key = k /\ u[r].value = t[s].value
    BY <2>1
  <2>3. Lookup(t, k, cap) = t[s].value
    BY <2>1, LookupFinds
  <2>4. Lookup(u, k, cap2) = u[r].value
    BY <2>2, LookupFinds
  <2> QED
    BY <2>2, <2>3, <2>4
<1>2. CASE k \notin KeysOf(t)
  BY <1>2, LookupMissing
<1> QED
  BY <1>1, <1>2

\* A slot that was free or held k now holds k with value v.
LEMMA PutLookup ==
  ASSUME NEW cap \in Caps, NEW t \in [Slots(cap) -> Entries], WellFormed(t, cap),
         NEW u \in [Slots(cap) -> Entries], WellFormed(u, cap),
         NEW s \in Slots(cap), NEW k \in Keys, NEW v, u[s].key = k, u[s].value = v,
         t[s].key \in {k, NoKey}, \A r \in Slots(cap) : r # s => u[r] = t[r]
  PROVE  \A x \in Keys : Lookup(u, x, cap) = IF x = k THEN v ELSE Lookup(t, x, cap)
<1> SUFFICES ASSUME NEW x \in Keys
             PROVE  Lookup(u, x, cap) = IF x = k THEN v ELSE Lookup(t, x, cap)
  OBVIOUS
<1>1. CASE x = k
  BY <1>1, LookupFinds
<1>2. CASE x # k
  <2>1. t[s].key # x /\ u[s].key # x
    BY <1>2, NoneAssumption
  <2>2. x \in KeysOf(u) => x \in KeysOf(t)
    BY <2>1, KeysOfSlots
  <2>3. \A r \in Slots(cap) : t[r].key = x =>
          \E q \in Slots(cap) : u[q].key = x /\ u[q].value = t[r].value
    BY <2>1
  <2> QED
    BY <1>2, <2>2, <2>3, SameLookup
<1> QED
  BY <1>1, <1>2

\* The slot that held k now holds no key.
LEMMA DropLookup ==
  ASSUME NEW cap \in Caps, NEW t \in [Slots(cap) -> Entries], WellFormed(t, cap),
         NEW u \in [Slots(cap) -> Entries], WellFormed(u, cap),
         NEW s \in Slots(cap), NEW k \in Keys, t[s].key = k, u[s].key = NoKey,
         k \notin KeysOf(u), \A r \in Slots(cap) : r # s => u[r] = t[r]
  PROVE  \A x \in Keys : Lookup(u, x, cap) = IF x = k THEN NoValue ELSE Lookup(t, x, cap)
<1> SUFFICES ASSUME NEW x \in Keys
             PROVE  Lookup(u, x, cap) = IF x = k THEN NoValue ELSE Lookup(t, x, cap)
  OBVIOUS
<1>1. CASE x = k
  BY <1>1, LookupMissing
<1>2. CASE x # k
  <2>1. t[s].key # x /\ u[s].key # x
    BY <1>2, NoneAssumption
  <2>2. x \in KeysOf(u) => x \in KeysOf(t)
    BY <2>1, KeysOfSlots
  <2>3. \A r \in Slots(cap) : t[r].key = x =>
          \E q \in Slots(cap) : u[q].key = x /\ u[q].value = t[r].value
    BY <2>1
  <2> QED
    BY <1>2, <2>2, <2>3, SameLookup
<1> QED
  BY <1>1, <1>2

-----------------------------------------------------------------------------
(* The map.                                                                *)

\* Every capacity there can be is one that probing works on.
LEMMA Capacities ==
  ASSUME TypeOK
  PROVE  /\ capacity \in Caps /\ 2 * capacity \in Caps /\ 4 * capacity \in Caps
         /\ capacity >= 4
BY CapacityAssumption DEF TypeOK, Caps

\* NoKey is no key.
LEMMA KeysAreReal == \A k \in Keys : k # NoKey
BY NoneAssumption

\* A request is pending or there is none: no key is NoKey.
LEMMA Requests ==
  ASSUME TypeOK
  PROVE  ~Idle => request.key \in Keys /\ request.value \in Values
BY DEF TypeOK, Idle, NoRequest

\* There is always a slot for set to fill, in the table and in the one that
\* resize builds.
LEMMA RoomForAKey ==
  ASSUME Inv
  PROVE  /\ Cardinality(KeysOf(table)) < capacity
         /\ ~Idle => /\ IsFiniteSet(KeysOf(fresh))
                     /\ Cardinality(KeysOf(fresh)) < 2 * capacity
<1>1. size \in Nat /\ capacity \in Nat /\ capacity >= 4
  BY Capacities DEF Inv, TypeOK
<1>2. Cardinality(KeysOf(table)) < capacity
  BY <1>1 DEF Inv, LoadBounded, SizeCountsKeys
<1>3. ASSUME ~Idle
      PROVE  /\ IsFiniteSet(KeysOf(fresh))
             /\ Cardinality(KeysOf(fresh)) < 2 * capacity
  <2>1. KeysOf(fresh) \subseteq KeysOf(table)
    <3> SUFFICES ASSUME NEW j \in Slots(2 * capacity), fresh[j].key # NoKey
                 PROVE  fresh[j].key \in KeysOf(table)
      BY DEF KeysOf, Inv, TypeOK
    <3>1. PICK i \in 0 .. next - 1 : fresh[j] = Live(table[i].key, table[i].value)
      BY <1>3 DEF Inv, RehashCopies
    <3>2. i \in Slots(capacity) /\ fresh[j].key = table[i].key
      BY <3>1, <1>1 DEF Inv, TypeOK, Slots, Live
    <3> QED
      BY <3>2 DEF KeysOf, Inv, TypeOK
  <2>2. IsFiniteSet(KeysOf(fresh)) /\ Cardinality(KeysOf(fresh)) <= Cardinality(KeysOf(table))
    BY <2>1, FS_Subset DEF Inv
  <2>3. Cardinality(KeysOf(fresh)) \in Nat
    BY <2>2, FS_CardinalityType
  <2> QED
    BY <1>1, <1>2, <2>2, <2>3 DEF Inv, SizeCountsKeys
<1> QED
  BY <1>2, <1>3

-----------------------------------------------------------------------------
(* The invariant is inductive: one lemma for each operation.               *)

\* The constructor establishes the invariant.
LEMMA InitInv == Init => Inv
<1> SUFFICES ASSUME Init PROVE Inv
  OBVIOUS
<1>1. InitCapacity \in Caps /\ 2 * InitCapacity \in Caps /\ InitCapacity \in Nat
  BY CapacityAssumption DEF Caps
<1>2. WellFormed(table, capacity) /\ KeysOf(table) = {}
  BY <1>1, EmptyTableWellFormed DEF Init
<1>3. WellFormed(fresh, 2 * capacity)
  BY <1>1, EmptyTableWellFormed DEF Init
<1>4. TypeOK
  <2>1. reply \in Replies
    BY DEF Init, Reply, Replies
  <2> QED
    BY <1>1, <1>2, <1>3, <2>1 DEF Init, TypeOK, WellFormed, NoRequest
<1>5. IsFiniteSet(KeysOf(table)) /\ SizeCountsKeys
  BY <1>2, FS_EmptySet DEF Init, SizeCountsKeys
<1>6. Idle /\ LoadBounded
  BY <1>1 DEF Init, Idle, LoadBounded
<1> QED
  BY <1>2, <1>3, <1>4, <1>5, <1>6 DEF Inv, RehashCopies

\* A step that changes nothing of the map but the reply.
LEMMA ReplyInv ==
  ASSUME Inv, reply' \in Replies, UNCHANGED <<capacity, size, table, request, fresh, next>>
  PROVE  Inv'
BY DEF Inv, TypeOK, SizeCountsKeys, LoadBounded, RehashCopies, Idle, NoRequest

\* What is stored is a value; what get returns, a value or none.
LEMMA LookupType ==
  ASSUME NEW k \in Keys, Inv
  PROVE  Lookup(table, k, capacity) \in Values \cup {NoValue}
<1>1. table \in [Slots(capacity) -> Entries] /\ WellFormed(table, capacity) /\ capacity \in Caps
  BY Capacities DEF Inv, TypeOK
<1>2. CASE k \in KeysOf(table)
  <2>1. PICK s \in Slots(capacity) : table[s].key = k
    BY <1>1, <1>2, KeysOfSlots
  <2>2. Lookup(table, k, capacity) = table[s].value
    BY <1>1, <2>1, LookupFinds
  <2> QED
    BY <1>1, <2>2 DEF Entries
<1>3. CASE k \notin KeysOf(table)
  BY <1>1, <1>3, LookupMissing
<1> QED
  BY <1>2, <1>3

\* get preserves it.
LEMMA GetInv ==
  ASSUME Inv, NEW k \in Keys, Get(k)
  PROVE  Inv'
<1>1. reply' \in Replies
  BY LookupType DEF Get, Reply, Replies
<1> QED
  BY <1>1, ReplyInv DEF Get

\* So does remove of a key that is not there.
LEMMA RemoveMissingInv ==
  ASSUME Inv, NEW k \in Keys, RemoveMissing(k)
  PROVE  Inv'
<1>1. reply' \in Replies
  BY DEF RemoveMissing, Reply, Replies
<1> QED
  BY <1>1, ReplyInv DEF RemoveMissing

\* The key of the slot that set chose is the one it looked for, or NoKey.
LEMMA SlotForKeys ==
  ASSUME Inv, NEW k \in Keys, NEW s \in SlotFor(table, k, capacity)
  PROVE  /\ s \in Slots(capacity)
         /\ table[s].key # NoKey => table[s].key = k
         /\ table[s].key = NoKey =>
              /\ k \notin KeysOf(table)
              /\ \A r \in Slots(capacity) : IsVirgin(table[r]) =>
                   Dist(k, s, capacity) <= Dist(k, r, capacity)
<1>1. table \in [Slots(capacity) -> Entries] /\ WellFormed(table, capacity) /\ capacity \in Caps
  BY Capacities DEF Inv, TypeOK
<1>2. CASE k \in KeysOf(table)
  BY <1>1, <1>2, SlotForPresent, KeysAreReal
<1>3. CASE k \notin KeysOf(table)
  BY <1>1, <1>3, SlotForMissing
<1> QED
  BY <1>2, <1>3

\* And set of a key that is there.
LEMMA SetExistingInv ==
  ASSUME Inv, NEW k \in Keys, NEW v \in Values, SetExisting(k, v)
  PROVE  Inv'
<1>1. PICK s \in SlotFor(table, k, capacity) :
        table[s].key # NoKey /\ table' = [table EXCEPT ![s].value = v]
  BY DEF SetExisting
<1>2. capacity \in Caps /\ s \in Slots(capacity)
  BY Capacities, SlotForKeys DEF Inv
<1>3. WellFormed(table', capacity) /\ KeysOf(table') = KeysOf(table)
  <2>1. table \in [Slots(capacity) -> Entries] /\ WellFormed(table, capacity)
    BY DEF Inv, TypeOK
  <2>2. /\ table' \in [Slots(capacity) -> Entries]
        /\ \A r \in Slots(capacity) : /\ table'[r].key = table[r].key
                                      /\ table'[r].deleted = table[r].deleted
        /\ \A r \in Slots(capacity) : \/ table'[r].value \in Values
                                      \/ table'[r].value = table[r].value
    BY <1>1, <1>2, <2>1 DEF Entries
  <2> QED
    BY <1>2, <2>1, <2>2, UpdateWellFormed
<1>4. reply' \in Replies
  BY DEF SetExisting, Reply, Replies
<1>5. UNCHANGED <<capacity, size, request, fresh, next>> /\ Idle
  BY DEF SetExisting
<1>6. TypeOK'
  BY <1>3, <1>4, <1>5 DEF Inv, TypeOK, WellFormed, NoRequest
<1> QED
  BY <1>3, <1>5, <1>6 DEF Inv, SizeCountsKeys, LoadBounded, RehashCopies, Idle, NoRequest

\* And set of a new key while no resize is due.
LEMMA SetNewInv ==
  ASSUME Inv, NEW k \in Keys, NEW v \in Values, SetNew(k, v)
  PROVE  Inv'
<1>1. PICK s \in SlotFor(table, k, capacity) :
        table[s].key = NoKey /\ ~NeedsResize /\ table' = [table EXCEPT ![s] = Live(k, v)]
  BY DEF SetNew
<1>2. /\ capacity \in Caps /\ s \in Slots(capacity) /\ k \notin KeysOf(table)
      /\ \A r \in Slots(capacity) : IsVirgin(table[r]) =>
           Dist(k, s, capacity) <= Dist(k, r, capacity)
  BY <1>1, Capacities, SlotForKeys DEF Inv
<1>3. WellFormed(table', capacity) /\ KeysOf(table') = KeysOf(table) \cup {k}
  <2>1. table \in [Slots(capacity) -> Entries] /\ WellFormed(table, capacity)
    BY DEF Inv, TypeOK
  <2>2. /\ table' \in [Slots(capacity) -> Entries] /\ table'[s] = Live(k, v)
        /\ \A r \in Slots(capacity) : r # s => table'[r] = table[r]
    BY <1>1, <1>2, <2>1 DEF Entries, Live
  <2>3. table[s].key = NoKey
    BY <1>1
  <2> QED
    BY <1>2, <2>1, <2>2, <2>3, InsertWellFormed
<1>4. reply' \in Replies
  BY DEF SetNew, Reply, Replies
<1>5. UNCHANGED <<capacity, request, fresh, next>> /\ Idle /\ size' = size + 1
  BY DEF SetNew
<1>6. TypeOK'
  BY <1>3, <1>4, <1>5 DEF Inv, TypeOK, WellFormed, NoRequest
<1>7. IsFiniteSet(KeysOf(table')) /\ size' = Cardinality(KeysOf(table'))
  BY <1>2, <1>3, <1>5, FS_AddElement DEF Inv, SizeCountsKeys
<1>8. LoadBounded'
  BY <1>1, <1>5 DEF Inv, TypeOK, LoadBounded, NeedsResize
<1> QED
  BY <1>3, <1>5, <1>6, <1>7, <1>8 DEF Inv, SizeCountsKeys, RehashCopies, Idle, NoRequest

\* And the beginning of resize.
LEMMA StartResizeInv ==
  ASSUME Inv, NEW k \in Keys, NEW v \in Values, StartResize(k, v)
  PROVE  Inv'
<1>1. k \notin KeysOf(table)
  BY SlotForKeys DEF StartResize
<1>2. capacity \in Caps /\ 2 * capacity \in Caps
  BY Capacities DEF Inv
<1>3. /\ UNCHANGED <<capacity, size, table, reply>> /\ next' = 0
      /\ request' = [key |-> k, value |-> v] /\ fresh' = EmptyTable(2 * capacity)
  BY DEF StartResize
<1>4. WellFormed(fresh', 2 * capacity)
  BY <1>2, <1>3, EmptyTableWellFormed
<1>5. TypeOK'
  BY <1>2, <1>3, <1>4 DEF Inv, TypeOK, WellFormed, NoRequest, Caps
<1>6. RehashCopies'
  <2>1. \A j \in Slots(2 * capacity) : fresh'[j] = Virgin
    BY <1>3 DEF EmptyTable
  <2> QED
    BY <1>1, <1>3, <2>1 DEF RehashCopies, Virgin
<1> QED
  BY <1>3, <1>4, <1>5, <1>6 DEF Inv, SizeCountsKeys, LoadBounded

\* The slot that resize copies the next entry to, and the table it leaves.
LEMMA RehashInserts ==
  ASSUME Inv, Rehash, table[next].key # NoKey
  PROVE  \E s \in Slots(2 * capacity) :
           /\ fresh[s].key = NoKey
           /\ fresh' \in [Slots(2 * capacity) -> Entries]
           /\ fresh'[s] = Live(table[next].key, table[next].value)
           /\ \A r \in Slots(2 * capacity) : r # s => fresh'[r] = fresh[r]
           /\ WellFormed(fresh', 2 * capacity)
<1> DEFINE k == table[next].key
           v == table[next].value
<1>1. /\ capacity \in Caps /\ 2 * capacity \in Caps
      /\ table \in [Slots(capacity) -> Entries] /\ fresh \in [Slots(2 * capacity) -> Entries]
      /\ WellFormed(table, capacity) /\ WellFormed(fresh, 2 * capacity)
  BY Capacities DEF Inv, TypeOK
<1>2. next \in Slots(capacity) /\ ~Idle
  BY DEF Rehash, Inv, TypeOK, Slots
<1>3. table[next] \in Entries /\ k \in Keys /\ v \in Values
  BY <1>1, <1>2 DEF Entries, WellFormed
<1>4. PICK s \in VirginSlotFor(fresh, k, 2 * capacity) :
        fresh' = [fresh EXCEPT ![s] = Live(k, v)]
  BY DEF Rehash
<1>5. /\ s \in Slots(2 * capacity) /\ fresh[s].key = NoKey
      /\ \A r \in Slots(2 * capacity) : IsVirgin(fresh[r]) =>
           Dist(k, s, 2 * capacity) <= Dist(k, r, 2 * capacity)
  BY <1>1, <1>3, VirginSlotForFree
<1>6. k \notin KeysOf(fresh)
  <2> SUFFICES ASSUME NEW j \in Slots(2 * capacity), fresh[j].key = k
               PROVE  FALSE
    BY <1>1, <1>3, KeysOfSlots
  <2>1. PICK i \in 0 .. next - 1 : fresh[j] = Live(table[i].key, table[i].value)
    BY <1>2 DEF Inv, RehashCopies
  <2>2. i \in Slots(capacity) /\ i # next /\ table[i].key = k
    BY <1>1, <1>2, <2>1 DEF Slots, Caps, Live
  <2> QED
    BY <1>1, <1>2, <2>2 DEF WellFormed, UniqueKeys
<1>7. /\ fresh' \in [Slots(2 * capacity) -> Entries] /\ fresh'[s] = Live(k, v)
      /\ \A r \in Slots(2 * capacity) : r # s => fresh'[r] = fresh[r]
  BY <1>1, <1>3, <1>4, <1>5 DEF Entries, Live
<1>8. WellFormed(fresh', 2 * capacity)
  <2> HIDE DEF k, v
  <2> QED BY <1>1, <1>3, <1>5, <1>6, <1>7, InsertWellFormed
<1> QED
  BY <1>5, <1>7, <1>8

\* And every iteration of resize.
LEMMA RehashInv ==
  ASSUME Inv, Rehash
  PROVE  Inv'
<1>1. /\ UNCHANGED <<capacity, size, table, request, reply>>
      /\ ~Idle /\ next' = next + 1 /\ next \in Slots(capacity)
      /\ capacity \in Nat /\ next \in Nat
  BY DEF Rehash, Inv, TypeOK, Slots
<1>2. /\ fresh \in [Slots(2 * capacity) -> Entries] /\ WellFormed(fresh, 2 * capacity)
      /\ table \in [Slots(capacity) -> Entries]
  BY DEF Inv, TypeOK
<1>3. /\ request.key \notin KeysOf(table)
      /\ \A j \in Slots(2 * capacity) : ~fresh[j].deleted
  BY <1>1 DEF Inv, RehashCopies
<1>4. /\ \A i \in 0 .. next - 1 : table[i].key # NoKey =>
           \E j \in Slots(2 * capacity) : fresh[j] = Live(table[i].key, table[i].value)
      /\ \A j \in Slots(2 * capacity) : fresh[j].key # NoKey =>
           \E i \in 0 .. next - 1 : fresh[j] = Live(table[i].key, table[i].value)
  BY <1>1 DEF Inv, RehashCopies
<1>5. 0 .. next' - 1 = (0 .. next - 1) \cup {next}
  BY <1>1
<1>6. /\ fresh' \in [Slots(2 * capacity) -> Entries] /\ WellFormed(fresh', 2 * capacity)
      /\ \A j \in Slots(2 * capacity) : ~fresh'[j].deleted
      /\ \A i \in 0 .. next' - 1 : table[i].key # NoKey =>
           \E j \in Slots(2 * capacity) : fresh'[j] = Live(table[i].key, table[i].value)
      /\ \A j \in Slots(2 * capacity) : fresh'[j].key # NoKey =>
           \E i \in 0 .. next' - 1 : fresh'[j] = Live(table[i].key, table[i].value)
  <2>1. CASE table[next].key = NoKey
    <3>1. fresh' = fresh
      BY <2>1 DEF Rehash
    <3> QED
      BY <1>2, <1>3, <1>4, <1>5, <2>1, <3>1
  <2>2. CASE table[next].key # NoKey
    <3>1. PICK s \in Slots(2 * capacity) :
           /\ fresh[s].key = NoKey
           /\ fresh' \in [Slots(2 * capacity) -> Entries]
           /\ fresh'[s] = Live(table[next].key, table[next].value)
           /\ \A r \in Slots(2 * capacity) : r # s => fresh'[r] = fresh[r]
           /\ WellFormed(fresh', 2 * capacity)
      BY <2>2, RehashInserts
    <3>2. \A j \in Slots(2 * capacity) : ~fresh'[j].deleted
      BY <1>3, <3>1 DEF Live
    <3>3. ASSUME NEW i \in 0 .. next' - 1, table[i].key # NoKey
          PROVE  \E j \in Slots(2 * capacity) : fresh'[j] = Live(table[i].key, table[i].value)
      <4>1. CASE i = next
        BY <3>1, <4>1
      <4>2. CASE i # next
        <5>1. PICK j \in Slots(2 * capacity) : fresh[j] = Live(table[i].key, table[i].value)
          BY <1>4, <1>5, <3>3, <4>2
        <5>2. fresh[j].key # NoKey
          BY <3>3, <5>1 DEF Live
        <5> QED
          BY <3>1, <5>1, <5>2
      <4> QED
        BY <4>1, <4>2
    <3>4. ASSUME NEW j \in Slots(2 * capacity), fresh'[j].key # NoKey
          PROVE  \E i \in 0 .. next' - 1 : fresh'[j] = Live(table[i].key, table[i].value)
      <4>1. CASE j = s
        BY <1>5, <3>1, <4>1
      <4>2. CASE j # s
        BY <1>4, <1>5, <3>1, <3>4, <4>2
      <4> QED
        BY <4>1, <4>2
    <3> QED
      BY <3>1, <3>2, <3>3, <3>4
  <2> QED
    BY <2>1, <2>2
<1>7. TypeOK'
  <2>1. next' \in 0 .. capacity
    BY <1>1 DEF Slots
  <2> QED
    BY <1>1, <1>6, <2>1 DEF Inv, TypeOK, NoRequest
<1>8. RehashCopies'
  BY <1>1, <1>3, <1>6 DEF RehashCopies
<1> QED
  BY <1>1, <1>6, <1>7, <1>8 DEF Inv, SizeCountsKeys, LoadBounded

\* When resize returns, the new table holds the keys of the old one, each
\* with its value.
LEMMA ResizeDone ==
  ASSUME Inv, ~Idle, next = capacity
  PROVE  /\ KeysOf(fresh) = KeysOf(table)
         /\ \A i \in Slots(capacity) : table[i].key # NoKey =>
              \E j \in Slots(2 * capacity) : fresh[j] = Live(table[i].key, table[i].value)
<1>1. /\ table \in [Slots(capacity) -> Entries]
      /\ fresh \in [Slots(2 * capacity) -> Entries]
  BY DEF Inv, TypeOK
<1>2. 0 .. next - 1 = Slots(capacity)
  BY DEF Slots
<1>3. /\ \A i \in Slots(capacity) : table[i].key # NoKey =>
           \E j \in Slots(2 * capacity) : fresh[j] = Live(table[i].key, table[i].value)
      /\ \A j \in Slots(2 * capacity) : fresh[j].key # NoKey =>
           \E i \in Slots(capacity) : fresh[j] = Live(table[i].key, table[i].value)
  BY <1>2 DEF Inv, RehashCopies
<1>4. KeysOf(fresh) \subseteq KeysOf(table)
  BY <1>1, <1>3 DEF KeysOf, Live
<1>5. KeysOf(table) \subseteq KeysOf(fresh)
  <2> SUFFICES ASSUME NEW i \in Slots(capacity), table[i].key # NoKey
               PROVE  table[i].key \in KeysOf(fresh)
    BY <1>1 DEF KeysOf
  <2>1. PICK j \in Slots(2 * capacity) : fresh[j] = Live(table[i].key, table[i].value)
    BY <1>3
  <2>2. fresh[j].key = table[i].key
    BY <2>1 DEF Live
  <2> QED
    BY <1>1, <2>2 DEF KeysOf
<1> QED
  BY <1>3, <1>4, <1>5


\* The table that the resizing set leaves.
LEMMA FinishInserts ==
  ASSUME Inv, FinishSet
  PROVE  \E s \in Slots(2 * capacity) :
           /\ fresh[s].key = NoKey
           /\ table' \in [Slots(2 * capacity) -> Entries]
           /\ table'[s] = Live(request.key, request.value)
           /\ \A r \in Slots(2 * capacity) : r # s => table'[r] = fresh[r]
           /\ WellFormed(table', 2 * capacity)
           /\ KeysOf(table') = KeysOf(table) \cup {request.key}
<1> DEFINE k == request.key
           v == request.value
<1>1. /\ 2 * capacity \in Caps
      /\ fresh \in [Slots(2 * capacity) -> Entries] /\ WellFormed(fresh, 2 * capacity)
  BY Capacities DEF Inv, TypeOK
<1>2. ~Idle /\ next = capacity /\ k \in Keys /\ v \in Values
  BY Requests DEF FinishSet, Inv
<1>3. KeysOf(fresh) = KeysOf(table) /\ k \notin KeysOf(fresh)
  BY <1>2, ResizeDone DEF Inv, RehashCopies
<1>4. PICK s \in SlotFor(fresh, k, 2 * capacity) : table' = [fresh EXCEPT ![s] = Live(k, v)]
  BY DEF FinishSet
<1>5. /\ s \in Slots(2 * capacity) /\ fresh[s].key = NoKey
      /\ \A r \in Slots(2 * capacity) : IsVirgin(fresh[r]) =>
           Dist(k, s, 2 * capacity) <= Dist(k, r, 2 * capacity)
  BY <1>1, <1>2, <1>3, SlotForMissing
<1>6. /\ table' \in [Slots(2 * capacity) -> Entries] /\ table'[s] = Live(k, v)
      /\ \A r \in Slots(2 * capacity) : r # s => table'[r] = fresh[r]
  BY <1>1, <1>2, <1>4, <1>5 DEF Entries, Live
<1>7. WellFormed(table', 2 * capacity) /\ KeysOf(table') = KeysOf(fresh) \cup {k}
  <2> HIDE DEF k, v
  <2> QED BY <1>1, <1>2, <1>3, <1>5, <1>6, InsertWellFormed
<1> QED
  BY <1>3, <1>5, <1>6, <1>7

\* And the rest of the set that had to resize.
LEMMA FinishSetInv ==
  ASSUME Inv, FinishSet
  PROVE  Inv'
<1>1. /\ capacity' = 2 * capacity /\ size' = size + 1 /\ request' = NoRequest
      /\ fresh' = EmptyTable(4 * capacity) /\ next' = 0 /\ ~Idle
      /\ reply' = Reply("set", request.key, request.value, OK)
  BY DEF FinishSet
<1>2. /\ capacity \in Caps /\ 2 * capacity \in Caps /\ 4 * capacity \in Caps
      /\ 2 * capacity' = 4 * capacity
  BY <1>1, Capacities DEF Inv, Caps
<1>3. /\ table' \in [Slots(2 * capacity) -> Entries]
      /\ WellFormed(table', 2 * capacity)
      /\ KeysOf(table') = KeysOf(table) \cup {request.key}
  BY FinishInserts
<1>4. WellFormed(fresh', 4 * capacity)
  BY <1>1, <1>2, EmptyTableWellFormed
<1>5. IsFiniteSet(KeysOf(table')) /\ size' = Cardinality(KeysOf(table'))
  <2>1. request.key \notin KeysOf(table)
    BY <1>1 DEF Inv, RehashCopies
  <2> QED
    BY <1>1, <1>3, <2>1, FS_AddElement DEF Inv, SizeCountsKeys
<1>6. reply' \in Replies
  BY <1>1, Requests DEF Reply, Replies, Inv
<1>7. TypeOK'
  <2>1. fresh' \in [Slots(4 * capacity) -> Entries]
    BY <1>4 DEF WellFormed
  <2>2. capacity' \in Nat /\ capacity' >= InitCapacity /\ size' \in Nat /\ next' \in 0 .. capacity'
    BY <1>1, CapacityAssumption DEF Inv, TypeOK
  <2> QED
    BY <1>1, <1>2, <1>3, <1>6, <2>1, <2>2 DEF TypeOK, NoRequest
<1>8. LoadBounded'
  BY <1>1, Capacities DEF Inv, TypeOK, LoadBounded
<1>9. RehashCopies'
  BY <1>1 DEF RehashCopies, Idle, NoRequest
<1> QED
  BY <1>1, <1>2, <1>3, <1>4, <1>5, <1>7, <1>8, <1>9 DEF Inv, SizeCountsKeys

\* The table that remove leaves.
LEMMA RemoveMarks ==
  ASSUME Inv, NEW k \in Keys, Remove(k)
  PROVE  \E s \in Slots(capacity) :
           /\ table[s].key = k
           /\ table' \in [Slots(capacity) -> Entries]
           /\ table'[s] = Tombstone
           /\ \A r \in Slots(capacity) : r # s => table'[r] = table[r]
           /\ WellFormed(table', capacity)
           /\ KeysOf(table') = KeysOf(table) \ {k}
<1>1. /\ capacity \in Caps
      /\ table \in [Slots(capacity) -> Entries] /\ WellFormed(table, capacity)
  BY Capacities DEF Inv, TypeOK
<1>2. PICK s \in Match(table, k, capacity) : table' = [table EXCEPT ![s] = Tombstone]
  BY DEF Remove
<1>3. s \in Slots(capacity) /\ table[s].key = k /\ k # NoKey
  BY MatchHolds, KeysAreReal
<1>4. /\ table' \in [Slots(capacity) -> Entries] /\ table'[s] = Tombstone
      /\ \A r \in Slots(capacity) : r # s => table'[r] = table[r]
  BY <1>1, <1>2, <1>3 DEF Entries, Tombstone
<1>5. WellFormed(table', capacity) /\ KeysOf(table') = KeysOf(table) \ {table[s].key}
  BY <1>1, <1>3, <1>4, RemoveWellFormed
<1> QED
  BY <1>3, <1>4, <1>5

\* And remove, although it leaves a tombstone.
LEMMA RemoveInv ==
  ASSUME Inv, NEW k \in Keys, Remove(k)
  PROVE  Inv'
<1>1. /\ UNCHANGED <<capacity, request, fresh, next>> /\ size' = size - 1 /\ Idle
      /\ reply' = Reply("del", k, NoValue, OK)
  BY DEF Remove
<1>2. /\ table' \in [Slots(capacity) -> Entries]
      /\ WellFormed(table', capacity)
      /\ KeysOf(table') = KeysOf(table) \ {k} /\ k \in KeysOf(table)
  BY RemoveMarks, KeysOfSlots DEF Inv, TypeOK
<1>3. IsFiniteSet(KeysOf(table')) /\ size' = Cardinality(KeysOf(table'))
  BY <1>1, <1>2, FS_RemoveElement DEF Inv, SizeCountsKeys
<1>4. size' \in Nat
  BY <1>3, FS_CardinalityType
<1>5. TypeOK'
  <2>1. reply' \in Replies
    BY <1>1 DEF Reply, Replies
  <2> QED
    BY <1>1, <1>2, <1>4, <2>1 DEF Inv, TypeOK, NoRequest
<1>6. LoadBounded'
  BY <1>1 DEF Inv, TypeOK, LoadBounded
<1> QED
  BY <1>1, <1>2, <1>3, <1>5, <1>6 DEF Inv, SizeCountsKeys, RehashCopies, Idle, NoRequest

\* And clear.
LEMMA ClearInv ==
  ASSUME Inv, Clear
  PROVE  Inv'
<1>1. /\ UNCHANGED <<capacity, request, fresh, next>> /\ size' = 0 /\ Idle
      /\ table' = EmptyTable(capacity) /\ reply' = Reply("flush", NoKey, NoValue, OK)
  BY DEF Clear
<1>2. WellFormed(table', capacity) /\ KeysOf(table') = {}
  BY <1>1, Capacities, EmptyTableWellFormed DEF Inv
<1>3. IsFiniteSet(KeysOf(table')) /\ size' = Cardinality(KeysOf(table'))
  BY <1>1, <1>2, FS_EmptySet
<1>4. TypeOK'
  <2>1. reply' \in Replies
    BY <1>1 DEF Reply, Replies
  <2> QED
    BY <1>1, <1>2, <2>1 DEF Inv, TypeOK, WellFormed, NoRequest
<1>5. LoadBounded'
  BY <1>1 DEF Inv, TypeOK, LoadBounded
<1> QED
  BY <1>1, <1>2, <1>3, <1>4, <1>5 DEF Inv, SizeCountsKeys, RehashCopies, Idle, NoRequest

\* The invariant is inductive.
LEMMA NextInv == Inv /\ [Next]_vars => Inv'
<1> SUFFICES ASSUME Inv, [Next]_vars PROVE Inv'
  OBVIOUS
<1>1. CASE UNCHANGED vars
  <2>1. reply' \in Replies /\ UNCHANGED <<capacity, size, table, request, fresh, next>>
    BY <1>1 DEF Inv, TypeOK, vars
  <2> QED
    BY <2>1, ReplyInv
<1>2. ASSUME NEW k \in Keys, Get(k) \/ Remove(k) \/ RemoveMissing(k)
      PROVE  Inv'
  BY <1>2, GetInv, RemoveInv, RemoveMissingInv
<1>3. ASSUME NEW k \in Keys, NEW v \in Values, Set(k, v)
      PROVE  Inv'
  BY <1>3, SetExistingInv, SetNewInv, StartResizeInv DEF Set
<1>4. CASE Rehash
  BY <1>4, RehashInv
<1>5. CASE FinishSet
  BY <1>5, FinishSetInv
<1>6. CASE Clear
  BY <1>6, ClearInv
<1> QED
  BY <1>1, <1>2, <1>3, <1>4, <1>5, <1>6 DEF Next

-----------------------------------------------------------------------------
(* The theorems.                                                           *)

\* The inductive invariant holds at all times.
THEOREM Invariance == Spec => []Inv
BY InitInv, NextInv, PTL DEF Spec

\* Type correctness of the map.
THEOREM TypeCorrect == Spec => []TypeOK
<1>1. Inv => TypeOK
  BY DEF Inv
<1> QED
  BY <1>1, Invariance, PTL

\* No deletion and no resize puts an entry out of the reach of its search.
THEOREM AlwaysSearchable == Spec => []Searchable
<1>1. Inv => Searchable
  BY DEF Inv, WellFormed, Searchable
<1> QED
  BY <1>1, Invariance, PTL

\* No key ever has two entries.
THEOREM NeverDuplicates == Spec => []NoDuplicates
<1>1. Inv => NoDuplicates
  BY DEF Inv, WellFormed, NoDuplicates
<1> QED
  BY <1>1, Invariance, PTL

\* m_size is the number of keys in the table.
THEOREM SizeIsKeyCount == Spec => []SizeCountsKeys
<1>1. Inv => SizeCountsKeys
  BY DEF Inv
<1> QED
  BY <1>1, Invariance, PTL

\* The entries set and resize write to are never null, for every hash function.
THEOREM NeverNull == Spec => []SlotAlwaysFound
<1>1. Inv => SlotAlwaysFound
  <2> SUFFICES ASSUME Inv PROVE SlotAlwaysFound
    OBVIOUS
  <2>1. /\ capacity \in Caps /\ 2 * capacity \in Caps
        /\ WellFormed(table, capacity) /\ WellFormed(fresh, 2 * capacity)
        /\ IsFiniteSet(KeysOf(table)) /\ table \in [Slots(capacity) -> Entries]
    BY Capacities DEF Inv, TypeOK
  <2>2. ASSUME NEW k \in Keys
        PROVE  SlotFor(table, k, capacity) # {}
    BY <2>1, RoomForAKey, SlotForExists
  <2>3. ASSUME ~Idle, next < capacity, table[next].key # NoKey
        PROVE  VirginSlotFor(fresh, table[next].key, 2 * capacity) # {}
    <3>1. table[next].key \in Keys
      BY <2>1, <2>3 DEF Inv, TypeOK, Slots, Entries
    <3>2. \A s \in Slots(2 * capacity) : ~fresh[s].deleted
      BY <2>3 DEF Inv, RehashCopies
    <3> QED
      BY <2>1, <2>3, <3>1, <3>2, RoomForAKey, VirginSlotForExists
  <2>4. ASSUME ~Idle, next = capacity
        PROVE  SlotFor(fresh, request.key, 2 * capacity) # {}
    <3>1. request.key \in Keys
      BY <2>4, Requests DEF Inv
    <3> QED
      BY <2>1, <2>4, <3>1, RoomForAKey, SlotForExists
  <2> QED
    BY <2>2, <2>3, <2>4 DEF SlotAlwaysFound
<1> QED
  BY <1>1, Invariance, PTL

\* A resize loses no entry, adds none and mixes up no values.
THEOREM ResizeCopies == Spec => []RehashCopies
<1>1. Inv => RehashCopies
  BY DEF Inv
<1> QED
  BY <1>1, Invariance, PTL


-----------------------------------------------------------------------------
(* The map implements the dictionary.                                      *)


\* Steps of the map as steps of the dictionary: a resize in progress and the
\* step that starts it are invisible.
LEMMA GetRefines ==
  ASSUME Inv, NEW k \in Keys, Get(k)
  PROVE  Dict!Get(k)
BY DEF Get, Dict!Get, Dict!Reply, Reply, Contents

\* set of a key that is there is Set of the dictionary.
LEMMA SetExistingRefines ==
  ASSUME Inv, Inv', NEW k \in Keys, NEW v \in Values, SetExisting(k, v)
  PROVE  Dict!Set(k, v)
<1>1. /\ capacity \in Caps /\ table \in [Slots(capacity) -> Entries]
      /\ WellFormed(table, capacity)
  BY Capacities DEF Inv, TypeOK
<1>2. capacity' = capacity /\ reply' = Reply("set", k, v, OK)
  BY DEF SetExisting
<1>3. table' \in [Slots(capacity) -> Entries] /\ WellFormed(table', capacity)
  BY <1>2 DEF Inv, TypeOK
<1>4. PICK s \in SlotFor(table, k, capacity) :
        table[s].key # NoKey /\ table' = [table EXCEPT ![s].value = v]
  BY DEF SetExisting
<1>5. s \in Slots(capacity) /\ table[s].key = k
  BY <1>4, SlotForKeys
<1>6. /\ table'[s].key = k /\ table'[s].value = v
      /\ \A r \in Slots(capacity) : r # s => table'[r] = table[r]
  BY <1>1, <1>4, <1>5 DEF Entries
<1>7. \A x \in Keys : Lookup(table', x, capacity)
                      = IF x = k THEN v ELSE Lookup(table, x, capacity)
  BY <1>1, <1>3, <1>5, <1>6, PutLookup
<1>8. Contents' = [Contents EXCEPT ![k] = v]
  BY <1>2, <1>7 DEF Contents
<1> QED
  BY <1>2, <1>8 DEF Dict!Set, Dict!Reply, Reply

\* So is set of a new key while no resize is due.
LEMMA SetNewRefines ==
  ASSUME Inv, Inv', NEW k \in Keys, NEW v \in Values, SetNew(k, v)
  PROVE  Dict!Set(k, v)
<1>1. /\ capacity \in Caps /\ table \in [Slots(capacity) -> Entries]
      /\ WellFormed(table, capacity)
  BY Capacities DEF Inv, TypeOK
<1>2. capacity' = capacity /\ reply' = Reply("set", k, v, OK)
  BY DEF SetNew
<1>3. table' \in [Slots(capacity) -> Entries] /\ WellFormed(table', capacity)
  BY <1>2 DEF Inv, TypeOK
<1>4. PICK s \in SlotFor(table, k, capacity) :
        table[s].key = NoKey /\ table' = [table EXCEPT ![s] = Live(k, v)]
  BY DEF SetNew
<1>5. s \in Slots(capacity) /\ table[s].key \in {k, NoKey}
  BY <1>4, SlotForKeys
<1>6. /\ table'[s].key = k /\ table'[s].value = v
      /\ \A r \in Slots(capacity) : r # s => table'[r] = table[r]
  BY <1>1, <1>4, <1>5 DEF Live
<1>7. \A x \in Keys : Lookup(table', x, capacity)
                      = IF x = k THEN v ELSE Lookup(table, x, capacity)
  BY <1>1, <1>3, <1>5, <1>6, PutLookup
<1>8. Contents' = [Contents EXCEPT ![k] = v]
  BY <1>2, <1>7 DEF Contents
<1> QED
  BY <1>2, <1>8 DEF Dict!Set, Dict!Reply, Reply

\* The last step of a set that resized is its Set; those before stutter.
LEMMA FinishSetRefines ==
  ASSUME Inv, Inv', FinishSet
  PROVE  Dict!Set(request.key, request.value)
<1> DEFINE k == request.key
           v == request.value
<1>1. /\ capacity \in Caps /\ 2 * capacity \in Caps
      /\ table \in [Slots(capacity) -> Entries] /\ WellFormed(table, capacity)
      /\ fresh \in [Slots(2 * capacity) -> Entries] /\ WellFormed(fresh, 2 * capacity)
  BY Capacities DEF Inv, TypeOK
<1>2. /\ capacity' = 2 * capacity /\ reply' = Reply("set", k, v, OK)
      /\ ~Idle /\ next = capacity /\ k \in Keys
  BY Requests DEF FinishSet, Inv
<1>3. PICK s \in Slots(2 * capacity) :
         /\ fresh[s].key = NoKey
         /\ table' \in [Slots(2 * capacity) -> Entries]
         /\ table'[s] = Live(k, v)
         /\ \A r \in Slots(2 * capacity) : r # s => table'[r] = fresh[r]
         /\ WellFormed(table', 2 * capacity)
  BY FinishInserts
<1>4. table'[s].key = k /\ table'[s].value = v /\ fresh[s].key \in {k, NoKey}
  BY <1>3 DEF Live
<1>5. \A x \in Keys : Lookup(table', x, 2 * capacity)
                      = IF x = k THEN v ELSE Lookup(fresh, x, 2 * capacity)
  <2> HIDE DEF k, v
  <2> QED BY <1>1, <1>2, <1>3, <1>4, PutLookup
<1>6. \A x \in Keys : Lookup(fresh, x, 2 * capacity) = Lookup(table, x, capacity)
  <2> TAKE x \in Keys
  <2>1. KeysOf(fresh) = KeysOf(table)
    BY <1>2, ResizeDone
  <2>2. \A i \in Slots(capacity) : table[i].key = x =>
          \E j \in Slots(2 * capacity) : fresh[j].key = x /\ fresh[j].value = table[i].value
    <3> TAKE i \in Slots(capacity)
    <3> HAVE table[i].key = x
    <3>1. PICK j \in Slots(2 * capacity) : fresh[j] = Live(table[i].key, table[i].value)
      BY <1>2, ResizeDone, KeysAreReal
    <3>2. fresh[j].key = x /\ fresh[j].value = table[i].value
      BY <3>1 DEF Live
    <3> QED
      BY <3>2
  <2> QED
    BY <1>1, <2>1, <2>2, SameLookup
<1>7. Contents' = [Contents EXCEPT ![k] = v]
  <2> HIDE DEF k, v
  <2> QED BY <1>2, <1>5, <1>6 DEF Contents
<1> QED
  BY <1>2, <1>7 DEF Dict!Set, Dict!Reply, Reply

\* remove of a key that is there is Del.
LEMMA RemoveRefines ==
  ASSUME Inv, NEW k \in Keys, Remove(k)
  PROVE  Dict!Del(k)
<1>1. /\ capacity \in Caps /\ table \in [Slots(capacity) -> Entries]
      /\ WellFormed(table, capacity)
  BY Capacities DEF Inv, TypeOK
<1>2. capacity' = capacity /\ reply' = Reply("del", k, NoValue, OK)
  BY DEF Remove
<1>3. PICK s \in Slots(capacity) :
         /\ table[s].key = k
         /\ table' \in [Slots(capacity) -> Entries]
         /\ table'[s] = Tombstone
         /\ \A r \in Slots(capacity) : r # s => table'[r] = table[r]
         /\ WellFormed(table', capacity)
         /\ KeysOf(table') = KeysOf(table) \ {k}
  BY RemoveMarks
<1>4. \A x \in Keys : Lookup(table', x, capacity)
                      = IF x = k THEN NoValue ELSE Lookup(table, x, capacity)
  <2>1. table'[s].key = NoKey /\ k \notin KeysOf(table')
    BY <1>3 DEF Tombstone
  <2> QED
    BY <1>1, <1>3, <2>1, DropLookup
<1>5. Contents' = [Contents EXCEPT ![k] = NoValue]
  BY <1>2, <1>4 DEF Contents
<1>6. Contents[k] # NoValue
  <2>1. Contents[k] = table[s].value
    BY <1>1, <1>3, LookupFinds DEF Contents
  <2>2. table[s].value \in Values
    BY <1>1, <1>3, KeysAreReal DEF WellFormed
  <2> QED
    BY <2>1, <2>2, NoneAssumption
<1> QED
  BY <1>2, <1>5, <1>6 DEF Dict!Del, Dict!Reply, Reply


\* And so is remove of one that is not.
LEMMA RemoveMissingRefines ==
  ASSUME Inv, NEW k \in Keys, RemoveMissing(k)
  PROVE  Dict!Del(k)
<1>1. /\ UNCHANGED <<capacity, table>> /\ reply' = Reply("del", k, NoValue, NoValue)
      /\ Match(table, k, capacity) = {}
  BY DEF RemoveMissing
<1>2. Contents[k] = NoValue
  BY <1>1 DEF Contents, Lookup
<1>3. Contents' = [Contents EXCEPT ![k] = NoValue]
  BY <1>1, <1>2 DEF Contents
<1> QED
  BY <1>1, <1>2, <1>3 DEF Dict!Del, Dict!Reply, Reply

\* An empty table maps every key to no value.
LEMMA EmptyContents ==
  ASSUME NEW cap \in Caps, NEW k \in Keys
  PROVE  Lookup(EmptyTable(cap), k, cap) = NoValue
BY EmptyTableWellFormed, LookupMissing DEF WellFormed

\* clear is Flush.
LEMMA ClearRefines ==
  ASSUME Inv, Clear
  PROVE  Dict!Flush
<1>1. /\ capacity' = capacity /\ table' = EmptyTable(capacity)
      /\ reply' = Reply("flush", NoKey, NoValue, OK)
  BY DEF Clear
<1>2. Contents' = [k \in Keys |-> NoValue]
  BY <1>1, EmptyContents, Capacities DEF Contents, Inv
<1> QED
  BY <1>1, <1>2 DEF Dict!Flush, Dict!Reply, Reply

\* Every step of FastMap is a step of the dictionary or a stutter.
LEMMA NextRefines ==
  ASSUME Inv, Inv', [Next]_vars
  PROVE  [Dict!Next]_(Dict!vars)
<1>1. CASE UNCHANGED <<capacity, table, reply>>
  BY <1>1 DEF Dict!vars, Contents
<1>2. CASE UNCHANGED vars
  BY <1>1, <1>2 DEF vars
<1>3. ASSUME NEW k \in Keys, Get(k) \/ Remove(k) \/ RemoveMissing(k)
      PROVE  Dict!Next
  BY <1>3, GetRefines, RemoveRefines, RemoveMissingRefines DEF Dict!Next
<1>4. ASSUME NEW k \in Keys, NEW v \in Values, SetExisting(k, v) \/ SetNew(k, v)
      PROVE  Dict!Next
  BY <1>4, SetExistingRefines, SetNewRefines DEF Dict!Next
<1>5. ASSUME NEW k \in Keys, NEW v \in Values, StartResize(k, v)
      PROVE  UNCHANGED <<capacity, table, reply>>
  BY <1>5 DEF StartResize
<1>6. CASE Rehash
  BY <1>1, <1>6 DEF Rehash
<1>7. CASE FinishSet
  <2>1. request.key \in Keys /\ request.value \in Values
    BY <1>7, Requests DEF FinishSet, Inv
  <2> QED
    BY <1>7, <2>1, FinishSetRefines DEF Dict!Next
<1>8. CASE Clear
  BY <1>8, ClearRefines DEF Dict!Next
<1> QED
  BY <1>1, <1>2, <1>3, <1>4, <1>5, <1>6, <1>7, <1>8 DEF Next, Set

\* The map is a dictionary: every behaviour of FastMap is one of KVDict.
THEOREM Refinement == Spec => ImplementsDict
<1>1. Init => Dict!Init
  <2> SUFFICES ASSUME Init PROVE Dict!Init
    OBVIOUS
  <2>1. InitCapacity \in Caps
    BY CapacityAssumption DEF Caps
  <2>2. Contents = [k \in Keys |-> NoValue]
    BY <2>1, EmptyContents DEF Contents, Init
  <2> QED
    BY <2>2 DEF Init, Dict!Init, Dict!Reply, Reply
<1>2. Inv /\ Inv' /\ [Next]_vars => [Dict!Next]_(Dict!vars)
  BY NextRefines
<1> QED
  BY <1>1, <1>2, Invariance, PTL DEF Spec, ImplementsDict, Dict!Spec

=============================================================================
