------------------------------ MODULE FastMap -------------------------------
(***************************************************************************)
(* FastMap (server/src/map.cpp): an open-addressing hash table with linear *)
(* probing, tombstones and a doubling resize.  Here an entry holds its key *)
(* and value themselves; ArenaMap keeps them in the string arena as the    *)
(* code does and is shown to implement this module.                        *)
(*                                                                         *)
(* Every operation is one step, but for the set that has to resize: the    *)
(* loop of resize takes one step per slot of the old table.  The server    *)
(* runs commands on one thread, so no operation starts during that loop.   *)
(***************************************************************************)
EXTENDS HashTable, FiniteSets

CONSTANTS
  InitCapacity,  (* the constructor's argument, k_default_capacity = 8      *)
  OK             (* the answer of set, del and flush, as in KVDict          *)

\* With fewer than four slots size >= 0.75 * capacity first holds when the
\* table is already full, and the search of set comes back with nullptr.
ASSUME CapacityAssumption == InitCapacity \in Nat /\ InitCapacity >= 4

VARIABLES
  capacity,  (* m_capacity                                                  *)
  size,      (* m_size: the live entries                                    *)
  table,     (* m_table                                                     *)
  request,   (* what the set that is resizing has to insert; else NoRequest *)
  fresh,     (* new_table of resize                                         *)
  next,      (* i of resize: the next slot of the old table to copy         *)
  reply      (* what the last operation returned, as in KVDict              *)

vars == <<capacity, size, table, request, fresh, next, reply>>

NoRequest == [key |-> NoKey, value |-> NoValue]

Idle == request = NoRequest

Reply(op, k, v, out) == [op |-> op, key |-> k, value |-> v, out |-> out]

Replies == [op : {"none", "get", "set", "del", "flush"},
            key : Keys \cup {NoKey},
            value : Values \cup {NoValue},
            out : Values \cup {NoValue, OK}]

TypeOK ==
  /\ capacity \in Nat /\ capacity >= InitCapacity
  /\ size \in Nat
  /\ table \in [Slots(capacity) -> Entries]
  /\ request \in [key : Keys, value : Values] \cup {NoRequest}
  /\ fresh \in [Slots(2 * capacity) -> Entries]
  /\ next \in 0 .. capacity
  /\ reply \in Replies

Init ==
  /\ capacity = InitCapacity
  /\ size = 0
  /\ table = EmptyTable(InitCapacity)
  /\ request = NoRequest
  /\ fresh = EmptyTable(2 * InitCapacity)
  /\ next = 0
  /\ reply = Reply("none", NoKey, NoValue, NoValue)

-----------------------------------------------------------------------------
\* m_size >= m_capacity * k_load_factor, with k_load_factor = 0.75.
NeedsResize == 4 * size >= 3 * capacity

Get(k) ==
  /\ Idle
  /\ reply' = Reply("get", k, NoValue, Lookup(table, k, capacity))
  /\ UNCHANGED <<capacity, size, table, request, fresh, next>>

\* set of a key that has an entry: only the value changes.
SetExisting(k, v) ==
  /\ Idle
  /\ reply' = Reply("set", k, v, OK)
  /\ \E s \in SlotFor(table, k, capacity) :
       /\ table[s].key # NoKey
       /\ table' = [table EXCEPT ![s].value = v]
  /\ UNCHANGED <<capacity, size, request, fresh, next>>

\* set of a new key: into the first tombstone on the way, or the slot that
\* ended the search.
SetNew(k, v) ==
  /\ Idle
  /\ reply' = Reply("set", k, v, OK)
  /\ \E s \in SlotFor(table, k, capacity) :
       /\ table[s].key = NoKey
       /\ ~NeedsResize
       /\ table' = [table EXCEPT ![s] = Live(k, v)]
  /\ size' = size + 1
  /\ UNCHANGED <<capacity, request, fresh, next>>

\* set of a new key into a table that is too full: call resize.
StartResize(k, v) ==
  /\ Idle
  /\ request' = [key |-> k, value |-> v]
  /\ \E s \in SlotFor(table, k, capacity) : table[s].key = NoKey
  /\ NeedsResize
  /\ fresh' = EmptyTable(2 * capacity)
  /\ next' = 0
  /\ UNCHANGED <<capacity, size, table, reply>>

\* Mutant: a slot without a key is not passed.
RehashStuck ==
  /\ ~Idle
  /\ next < capacity
  /\ LET e == table[next] IN
       IF e.key = NoKey
         THEN UNCHANGED <<fresh, next>>
         ELSE /\ \E s \in VirginSlotFor(fresh, e.key, 2 * capacity) :
                   fresh' = [fresh EXCEPT ![s] = Live(e.key, e.value)]
              /\ next' = next + 1
  /\ UNCHANGED <<capacity, size, table, request, reply>>

\* Mutant: the entry is copied to the slot it had.
RehashSameSlot ==
  /\ ~Idle
  /\ next < capacity
  /\ LET e == table[next] IN
       IF e.key = NoKey
         THEN UNCHANGED fresh
         ELSE fresh' = [fresh EXCEPT ![next] = Live(e.key, e.value)]
  /\ next' = next + 1
  /\ UNCHANGED <<capacity, size, table, request, reply>>

\* Mutant: the value is not copied.
RehashKeyOnly ==
  /\ ~Idle
  /\ next < capacity
  /\ LET e == table[next] IN
       IF e.key = NoKey
         THEN UNCHANGED fresh
         ELSE \E s \in VirginSlotFor(fresh, e.key, 2 * capacity) :
                fresh' = [fresh EXCEPT ![s] = Live(e.key, NoValue)]
  /\ next' = next + 1
  /\ UNCHANGED <<capacity, size, table, request, reply>>

\* One iteration of resize: the entry of one old slot, if it has a key.
Rehash ==
  /\ ~Idle
  /\ next < capacity
  /\ LET e == table[next] IN
       IF e.key = NoKey
         THEN UNCHANGED fresh
         ELSE \E s \in VirginSlotFor(fresh, e.key, 2 * capacity) :
                fresh' = [fresh EXCEPT ![s] = Live(e.key, e.value)]
  /\ next' = next + 1
  /\ UNCHANGED <<capacity, size, table, request, reply>>

\* resize has returned: install the new table, search it again and insert.
FinishSet ==
  /\ ~Idle
  /\ next = capacity
  /\ capacity' = 2 * capacity
  /\ \E s \in SlotFor(fresh, request.key, 2 * capacity) :
       table' = [fresh EXCEPT ![s] = Live(request.key, request.value)]
  /\ size' = size + 1
  /\ reply' = Reply("set", request.key, request.value, OK)
  /\ request' = NoRequest
  /\ fresh' = EmptyTable(4 * capacity)
  /\ next' = 0

\* Mutant: no mark_deleted.
RemoveUnmarked(k) ==
  /\ Idle
  /\ reply' = Reply("del", k, NoValue, OK)
  /\ \E s \in Match(table, k, capacity) :
       table' = [table EXCEPT ![s] = Virgin]
  /\ size' = size - 1
  /\ UNCHANGED <<capacity, request, fresh, next>>

Remove(k) ==
  /\ Idle
  /\ reply' = Reply("del", k, NoValue, OK)
  /\ \E s \in Match(table, k, capacity) :
       table' = [table EXCEPT ![s] = Tombstone]
  /\ size' = size - 1
  /\ UNCHANGED <<capacity, request, fresh, next>>

\* Mutant: m_size-- before the early return.
RemoveMissingCounted(k) ==
  /\ Idle
  /\ Match(table, k, capacity) = {}
  /\ size' = size - 1
  /\ reply' = Reply("del", k, NoValue, NoValue)
  /\ UNCHANGED <<capacity, table, request, fresh, next>>

RemoveMissing(k) ==
  /\ Idle
  /\ reply' = Reply("del", k, NoValue, NoValue)
  /\ Match(table, k, capacity) = {}
  /\ UNCHANGED <<capacity, size, table, request, fresh, next>>

\* Mutant: no m_size = 0.
ClearKeepsSize ==
  /\ Idle
  /\ reply' = Reply("flush", NoKey, NoValue, OK)
  /\ table' = EmptyTable(capacity)
  /\ UNCHANGED <<capacity, size, request, fresh, next>>

\* clear keeps the capacity and drops entries and tombstones alike.
Clear ==
  /\ Idle
  /\ reply' = Reply("flush", NoKey, NoValue, OK)
  /\ table' = EmptyTable(capacity)
  /\ size' = 0
  /\ UNCHANGED <<capacity, request, fresh, next>>

Set(k, v) == SetExisting(k, v) \/ SetNew(k, v) \/ StartResize(k, v)

Next ==
  \/ \E k \in Keys : Get(k) \/ Remove(k) \/ RemoveMissing(k)
  \/ \E k \in Keys, v \in Values : Set(k, v)
  \/ Rehash
  \/ FinishSet
  \/ Clear

Spec == Init /\ [][Next]_vars

\* resize is a loop without a wait: once it has begun it runs on.
FairSpec == Spec /\ WF_vars(Rehash) /\ WF_vars(FinishSet)

-----------------------------------------------------------------------------
(* Properties.                                                             *)

\* Every entry can be found: the slots between the home of its key and the
\* entry are live or tombstones (the reason remove marks the slot).  The new
\* table has this shape at every step of resize too.
Searchable == ProbeChain(table, capacity) /\ ProbeChain(fresh, 2 * capacity)

\* set never gives a key a second entry, although it may pass a tombstone
\* that it could fill before it comes to the key.
NoDuplicates == UniqueKeys(table, capacity) /\ UniqueKeys(fresh, 2 * capacity)

\* m_size, which decides when to resize, counts the keys in the table.
SizeCountsKeys == size = Cardinality(KeysOf(table))

\* Between two steps of resize the new table holds the entries of the slots
\* that were passed, each with its value, and nothing else.
RehashCopies ==
  ~Idle =>
    /\ request.key \notin KeysOf(table)
    /\ \A j \in Slots(2 * capacity) : ~fresh[j].deleted
    /\ \A i \in 0 .. next - 1 : table[i].key # NoKey =>
         \E j \in Slots(2 * capacity) : fresh[j] = Live(table[i].key, table[i].value)
    /\ \A j \in Slots(2 * capacity) : fresh[j].key # NoKey =>
         \E i \in 0 .. next - 1 : fresh[j] = Live(table[i].key, table[i].value)

\* get_entry never returns nullptr to set or to resize, neither of which
\* tests for it: there is a slot for every key set may be given, and for the
\* key resize is about to copy and the one it resizes for.
SlotAlwaysFound ==
  /\ Idle => \A k \in Keys : SlotFor(table, k, capacity) # {}
  /\ ~Idle /\ next < capacity /\ table[next].key # NoKey
       => VirginSlotFor(fresh, table[next].key, 2 * capacity) # {}
  /\ ~Idle /\ next = capacity => SlotFor(fresh, request.key, 2 * capacity) # {}

\* At most three quarters of the slots are live when a key is added: at most
\* one more is when set returns.
LoadBounded == 4 * size < 3 * capacity + 4

\* The inductive invariant: a step from any state that satisfies it leads to
\* one that does.  The size has to be bounded for a slot to be free, and the
\* copy described for the new table to have the contents of the old one.
Inv ==
  /\ TypeOK
  /\ WellFormed(table, capacity)
  /\ WellFormed(fresh, 2 * capacity)
  /\ IsFiniteSet(KeysOf(table))
  /\ SizeCountsKeys
  /\ LoadBounded
  /\ RehashCopies

\* The table is a dictionary: get, set, remove and clear return and change
\* what the ones of KVDict do, a resize changes no contents.
Contents == [k \in Keys |-> Lookup(table, k, capacity)]

Dict == INSTANCE KVDict WITH dict <- Contents

ImplementsDict == Dict!Spec

\* A set that has to resize ends.
ResizeEnds == ~Idle ~> Idle

\* README.md:112: get should be O(1), hash collisions apart.  A search then
\* looks at no more slots than there are live entries, and one.
SearchPaysForLiveEntries ==
  \A k \in Keys : Cardinality(Examined(table, k, capacity)) <= size + 1
=============================================================================
