------------------------------ MODULE ArenaMap ------------------------------
(***************************************************************************)
(* FastMap as it stores its strings: an entry of the table holds two       *)
(* references into a StringArena, and a remove that leaves too many dead   *)
(* bytes copies every live string into a new arena.  The loops of resize   *)
(* and of that copy take one step for each slot.                           *)
(***************************************************************************)
EXTENDS HashTable, StringArena

CONSTANTS
  InitCapacity,  (* the constructor's argument                              *)
  OK,            (* the answer of set, del and flush, as in KVDict          *)
  MaxBytes       (* bound: no set that might fill an arena beyond it        *)

ASSUME CapacityAssumption == InitCapacity \in Nat /\ InitCapacity >= 4

ASSUME KeysAreStrings == NoKey = <<>>

\* No object takes half of the address space: the sizes that size_t holds are
\* more than twice those of a string and of a block.
ASSUME StringsAssumption ==
  /\ Keys \cup Values \subseteq Seq(Byte)
  /\ 2 * BlockSize < SizeMod
  /\ \A s \in Keys \cup Values : 2 * Len(s) < SizeMod

VARIABLES
  capacity,  (* m_capacity                                                  *)
  size,      (* m_size                                                      *)
  table,     (* m_table: [key, value : references, deleted : BOOLEAN]       *)
  arena,     (* m_arena                                                     *)
  phase,     (* "idle", "resize", "compact", or "faulted" for good          *)
  request,   (* what the set that is resizing has to insert                 *)
  fresh,     (* new_table of resize                                         *)
  newArena,  (* new_arena of remove                                         *)
  next,      (* i of either loop                                            *)
  replaced,  (* history: the bytes of values that longer ones have replaced *)
  reply      (* what the last operation returned                            *)

vars == <<capacity, size, table, arena, phase, request, fresh, newArena, next, replaced, reply>>

NoRequest == [key |-> NoKey, value |-> NoValue]

Reply(op, k, v, out) == [op |-> op, key |-> k, value |-> v, out |-> out]

Unused == [key |-> NilRef, value |-> NilRef, deleted |-> FALSE]

Marked == [Unused EXCEPT !.deleted = TRUE]

UnusedTable(cap) == [s \in Slots(cap) |-> Unused]

\* An entry as what its references show in an arena.
Entry(e, a) ==
  IF e.key.size = 0
    THEN IF e.deleted THEN Tombstone ELSE Virgin
    ELSE [key |-> View(a, e.key), value |-> View(a, e.value), deleted |-> e.deleted]

\* While remove copies, the slots it has passed refer to the new arena.
ArenaOf(s) == IF phase = "compact" /\ s < next THEN newArena ELSE arena

\* The table as get_entry reads it.
Shown == [s \in Slots(capacity) |-> Entry(table[s], ArenaOf(s))]

ShownFresh == [s \in DOMAIN fresh |-> Entry(fresh[s], arena)]

Init ==
  /\ capacity = InitCapacity
  /\ size = 0
  /\ table = UnusedTable(InitCapacity)
  /\ arena = NewArena
  /\ phase = "idle"
  /\ request = NoRequest
  /\ fresh = UnusedTable(2 * InitCapacity)
  /\ newArena = NewArena
  /\ next = 0
  /\ replaced = 0
  /\ reply = Reply("none", NoKey, NoValue, NoValue)

-----------------------------------------------------------------------------
NeedsResize == 4 * size >= 3 * capacity

\* Bound: room for the strings of one more set.
BelowMaxBytes(k, v) == UsedSize(arena) + Len(k) + Len(v) <= MaxBytes

Get(k) ==
  /\ phase = "idle"
  /\ reply' = Reply("get", k, NoValue, Lookup(Shown, k, capacity))
  /\ UNCHANGED <<capacity, size, table, arena, phase, request, fresh, newArena, next, replaced>>

\* Does set write a value over the old one, or store it elsewhere?
OverwritesValue(ref, v) == Len(v) <= ref.size

\* The value of a set: over the old value if it is no longer, else stored.
PutValue(a, ref, v) == IF OverwritesValue(ref, v) THEN Overwrite(a, ref, v) ELSE Store(a, v)

\* An entry for a new key, its strings stored: key first, then value.
PutEntry(a, k, v) ==
  LET key   == Store(a, k)
      value == PutValue(key.arena, NilRef, v) IN
  [arena |-> value.arena, entry |-> [key |-> key.ref, value |-> value.ref, deleted |-> FALSE]]

SetExisting(k, v) ==
  /\ phase = "idle"
  /\ BelowMaxBytes(k, v)
  /\ \E s \in SlotFor(Shown, k, capacity) :
       LET old == table[s].value
           put == PutValue(arena, old, v) IN
       /\ Shown[s].key # NoKey
       /\ ~(OverwritesValue(old, v) /\ OverwriteFaults(arena, old, v))
       /\ table' = [table EXCEPT ![s].value = put.ref]
       /\ arena' = put.arena
       /\ replaced' = replaced + (IF OverwritesValue(old, v) THEN 0 ELSE old.size)
  /\ reply' = Reply("set", k, v, OK)
  /\ UNCHANGED <<capacity, size, phase, request, fresh, newArena, next>>

\* A set whose memset leaves the block.  It is undefined what follows; this
\* module lets the program end there.
SetFaults(k, v) ==
  /\ phase = "idle"
  /\ \E s \in SlotFor(Shown, k, capacity) :
       /\ Shown[s].key # NoKey
       /\ OverwritesValue(table[s].value, v)
       /\ OverwriteFaults(arena, table[s].value, v)
  /\ phase' = "faulted"
  /\ UNCHANGED <<capacity, size, table, arena, request, fresh, newArena, next, reply, replaced>>

SetNew(k, v) ==
  /\ phase = "idle"
  /\ BelowMaxBytes(k, v)
  /\ \E s \in SlotFor(Shown, k, capacity) :
       LET put == PutEntry(arena, k, v) IN
       /\ Shown[s].key = NoKey
       /\ ~NeedsResize
       /\ table' = [table EXCEPT ![s] = put.entry]
       /\ arena' = put.arena
  /\ size' = size + 1
  /\ reply' = Reply("set", k, v, OK)
  /\ UNCHANGED <<capacity, phase, request, fresh, newArena, next, replaced>>

StartResize(k, v) ==
  /\ phase = "idle"
  /\ BelowMaxBytes(k, v)
  /\ \E s \in SlotFor(Shown, k, capacity) : Shown[s].key = NoKey
  /\ NeedsResize
  /\ phase' = "resize"
  /\ request' = [key |-> k, value |-> v]
  /\ fresh' = UnusedTable(2 * capacity)
  /\ next' = 0
  /\ UNCHANGED <<capacity, size, table, arena, newArena, reply, replaced>>

\* One iteration of resize copies two references and no string.
Rehash ==
  /\ phase = "resize"
  /\ next < capacity
  /\ LET e == table[next] IN
       IF e.key.size = 0
         THEN UNCHANGED fresh
         ELSE \E s \in VirginSlotFor(ShownFresh, View(arena, e.key), 2 * capacity) :
                fresh' = [fresh EXCEPT ![s].key = e.key, ![s].value = e.value]
  /\ next' = next + 1
  /\ UNCHANGED <<capacity, size, table, arena, phase, request, newArena, reply, replaced>>

\* Mutant: the bigger table gets an arena of its own, and the references are
\* copied as they are.
FinishSetNewArena ==
  /\ phase = "resize"
  /\ next = capacity
  /\ capacity' = 2 * capacity
  /\ \E s \in SlotFor(ShownFresh, request.key, 2 * capacity) :
       LET put == PutEntry(NewArena, request.key, request.value) IN
       /\ table' = [fresh EXCEPT ![s] = put.entry]
       /\ arena' = put.arena
  /\ size' = size + 1
  /\ phase' = "idle"
  /\ reply' = Reply("set", request.key, request.value, OK)
  /\ request' = NoRequest
  /\ fresh' = UnusedTable(4 * capacity)
  /\ next' = 0
  /\ UNCHANGED <<newArena, replaced>>

FinishSet ==
  /\ phase = "resize"
  /\ next = capacity
  /\ capacity' = 2 * capacity
  /\ \E s \in SlotFor(ShownFresh, request.key, 2 * capacity) :
       LET put == PutEntry(arena, request.key, request.value) IN
       /\ table' = [fresh EXCEPT ![s] = put.entry]
       /\ arena' = put.arena
  /\ size' = size + 1
  /\ phase' = "idle"
  /\ reply' = Reply("set", request.key, request.value, OK)
  /\ request' = NoRequest
  /\ fresh' = UnusedTable(4 * capacity)
  /\ next' = 0
  /\ UNCHANGED <<newArena, replaced>>

\* remove up to the copy of the arena, which begins if too much is dead.
RemoveFound(k) ==
  /\ phase = "idle"
  /\ \E s \in Match(Shown, k, capacity) :
       /\ table' = [table EXCEPT ![s] = Marked]
       /\ arena' = Free(Free(arena, table[s].key), table[s].value)
  /\ size' = size - 1
  /\ phase' = IF ShouldReallocate(arena') THEN "compact" ELSE "idle"
  /\ reply' = Reply("del", k, NoValue, OK)
  /\ UNCHANGED <<capacity, request, fresh, newArena, next, replaced>>

RemoveMissing(k) ==
  /\ phase = "idle"
  /\ Match(Shown, k, capacity) = {}
  /\ reply' = Reply("del", k, NoValue, NoValue)
  /\ UNCHANGED <<capacity, size, table, arena, phase, request, fresh, newArena, next, replaced>>

\* Mutant: the value is left in the old arena.
CopyKeyOnly ==
  /\ phase = "compact"
  /\ next < capacity
  /\ LET e   == table[next]
         key == Store(newArena, View(arena, e.key)) IN
       IF e.key.size = 0
         THEN UNCHANGED <<table, newArena>>
         ELSE /\ table' = [table EXCEPT ![next].key = key.ref]
              /\ newArena' = key.arena
  /\ next' = next + 1
  /\ UNCHANGED <<capacity, size, arena, phase, request, fresh, reply, replaced>>

\* One iteration of that copy moves the strings of one entry.
Copy ==
  /\ phase = "compact"
  /\ next < capacity
  /\ LET e     == table[next]
         key   == Store(newArena, View(arena, e.key))
         value == Store(key.arena, View(arena, e.value)) IN
       IF e.key.size = 0
         THEN UNCHANGED <<table, newArena>>
         ELSE /\ table' = [table EXCEPT ![next].key = key.ref, ![next].value = value.ref]
              /\ newArena' = value.arena
  /\ next' = next + 1
  /\ UNCHANGED <<capacity, size, arena, phase, request, fresh, reply, replaced>>

\* Mutant: the count of dead bytes is kept.
FinishCopyKeepsDead ==
  /\ phase = "compact"
  /\ next = capacity
  /\ arena' = [newArena EXCEPT !.dead = arena.dead]
  /\ newArena' = NewArena
  /\ phase' = "idle"
  /\ next' = 0
  /\ replaced' = 0
  /\ UNCHANGED <<capacity, size, table, request, fresh, reply>>

FinishCopy ==
  /\ phase = "compact"
  /\ next = capacity
  /\ arena' = newArena
  /\ newArena' = NewArena
  /\ phase' = "idle"
  /\ next' = 0
  /\ replaced' = 0
  /\ UNCHANGED <<capacity, size, table, request, fresh, reply>>

Clear ==
  /\ phase = "idle"
  /\ table' = UnusedTable(capacity)
  /\ arena' = NewArena
  /\ size' = 0
  /\ reply' = Reply("flush", NoKey, NoValue, OK)
  /\ replaced' = 0
  /\ UNCHANGED <<capacity, phase, request, fresh, newArena, next>>

Next ==
  \/ \E k \in Keys : Get(k) \/ RemoveFound(k) \/ RemoveMissing(k)
  \/ \E k \in Keys, v \in Values :
       SetExisting(k, v) \/ SetFaults(k, v) \/ SetNew(k, v) \/ StartResize(k, v)
  \/ Rehash \/ FinishSet
  \/ Copy \/ FinishCopy
  \/ Clear

Spec == Init /\ [][Next]_vars

-----------------------------------------------------------------------------
(* Properties.                                                             *)

Refs == [block : Nat, offset : Nat, size : Nat]

Arenas(a) == /\ a.dead \in Nat
             /\ \A i \in DOMAIN a.blocks : Len(a.blocks[i].data) <= a.blocks[i].capacity

TypeOK ==
  /\ capacity \in Nat /\ size \in 0 .. capacity
  /\ table \in [Slots(capacity) -> [key : Refs, value : Refs, deleted : BOOLEAN]]
  /\ Arenas(arena) /\ Arenas(newArena)
  /\ phase \in {"idle", "resize", "compact", "faulted"}
  /\ request \in [key : Keys, value : Values] \cup {NoRequest}
  /\ fresh \in [Slots(2 * capacity) -> [key : Refs, value : Refs, deleted : BOOLEAN]]
  /\ next \in 0 .. capacity

\* The strings of the live entries: a slot, and its key or its value.
Pieces == {p \in Slots(capacity) \X {"key", "value"} :
             table[p[1]].key.size # 0 /\ table[p[1]][p[2]].size # 0}

RefOf(p) == table[p[1]][p[2]]

\* Has the copy of remove moved it?
Moved(p) == phase = "compact" /\ p[1] < next

\* The bytes of the live strings in the first n slots of a table.
LiveBytes(e) == IF e.key.size = 0 THEN 0 ELSE e.key.size + e.value.size

Bytes(t, n) == Total([i \in 1 .. n |-> LiveBytes(t[i - 1])])

\* Every reference of a live entry names used bytes, and no two name the same:
\* neither a set, nor a resize, nor the copy of remove lets strings overlap.
StringsDisjoint ==
  /\ \A p \in Pieces : InArena(ArenaOf(p[1]), RefOf(p))
  /\ \A p, q \in Pieces :
       p # q /\ Moved(p) = Moved(q) /\ RefOf(p).block = RefOf(q).block
         => \/ RefOf(p).offset + RefOf(p).size <= RefOf(q).offset
            \/ RefOf(q).offset + RefOf(q).size <= RefOf(p).offset

\* Every byte in use belongs to a live string, is counted dead, or was left
\* behind by a value that a longer one has replaced: those are what an arena
\* loses until it is copied or cleared, and no byte is counted dead twice, or
\* while it is live, so that the copy cannot come too early.  The copy itself
\* leaves no gap.
BytesAccounted ==
  /\ phase = "idle" => UsedSize(arena) = Bytes(table, capacity) + arena.dead + replaced
  /\ phase = "compact" => UsedSize(newArena) = Bytes(table, next)

\* No operation returns with an arena that should be reallocated, so a test
\* after remove is enough.
ReclaimedInTime == phase = "idle" => 2 * arena.dead < Capacity(arena)

\* compact_into and offset_of agree: a string is found in the compacted bytes.
CompactedLayoutRight ==
  phase = "idle" => \A p \in Pieces :
    View(arena, RefOf(p))
      = SubSeq(CompactBytes(arena), OffsetOf(arena, RefOf(p)) + 1,
               OffsetOf(arena, RefOf(p)) + RefOf(p).size)

\* On strings in an arena the map does what FastMap does on strings.
Map == INSTANCE FastMap WITH
         table <- Shown,
         fresh <- ShownFresh,
         next  <- IF phase = "compact" THEN 0 ELSE next

ImplementsFastMap == Map!Spec

\* string_arena.h:52, precondition: string.size <= ref.size.  A string that
\* meets it can be written over the old one.
OverwriteStaysInBlock == phase # "faulted"

=============================================================================
