----------------------------- MODULE HashTable ------------------------------
(***************************************************************************)
(* The open-addressing search of FastMap (server/src/map.cpp, get_entry).  *)
(* A table is a function from slots to entries.  Linear probing visits the *)
(* slots in one fixed order for each key, so the loop is written as what   *)
(* it finds: which slots it examines before it stops, and which of them it *)
(* returns.  A result is a set with at most one slot; {} is nullptr.       *)
(***************************************************************************)
EXTENDS Integers

CONSTANTS
  Keys,     (* what a key may be: never the empty string                    *)
  Values,   (* what a value may be                                          *)
  NoKey,    (* the key of an entry that holds none (Entry::empty)           *)
  NoValue,  (* no value: of an empty entry, or std::nullopt                 *)
  Hash      (* fnv_1a: a natural number for every key                       *)

ASSUME HashAssumption == Hash \in [Keys -> Nat]
ASSUME NoneAssumption == NoKey \notin Keys /\ NoValue \notin Values

Slots(cap) == 0 .. cap - 1

Entries == [key : Keys \cup {NoKey}, value : Values \cup {NoValue}, deleted : BOOLEAN]

Virgin == [key |-> NoKey, value |-> NoValue, deleted |-> FALSE]

Tombstone == [key |-> NoKey, value |-> NoValue, deleted |-> TRUE]

Live(k, v) == [key |-> k, value |-> v, deleted |-> FALSE]

EmptyTable(cap) == [s \in Slots(cap) |-> Virgin]

IsVirgin(e) == e.key = NoKey /\ ~e.deleted

(***************************************************************************)
(* The order of the probe: slot = hash % capacity, then slot + 1 modulo    *)
(* the capacity, at most capacity times.                                   *)
(***************************************************************************)
Home(k, cap) == Hash[k] % cap

\* How many slots the probe for k passes before it comes to slot s.
Dist(k, s, cap) == IF s >= Home(k, cap) THEN s - Home(k, cap)
                                        ELSE s + cap - Home(k, cap)

\* The slot of S that the probe for k comes to first.
Nearest(k, S, cap) == {s \in S : \A r \in S : Dist(k, s, cap) <= Dist(k, r, cap)}

\* The slots that end the search for k: one that was never used, and the one
\* that holds k.  The search walks over tombstones and other keys.
Stops(t, k, cap) == {s \in Slots(cap) : ~t[s].deleted /\ t[s].key \in {k, NoKey}}

\* get_entry<SlotMatch::match>: the slot that holds k.
Match(t, k, cap) == {s \in Nearest(k, Stops(t, k, cap), cap) : t[s].key = k}

\* Mutant: the first free slot is taken, although the key may come after it.
SlotForFirstFree(t, k, cap) ==
  Nearest(k, {s \in Slots(cap) : t[s].key \in {k, NoKey}}, cap)

\* Mutant: a tombstone is used only if a slot never used ends the search.
SlotForNoTombstone(t, k, cap) ==
  LET match == Match(t, k, cap) IN
  IF match # {} \/ \A s \in Slots(cap) : ~IsVirgin(t[s])
    THEN match
    ELSE Nearest(k, {s \in Slots(cap) : t[s].key = NoKey}, cap)

\* get_entry<SlotMatch::match_or_empty>: the slot that holds k; without one,
\* the first tombstone on the way; without one, the slot that ended the search.
SlotFor(t, k, cap) ==
  LET match == Match(t, k, cap) IN
  IF match # {}
    THEN match
    ELSE Nearest(k, {s \in Slots(cap) : t[s].key = NoKey}, cap)

\* get_entry<SlotMatch::empty>: the first slot never used (resize only).
VirginSlotFor(t, k, cap) == Nearest(k, {s \in Slots(cap) : IsVirgin(t[s])}, cap)

\* The slots the search for k looks at.
Examined(t, k, cap) ==
  {s \in Slots(cap) : \A r \in Stops(t, k, cap) : Dist(k, s, cap) <= Dist(k, r, cap)}

\* What FastMap::get returns.
Lookup(t, k, cap) ==
  LET match == Match(t, k, cap) IN
  IF match = {} THEN NoValue ELSE t[CHOOSE s \in match : TRUE].value

-----------------------------------------------------------------------------
(***************************************************************************)
(* What makes a table searchable.                                          *)
(***************************************************************************)
KeysOf(t) == {t[s].key : s \in DOMAIN t} \ {NoKey}

\* No slot on the way from a key's home to its entry is unused, so the search
\* never stops short of the entry.
ProbeChain(t, cap) ==
  \A r, s \in Slots(cap) :
    t[s].key # NoKey /\ IsVirgin(t[r]) => Dist(t[s].key, s, cap) < Dist(t[s].key, r, cap)

\* No key has two entries.
UniqueKeys(t, cap) ==
  \A r, s \in Slots(cap) : t[r].key # NoKey /\ t[r].key = t[s].key => r = s
\* A table every search of which is right.
WellFormed(t, cap) ==
  /\ t \in [Slots(cap) -> Entries]
  /\ \A s \in Slots(cap) : t[s].deleted => t[s].key = NoKey
  /\ \A s \in Slots(cap) : t[s].key # NoKey => t[s].value \in Values
  /\ ProbeChain(t, cap)
  /\ UniqueKeys(t, cap)
=============================================================================
