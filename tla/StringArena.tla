---------------------------- MODULE StringArena -----------------------------
(***************************************************************************)
(* StringArena (server/src/string_arena.cpp): strings are appended to      *)
(* blocks of bytes and named by references [block, offset, size].  An      *)
(* arena is a value here and an operation an operator on it.  A string is  *)
(* a sequence of bytes.  Blocks, and the bytes of a block, are numbered    *)
(* from 0 in a reference as in the code.                                   *)
(*                                                                         *)
(* A block keeps its capacity and the bytes up to back; the bytes behind   *)
(* are never read.  Block::dead is left out, nothing reads it.             *)
(***************************************************************************)
EXTENDS Integers, Sequences, SequencesExt

CONSTANTS
  BlockSize,  (* k_arena_block_size, 64 KiB in the code                     *)
  SizeMod     (* 2 to the number of bits of size_t                          *)

ASSUME ArenaAssumption == BlockSize \in Nat \ {0} /\ SizeMod \in Nat \ {0}

Byte == 0 .. 255

NilRef == [block |-> 0, offset |-> 0, size |-> 0]

NewBlock(cap) == [capacity |-> cap, data |-> <<>>]

\* The constructor allocates the first block.
NewArena == [blocks |-> <<NewBlock(BlockSize)>>, dead |-> 0]

Larger(m, n) == IF m >= n THEN m ELSE n

Total(s) == FoldLeft(LAMBDA sum, n : sum + n, 0, s)

\* The sum of the block's capacities, and used_size, the sum of their backs.
Capacity(a) == Total([i \in DOMAIN a.blocks |-> a.blocks[i].capacity])

UsedSize(a) == Total([i \in DOMAIN a.blocks |-> Len(a.blocks[i].data)])

BlockOf(a, ref) == a.blocks[ref.block + 1]

\* Does the reference name used bytes of a block of the arena?
InArena(a, ref) ==
  /\ ref.block < Len(a.blocks)
  /\ ref.offset + ref.size <= Len(BlockOf(a, ref).data)

View(a, ref) ==
  IF ref.size # 0 /\ InArena(a, ref)
    THEN SubSeq(BlockOf(a, ref).data, ref.offset + 1, ref.offset + ref.size)
    ELSE <<>>

\* data with the bytes of string written at offset.
Written(data, offset, string) ==
  [i \in DOMAIN data |->
     IF i \in offset + 1 .. offset + Len(string) THEN string[i - offset] ELSE data[i]]

Zeros(n) == [i \in 1 .. n |-> 0]

WriteAt(a, ref, string) ==
  [a EXCEPT !.blocks[ref.block + 1].data = Written(@, ref.offset, string)]

-----------------------------------------------------------------------------
\* Mutant: the capacity of the block, used or not.
FitsEmptyBlock(a, string) == Len(string) <= Last(a.blocks).capacity

\* Does the last block have room for the string?
Fits(a, string) ==
  Len(string) <= Last(a.blocks).capacity - Len(Last(a.blocks).data)

\* The arena with a block that has room: a new one where the last is too full.
WithRoom(a, string) ==
  IF Fits(a, string)
    THEN a
    ELSE [a EXCEPT !.blocks = Append(@, NewBlock(Larger(BlockSize, Len(string))))]

\* store: the arena it leaves and the reference it returns.
Store(a, string) ==
  IF string = <<>>
    THEN [arena |-> a, ref |-> NilRef]
    ELSE LET room == WithRoom(a, string)
             last == Len(room.blocks) IN
         [arena |-> [room EXCEPT !.blocks[last].data = @ \o string],
          ref   |-> [block |-> last - 1, offset |-> Len(room.blocks[last].data),
                     size |-> Len(string)]]

\* overwrite: a string over the one ref names.  The memset that follows the
\* copy clears difference = string.size() - ref.size bytes, a size_t.
ClearedBytes(ref, string) == (Len(string) - ref.size) % SizeMod

\* Does that memset leave the block?  What the program does then is undefined.
OverwriteFaults(a, ref, string) ==
  /\ ref.size # 0 /\ InArena(a, ref)
  /\ ClearedBytes(ref, string) > 0
  /\ ref.offset + Len(string) + ClearedBytes(ref, string) > BlockOf(a, ref).capacity

\* Where it stays inside.
Overwrite(a, ref, string) ==
  IF ref.size # 0 /\ InArena(a, ref)
    THEN [arena |-> WriteAt(a, ref, string \o Zeros(ClearedBytes(ref, string))),
          ref   |-> [ref EXCEPT !.size = Len(string)]]
    ELSE [arena |-> a, ref |-> NilRef]

\* remove: clear the bytes and count them as dead.
Free(a, ref) ==
  IF InArena(a, ref) /\ ref.offset < Len(BlockOf(a, ref).data)
    THEN [WriteAt(a, ref, Zeros(ref.size)) EXCEPT !.dead = @ + ref.size]
    ELSE a

\* Mutant: < for <=.
ReallocateLate(a) == Capacity(a) < 2 * a.dead

ShouldReallocate(a) == Capacity(a) <= 2 * a.dead

-----------------------------------------------------------------------------
(* compact_into: the used bytes of all blocks in one run of bytes, and     *)
(* CompactedLayout::offset_of, where a string went.                        *)
CompactBytes(a) == FlattenSeq([i \in DOMAIN a.blocks |-> a.blocks[i].data])

BlockOffset(a, block) ==
  Total([i \in 1 .. block |-> Len(a.blocks[i].data)])

\* Mutant: the offset inside the block.
OffsetInBlock(a, ref) == ref.offset

OffsetOf(a, ref) == BlockOffset(a, ref.block) + ref.offset
=============================================================================
