-------------------------- MODULE ArenaMap_proofs ---------------------------
(***************************************************************************)
(* For every hash function, keys, values and block size: the strings of    *)
(* the live entries never overlap, every byte of the arena is accounted    *)
(* for, compact_into and offset_of agree, and on strings in an arena the   *)
(* map does what FastMap does on strings, for as long as no overwrite has  *)
(* left its block.                                                         *)
(***************************************************************************)
EXTENDS ArenaMap, SequenceLemmas, FiniteSetTheorems

-----------------------------------------------------------------------------
(* Arenas.                                                                 *)

Block == [capacity : Nat, data : Seq(Byte)]

\* An arena with a block, none of which is filled beyond its capacity.
Arena == {a \in [blocks : Seq(Block), dead : Nat] :
            /\ a.blocks # <<>>
            /\ \A i \in 1 .. Len(a.blocks) : /\ Len(a.blocks[i].data) <= a.blocks[i].capacity
                                             /\ 2 * a.blocks[i].capacity < SizeMod}

\* A reference to used bytes.
Placed(a, r) == r \in Refs /\ InArena(a, r)

Apart(r, q) ==
  \/ r.block # q.block
  \/ r.offset + r.size <= q.offset
  \/ q.offset + q.size <= r.offset

\* The string of a reference is the same in both arenas.
Keeps(a, b, r) == Placed(b, r) /\ View(b, r) = View(a, r)

\* What a reference in the arena names.
LEMMA BlockPlaced ==
  ASSUME NEW a \in Arena, NEW r, Placed(a, r)
  PROVE  /\ r.block \in Nat /\ r.offset \in Nat /\ r.size \in Nat
         /\ r.block + 1 \in 1 .. Len(a.blocks)
         /\ BlockOf(a, r) = a.blocks[r.block + 1] /\ BlockOf(a, r) \in Block
         /\ BlockOf(a, r).data \in Seq(Byte) /\ Len(BlockOf(a, r).data) \in Nat
         /\ r.offset + r.size <= Len(BlockOf(a, r).data)
<1>1. r.block \in Nat /\ r.offset \in Nat /\ r.size \in Nat
  BY DEF Placed, Refs
<1>2. a.blocks \in Seq(Block) /\ Len(a.blocks) \in Nat
  BY LenProperties DEF Arena
<1>3. r.block + 1 \in 1 .. Len(a.blocks)
  BY <1>1, <1>2 DEF Placed, InArena
<1>4. BlockOf(a, r) = a.blocks[r.block + 1] /\ BlockOf(a, r) \in Block
  BY <1>2, <1>3, ElementOfSeq DEF BlockOf
<1>5. BlockOf(a, r).data \in Seq(Byte)
  BY <1>4 DEF Block
<1> QED
  BY <1>1, <1>3, <1>4, <1>5, LenProperties DEF Placed, InArena

\* A piece of a sequence.
LEMMA PieceOf ==
  ASSUME NEW B, NEW s \in Seq(B), NEW m \in Nat, NEW n \in Nat, m + n <= Len(s)
  PROVE  /\ SubSeq(s, m + 1, m + n) \in Seq(B) /\ Len(SubSeq(s, m + 1, m + n)) = n
         /\ \A i \in 1 .. n : SubSeq(s, m + 1, m + n)[i] = s[m + i]
<1>1. Len(s) \in Nat /\ \A i \in 1 .. Len(s) : s[i] \in B
  BY LenProperties, ElementOfSeq
<1> DEFINE p == m + 1
           q == m + n
<1>2. p \in Int /\ q \in Int /\ \A i \in p .. q : s[i] \in B
  BY <1>1
<1>3. (IF p <= q THEN q - p + 1 ELSE 0) = n /\ q - p + 1 = n /\ \A i \in 1 .. n : p + i - 1 = m + i
  OBVIOUS
<1> HIDE DEF p, q
<1>4. /\ SubSeq(s, p, q) \in Seq(B) /\ Len(SubSeq(s, p, q)) = IF p <= q THEN q - p + 1 ELSE 0
      /\ \A i \in 1 .. q - p + 1 : SubSeq(s, p, q)[i] = s[p + i - 1]
  BY <1>2, SubSeqProperties
<1>5. /\ SubSeq(s, p, q) \in Seq(B) /\ Len(SubSeq(s, p, q)) = n
      /\ \A i \in 1 .. n : SubSeq(s, p, q)[i] = s[m + i]
  BY <1>3, <1>4
<1> QED
  BY <1>5 DEF p, q

\* A view has the bytes of the reference.
LEMMA ViewPlaced ==
  ASSUME NEW a \in Arena, NEW r, Placed(a, r)
  PROVE  /\ View(a, r) \in Seq(Byte) /\ Len(View(a, r)) = r.size
         /\ \A i \in 1 .. r.size : View(a, r)[i] = BlockOf(a, r).data[r.offset + i]
<1> DEFINE d == BlockOf(a, r).data
           s == SubSeq(d, r.offset + 1, r.offset + r.size)
<1>1. /\ r.offset \in Nat /\ r.size \in Nat /\ d \in Seq(Byte) /\ Len(d) \in Nat
      /\ r.offset + r.size <= Len(d)
  BY BlockPlaced
<1>2. CASE r.size = 0
  <2>1. View(a, r) = <<>>
    BY <1>2 DEF View
  <2> QED
    BY <1>2, <2>1, EmptySeq
<1>3. CASE r.size # 0
  <2>1. View(a, r) = s
    BY <1>3 DEF View, Placed
  <2> HIDE DEF d
  <2>2. s \in Seq(Byte) /\ Len(s) = r.size /\ \A i \in 1 .. r.size : s[i] = d[r.offset + i]
    BY <1>1, PieceOf, ZenonT(30)
  <2> QED
    BY <2>1, <2>2 DEF d
<1> QED
  BY <1>2, <1>3

\* A reference without bytes shows nothing.
LEMMA ViewNothing ==
  ASSUME NEW a, NEW r, r.size = 0
  PROVE  View(a, r) = <<>>
BY DEF View

\* Two arenas with the same bytes at a reference show the same string.
LEMMA SameBytes ==
  ASSUME NEW a \in Arena, NEW b \in Arena, NEW r, Placed(a, r), Placed(b, r),
         \A i \in 1 .. r.size : BlockOf(b, r).data[r.offset + i] = BlockOf(a, r).data[r.offset + i]
  PROVE  View(b, r) = View(a, r)
<1>1. View(a, r) \in Seq(Byte) /\ View(b, r) \in Seq(Byte)
  BY ViewPlaced
<1>2. Len(View(a, r)) = r.size /\ Len(View(b, r)) = r.size
  BY ViewPlaced
<1>3. \A i \in 1 .. Len(View(a, r)) : View(b, r)[i] = View(a, r)[i]
  BY <1>2, ViewPlaced
<1> QED
  BY <1>1, <1>2, <1>3, SeqEqual

-----------------------------------------------------------------------------
(* The numbers of an arena.                                                *)

Capacities(a) == [i \in 1 .. Len(a.blocks) |-> a.blocks[i].capacity]

Backs(a) == [i \in 1 .. Len(a.blocks) |-> Len(a.blocks[i].data)]

\* The sums of an arena are natural numbers.
LEMMA ArenaSums ==
  ASSUME NEW a \in Arena
  PROVE  /\ Capacities(a) \in Seq(Nat) /\ Len(Capacities(a)) = Len(a.blocks)
         /\ Backs(a) \in Seq(Nat) /\ Len(Backs(a)) = Len(a.blocks)
         /\ Capacity(a) = SumOf(Capacities(a)) /\ Capacity(a) \in Nat
         /\ UsedSize(a) = SumOf(Backs(a)) /\ UsedSize(a) \in Nat
<1>1. /\ Len(a.blocks) \in Nat /\ DOMAIN a.blocks = 1 .. Len(a.blocks)
      /\ \A i \in 1 .. Len(a.blocks) : a.blocks[i] \in Block
  BY LenProperties, ElementOfSeq DEF Arena
<1>2. \A i \in 1 .. Len(a.blocks) : a.blocks[i].capacity \in Nat /\ Len(a.blocks[i].data) \in Nat
  BY <1>1, LenProperties DEF Block
<1>3. /\ Capacities(a) \in Seq(Nat) /\ Len(Capacities(a)) = Len(a.blocks)
      /\ Backs(a) \in Seq(Nat) /\ Len(Backs(a)) = Len(a.blocks)
  BY <1>1, <1>2 DEF Capacities, Backs
<1>4. Capacity(a) = SumOf(Capacities(a)) /\ UsedSize(a) = SumOf(Backs(a))
  BY <1>1 DEF Capacity, UsedSize, Capacities, Backs, Total, SumOf
<1> QED
  BY <1>3, <1>4, SumType

\* b is a with n more bytes, in no smaller blocks.
Fills(a, b, n) ==
  /\ b.dead = a.dead
  /\ Capacity(a) <= Capacity(b)
  /\ UsedSize(b) = UsedSize(a) + n

\* Nothing changed.
LEMMA FillsNothing ==
  ASSUME NEW a \in Arena
  PROVE  Fills(a, a, 0)
BY ArenaSums DEF Fills

\* One after the other.
LEMMA FillsBoth ==
  ASSUME NEW a \in Arena, NEW b \in Arena, NEW c \in Arena, NEW m \in Nat, NEW n \in Nat,
         Fills(a, b, m), Fills(b, c, n)
  PROVE  Fills(a, c, m + n)
<1>1. /\ Capacity(a) \in Nat /\ Capacity(b) \in Nat /\ Capacity(c) \in Nat
      /\ UsedSize(a) \in Nat /\ UsedSize(b) \in Nat /\ UsedSize(c) \in Nat
  BY ArenaSums
<1> QED
  BY <1>1 DEF Fills

\* An empty block is added.
LEMMA BlockAdded ==
  ASSUME NEW a \in Arena, NEW b \in Arena, b.dead = a.dead, Len(b.blocks) = Len(a.blocks) + 1,
         \A i \in 1 .. Len(a.blocks) : b.blocks[i] = a.blocks[i],
         Len(b.blocks[Len(b.blocks)].data) = 0
  PROVE  Fills(a, b, 0)
<1>1. /\ Len(a.blocks) \in Nat /\ Len(b.blocks) \in Nat
      /\ \A i \in 1 .. Len(a.blocks) : i \in 1 .. Len(b.blocks)
      /\ Len(b.blocks) \in 1 .. Len(b.blocks)
  BY LenProperties DEF Arena
<1>2. \A i \in 1 .. Len(a.blocks) : /\ Capacities(a)[i] = Capacities(b)[i]
                                    /\ Backs(a)[i] = Backs(b)[i]
  BY <1>1 DEF Capacities, Backs
<1>3. /\ Capacities(a) \in Seq(Nat) /\ Capacities(b) \in Seq(Nat)
      /\ Backs(a) \in Seq(Nat) /\ Backs(b) \in Seq(Nat)
      /\ Len(Capacities(a)) = Len(a.blocks) /\ Len(Capacities(b)) = Len(b.blocks)
      /\ Len(Backs(a)) = Len(a.blocks) /\ Len(Backs(b)) = Len(b.blocks)
  BY ArenaSums
<1>4. SumOf(Capacities(a)) <= SumOf(Capacities(b))
  <2>1. Len(Capacities(a)) <= Len(Capacities(b))
    BY <1>1, <1>3
  <2>2. \A i \in 1 .. Len(Capacities(a)) : Capacities(a)[i] = Capacities(b)[i]
    BY <1>2, <1>3
  <2> QED
    BY <1>3, <2>1, <2>2, SumLonger
<1>5. SumOf(Backs(b)) = SumOf(Backs(a)) + Backs(b)[Len(Backs(b))]
  <2>1. Len(Backs(b)) = Len(Backs(a)) + 1 /\ \A i \in 1 .. Len(Backs(a)) : Backs(a)[i] = Backs(b)[i]
    BY <1>2, <1>3
  <2> QED
    BY <1>3, <2>1, SumAppended
<1>6. Backs(b)[Len(Backs(b))] = 0
  BY <1>1, <1>3 DEF Backs
<1> QED
  BY <1>4, <1>5, <1>6, ArenaSums DEF Fills

\* n bytes are added to block k.
LEMMA BlockFilled ==
  ASSUME NEW a \in Arena, NEW b \in Arena, b.dead = a.dead, Len(b.blocks) = Len(a.blocks),
         NEW k \in 1 .. Len(a.blocks), NEW n \in Nat,
         \A i \in 1 .. Len(a.blocks) : i # k => b.blocks[i] = a.blocks[i],
         b.blocks[k].capacity = a.blocks[k].capacity,
         Len(b.blocks[k].data) = Len(a.blocks[k].data) + n
  PROVE  Fills(a, b, n)
<1>2. \A i \in 1 .. Len(a.blocks) : /\ Capacities(a)[i] = Capacities(b)[i]
                                    /\ i # k => Backs(b)[i] = Backs(a)[i]
  BY DEF Capacities, Backs
<1>3. /\ Capacities(a) \in Seq(Nat) /\ Capacities(b) \in Seq(Nat)
      /\ Backs(a) \in Seq(Nat) /\ Backs(b) \in Seq(Nat)
      /\ Len(Capacities(a)) = Len(a.blocks) /\ Len(Capacities(b)) = Len(a.blocks)
      /\ Len(Backs(a)) = Len(a.blocks) /\ Len(Backs(b)) = Len(a.blocks)
      /\ Len(a.blocks) \in Nat
  BY ArenaSums, LenProperties DEF Arena
<1>4. SumOf(Capacities(a)) <= SumOf(Capacities(b))
  <2>1. Len(Capacities(a)) <= Len(Capacities(b))
    BY <1>3
  <2>2. \A i \in 1 .. Len(Capacities(a)) : Capacities(a)[i] = Capacities(b)[i]
    BY <1>2, <1>3
  <2> QED
    BY <1>3, <2>1, <2>2, SumLonger
<1>5. SumOf(Backs(b)) + Backs(a)[k] = SumOf(Backs(a)) + Backs(b)[k]
  BY <1>2, <1>3, SumChanged
<1>6. Backs(b)[k] = Backs(a)[k] + n /\ Backs(a)[k] \in Nat
  BY <1>3, ElementOfSeq DEF Backs
<1>7. UsedSize(b) = UsedSize(a) + n
  <2> DEFINE x == SumOf(Backs(b))
             y == SumOf(Backs(a))
             z == Backs(a)[k]
  <2>1. x \in Nat /\ y \in Nat /\ z \in Nat /\ x + z = y + Backs(b)[k]
    BY <1>3, <1>5, <1>6, SumType
  <2>2. Backs(b)[k] = z + n
    BY <1>6
  <2> HIDE DEF x, y, z
  <2>3. x = y + n
    BY <2>1, <2>2
  <2> QED
    BY <2>3, ArenaSums DEF x, y
<1> QED
  BY <1>4, <1>7, ArenaSums DEF Fills

-----------------------------------------------------------------------------
(* store.                                                                  *)

\* What store leaves: as many more bytes as the string has, and the string at
\* the new reference, apart from every string of the arena, each of which it
\* keeps.
Stored(a, b, ref, string) ==
  /\ b \in Arena /\ Fills(a, b, Len(string))
  /\ Placed(b, ref) /\ ref.size = Len(string) /\ View(b, ref) = string
  /\ \A r : Placed(a, r) => Keeps(a, b, r) /\ Apart(r, ref)

\* An arena that has another block, or more bytes in one, shows what it did.
LEMMA Grown ==
  ASSUME NEW a \in Arena, NEW b \in Arena, Len(a.blocks) <= Len(b.blocks),
         \A i \in 1 .. Len(a.blocks) :
           /\ Len(a.blocks[i].data) <= Len(b.blocks[i].data)
           /\ \A j \in 1 .. Len(a.blocks[i].data) : b.blocks[i].data[j] = a.blocks[i].data[j]
  PROVE  \A r : Placed(a, r) => Keeps(a, b, r)
<1> SUFFICES ASSUME NEW r, Placed(a, r) PROVE Keeps(a, b, r)
  OBVIOUS
<1> DEFINE i == r.block + 1
<1>1. /\ r.block \in Nat /\ r.offset \in Nat /\ r.size \in Nat /\ i \in 1 .. Len(a.blocks)
      /\ BlockOf(a, r) = a.blocks[i] /\ Len(a.blocks[i].data) \in Nat
      /\ r.offset + r.size <= Len(a.blocks[i].data)
  BY BlockPlaced
<1>2. Len(a.blocks) \in Nat /\ Len(b.blocks) \in Nat /\ b.blocks \in Seq(Block)
  BY LenProperties DEF Arena
<1>3. BlockOf(b, r) = b.blocks[i] /\ i \in 1 .. Len(b.blocks)
  BY <1>1, <1>2 DEF BlockOf
<1>4. Len(b.blocks[i].data) \in Nat
  BY <1>2, <1>3, ElementOfSeq, LenProperties DEF Block
<1> HIDE DEF i
<1>5. Placed(b, r)
  <2>1. r \in Refs
    BY DEF Placed
  <2>2. Len(a.blocks[i].data) <= Len(b.blocks[i].data)
    BY <1>1
  <2>3. r.block < Len(b.blocks)
    BY <1>1, <1>2 DEF Placed, InArena
  <2>4. r.offset + r.size <= Len(BlockOf(b, r).data)
    <3>1. \A o, z, m, n \in Nat : o + z <= m /\ m <= n => o + z <= n
      OBVIOUS
    <3> QED
      BY <3>1, <1>1, <1>3, <1>4, <2>2
  <2> QED
    BY <2>1, <2>3, <2>4 DEF Placed, InArena
<1>6. \A j \in 1 .. r.size : BlockOf(b, r).data[r.offset + j] = BlockOf(a, r).data[r.offset + j]
  <2> TAKE j \in 1 .. r.size
  <2>1. \A n, o, z \in Nat : j \in 1 .. z /\ o + z <= n => o + j \in 1 .. n
    OBVIOUS
  <2>2. r.offset + j \in 1 .. Len(a.blocks[i].data)
    BY <1>1, <2>1
  <2> QED
    BY <1>1, <1>3, <2>2
<1> QED
  BY <1>5, <1>6, SameBytes DEF Keeps

\* The block that store appends to: a last one with room.
LEMMA RoomMade ==
  ASSUME NEW a \in Arena, NEW string \in Seq(Byte), 2 * Len(string) < SizeMod
  PROVE  /\ WithRoom(a, string) \in Arena /\ Fills(a, WithRoom(a, string), 0)
         /\ Fits(WithRoom(a, string), string)
         /\ Len(a.blocks) <= Len(WithRoom(a, string).blocks)
         /\ \A i \in 1 .. Len(a.blocks) : WithRoom(a, string).blocks[i] = a.blocks[i]
<1>1. a.blocks \in Seq(Block) /\ Len(a.blocks) \in Nat /\ Len(string) \in Nat /\ BlockSize \in Nat
  BY LenProperties, ArenaAssumption DEF Arena
<1>2. CASE Fits(a, string)
  BY <1>1, <1>2, FillsNothing DEF WithRoom
<1>3. CASE ~Fits(a, string)
  <2> DEFINE n == NewBlock(Larger(BlockSize, Len(string)))
             bs == Append(a.blocks, n)
             b == [a EXCEPT !.blocks = bs]
  <2>1. /\ n \in Block /\ Len(n.data) = 0 /\ n.capacity \in Nat /\ Len(string) <= n.capacity
        /\ 2 * n.capacity < SizeMod
    BY <1>1, StringsAssumption DEF NewBlock, Larger, Block
  <2>2. b = WithRoom(a, string)
    BY <1>3 DEF WithRoom
  <2> HIDE DEF n
  <2>3. /\ bs \in Seq(Block) /\ Len(bs) = Len(a.blocks) + 1 /\ bs[Len(bs)] = n
        /\ \A i \in 1 .. Len(a.blocks) : bs[i] = a.blocks[i]
    BY <1>1, <2>1, AppendProperties
  <2> HIDE DEF bs
  <2>4. /\ b.blocks = bs /\ b.dead = a.dead /\ b \in [blocks : Seq(Block), dead : Nat]
    BY <2>3 DEF Arena
  <2>5. bs # <<>>
    BY <1>1, <2>3, EmptySeq
  <2>6. \A i \in 1 .. Len(bs) : Len(bs[i].data) <= bs[i].capacity /\ 2 * bs[i].capacity < SizeMod
    <3> TAKE i \in 1 .. Len(bs)
    <3>1. CASE i \in 1 .. Len(a.blocks)
      BY <3>1, <2>3 DEF Arena
    <3>2. CASE i = Len(bs)
      BY <3>2, <2>1, <2>3
    <3> QED
      BY <3>1, <3>2, <1>1, <2>3
  <2>7. b \in Arena
    BY <2>4, <2>5, <2>6 DEF Arena
  <2>8. Fits(b, string)
    BY <2>1, <2>3, <2>4, <1>1 DEF Fits, Last
  <2> HIDE DEF b
  <2>9. Fills(a, b, 0)
    BY <2>1, <2>3, <2>4, <2>7, BlockAdded
  <2> QED
    BY <2>2, <2>3, <2>4, <2>7, <2>8, <2>9, <1>1
<1> QED
  BY <1>2, <1>3

\* The bytes of a string behind those of a block.
LEMMA AppendedBytes ==
  ASSUME NEW d \in Seq(Byte), NEW s \in Seq(Byte)
  PROVE  /\ d \o s \in Seq(Byte) /\ Len(d \o s) = Len(d) + Len(s)
         /\ \A j \in 1 .. Len(d) : (d \o s)[j] = d[j]
         /\ \A j \in 1 .. Len(s) : (d \o s)[Len(d) + j] = s[j]
<1>1. Len(d) \in Nat /\ Len(s) \in Nat /\ d \o s \in Seq(Byte) /\ Len(d \o s) = Len(d) + Len(s)
  BY LenProperties, ConcatProperties
<1>2. \A j \in 1 .. Len(d) + Len(s) : (d \o s)[j] = IF j <= Len(d) THEN d[j] ELSE s[j - Len(d)]
  BY ConcatProperties
<1>3. \A m, n \in Nat : /\ \A j \in 1 .. m : j \in 1 .. m + n /\ j <= m
                        /\ \A j \in 1 .. n : m + j \in 1 .. m + n /\ ~(m + j <= m) /\ m + j - m = j
  OBVIOUS
<1>4. \A j \in 1 .. Len(d) : (d \o s)[j] = d[j]
  BY <1>1, <1>2, <1>3
<1>5. \A j \in 1 .. Len(s) : (d \o s)[Len(d) + j] = s[j]
  BY <1>1, <1>2, <1>3
<1> QED
  BY <1>1, <1>4, <1>5

\* Appending a string to the last block.
LEMMA AppendStores ==
  ASSUME NEW a \in Arena, NEW string \in Seq(Byte), Fits(a, string),
         NEW b, b = [a EXCEPT !.blocks[Len(a.blocks)].data = @ \o string],
         NEW ref, ref = [block |-> Len(a.blocks) - 1, offset |-> Len(a.blocks[Len(a.blocks)].data),
                         size |-> Len(string)]
  PROVE  Stored(a, b, ref, string)
<1> DEFINE n == Len(a.blocks)
           d == a.blocks[n].data
           e == d \o string
<1>1. /\ a.blocks \in Seq(Block) /\ n \in Nat /\ n \in 1 .. n /\ a.dead \in Nat
  BY LenProperties, EmptySeq DEF Arena
<1>2. /\ a.blocks[n] \in Block /\ d \in Seq(Byte) /\ Len(d) \in Nat /\ Len(string) \in Nat
      /\ a.blocks[n].capacity \in Nat
      /\ Len(d) + Len(string) <= a.blocks[n].capacity
  <2>1. a.blocks[n] \in Block
    BY <1>1, ElementOfSeq
  <2>2. d \in Seq(Byte) /\ a.blocks[n].capacity \in Nat
    BY <2>1 DEF Block
  <2> QED
    BY <2>1, <2>2, LenProperties, SMTT(30) DEF Fits, Last
<1>3. /\ e \in Seq(Byte) /\ Len(e) = Len(d) + Len(string)
      /\ \A j \in 1 .. Len(d) : e[j] = d[j]
      /\ \A j \in 1 .. Len(string) : e[Len(d) + j] = string[j]
  BY <1>2, AppendedBytes
<1>4. /\ b = [a EXCEPT !.blocks = [a.blocks EXCEPT ![n] = [a.blocks[n] EXCEPT !.data = e]]]
      /\ ref.block = n - 1 /\ ref.offset = Len(d) /\ ref.size = Len(string)
      /\ ref = [block |-> n - 1, offset |-> Len(d), size |-> Len(string)]
  OBVIOUS
<1> HIDE DEF e, d
<1> DEFINE x == [a.blocks[n] EXCEPT !.data = e]
           bs == [a.blocks EXCEPT ![n] = x]
<1>5. x \in Block /\ x.data = e /\ x.capacity = a.blocks[n].capacity
  BY <1>2, <1>3 DEF Block
<1> HIDE DEF x, n
<1>6. /\ bs \in Seq(Block) /\ Len(bs) = n /\ bs[n] = x
      /\ \A i \in 1 .. n : i # n => bs[i] = a.blocks[i]
  BY <1>1, <1>5, ExceptSeq DEF n
<1> HIDE DEF bs
<1>7. b.blocks = bs /\ b.dead = a.dead /\ b \in [blocks : Seq(Block), dead : Nat]
  BY <1>1, <1>4, <1>6 DEF bs, x, Arena
<1>8. b \in Arena
  <2>1. bs # <<>>
    BY <1>1, <1>6, EmptySeq
  <2>2. \A i \in 1 .. n : Len(bs[i].data) <= bs[i].capacity /\ 2 * bs[i].capacity < SizeMod
    <3> TAKE i \in 1 .. n
    <3>1. CASE i = n
      <4>1. Len(e) <= a.blocks[n].capacity /\ 2 * a.blocks[n].capacity < SizeMod
        BY <1>1, <1>2, <1>3 DEF Arena, n
      <4> QED
        BY <3>1, <4>1, <1>5, <1>6
    <3>2. CASE i # n
      BY <3>2, <1>6 DEF Arena, n
    <3> QED
      BY <3>1, <3>2
  <2> QED
    BY <1>6, <1>7, <2>1, <2>2 DEF Arena
<1>9. ref \in Refs /\ n - 1 + 1 = n
  BY <1>1, <1>2, <1>4 DEF Refs
<1>10. BlockOf(b, ref) = x
  BY <1>4, <1>6, <1>7, <1>9 DEF BlockOf
<1>11. Placed(b, ref)
  BY <1>1, <1>2, <1>3, <1>4, <1>5, <1>6, <1>7, <1>9, <1>10 DEF Placed, InArena
<1>12. View(b, ref) = string
  <2>1. /\ View(b, ref) \in Seq(Byte) /\ Len(View(b, ref)) = Len(string)
        /\ \A i \in 1 .. Len(string) : View(b, ref)[i] = e[Len(d) + i]
    <3>1. /\ View(b, ref) \in Seq(Byte) /\ Len(View(b, ref)) = ref.size
          /\ \A i \in 1 .. ref.size : View(b, ref)[i] = BlockOf(b, ref).data[ref.offset + i]
      BY <1>8, <1>11, ViewPlaced, ZenonT(30)
    <3>2. ref.size = Len(string) /\ ref.offset = Len(d) /\ BlockOf(b, ref).data = e
      BY <1>4, <1>5, <1>10
    <3> QED
      BY <3>1, <3>2
  <2> QED
    BY <2>1, <1>3, SeqEqual
<1>13. \A r : Placed(a, r) => Keeps(a, b, r)
  <2>1. \A i \in 1 .. Len(a.blocks) :
           /\ Len(a.blocks[i].data) <= Len(b.blocks[i].data)
           /\ \A j \in 1 .. Len(a.blocks[i].data) : b.blocks[i].data[j] = a.blocks[i].data[j]
    <3> TAKE i \in 1 .. Len(a.blocks)
    <3>1. CASE i = n
      BY <3>1, <1>2, <1>3, <1>5, <1>6, <1>7 DEF d
    <3>2. CASE i # n
      <4>1. a.blocks[i] = b.blocks[i]
        BY <3>2, <1>6, <1>7 DEF n
      <4>2. a.blocks[i] \in Block
        BY <1>1, ElementOfSeq
      <4>3. Len(a.blocks[i].data) \in Nat
        BY <4>2, LenProperties DEF Block
      <4> QED
        BY <4>1, <4>3
    <3> QED
      BY <3>1, <3>2
  <2>2. Len(a.blocks) <= Len(b.blocks)
    BY <1>1, <1>6, <1>7 DEF n
  <2> QED
    BY <1>8, <2>1, <2>2, Grown
<1>14. \A r : Placed(a, r) => Apart(r, ref)
  <2> SUFFICES ASSUME NEW r, Placed(a, r), r.block = ref.block PROVE Apart(r, ref)
    BY DEF Apart
  <2>1. r.block + 1 = n
    BY <1>4, <1>9
  <2>2. BlockOf(a, r).data = d /\ r.offset + r.size <= Len(d)
    BY <2>1, BlockPlaced DEF d
  <2> QED
    BY <2>2, <1>4 DEF Apart
<1>15. Fills(a, b, Len(string))
  <2>1. /\ n \in 1 .. Len(a.blocks) /\ Len(b.blocks) = Len(a.blocks)
        /\ \A i \in 1 .. Len(a.blocks) : i # n => b.blocks[i] = a.blocks[i]
        /\ b.blocks[n].capacity = a.blocks[n].capacity
        /\ Len(b.blocks[n].data) = Len(a.blocks[n].data) + Len(string)
    BY <1>1, <1>3, <1>5, <1>6, <1>7 DEF n, d
  <2> QED
    BY <1>2, <1>7, <1>8, <2>1, BlockFilled
<1> QED
  BY <1>4, <1>8, <1>11, <1>12, <1>13, <1>14, <1>15 DEF Stored

\* An arena has a first block, where the empty string is.
LEMMA NilPlaced ==
  ASSUME NEW a \in Arena
  PROVE  Placed(a, NilRef) /\ NilRef.size = 0 /\ View(a, NilRef) = <<>>
<1>1. NilRef \in Refs /\ NilRef.block = 0 /\ NilRef.offset = 0 /\ NilRef.size = 0
  BY DEF NilRef, Refs
<1>2. a.blocks \in Seq(Block) /\ Len(a.blocks) \in Nat /\ Len(a.blocks) # 0
  BY LenProperties, EmptySeq DEF Arena
<1>3. BlockOf(a, NilRef) = a.blocks[1] /\ a.blocks[1] \in Block
  BY <1>1, <1>2, ElementOfSeq DEF BlockOf
<1>4. Len(a.blocks[1].data) \in Nat
  BY <1>3, LenProperties DEF Block
<1> QED
  BY <1>1, <1>2, <1>3, <1>4, ViewNothing DEF Placed, InArena

\* The empty string is apart from every other.
LEMMA NilApart ==
  ASSUME NEW r \in Refs
  PROVE  Apart(r, NilRef) /\ Apart(NilRef, r)
BY DEF Apart, NilRef, Refs

\* The other reference of two that are apart.
LEMMA ApartSymmetric == \A r, q : Apart(r, q) => Apart(q, r)
BY DEF Apart

\* Keeping is transitive.
LEMMA KeepsOn ==
  ASSUME NEW a, NEW b, NEW c, NEW r, Keeps(a, b, r), Keeps(b, c, r)
  PROVE  Keeps(a, c, r)
BY DEF Keeps

\* store returns a reference to the string, and no string of the arena is
\* where it has put it.
LEMMA StoreProperties ==
  ASSUME NEW a \in Arena, NEW string \in Seq(Byte), 2 * Len(string) < SizeMod
  PROVE  Stored(a, Store(a, string).arena, Store(a, string).ref, string)
<1>1. CASE string = <<>>
  <2>1. Store(a, string).arena = a /\ Store(a, string).ref = NilRef
    BY <1>1 DEF Store
  <2>2. Len(string) = 0
    BY <1>1, EmptySeq
  <2>3. \A r : Placed(a, r) => Keeps(a, a, r) /\ Apart(r, NilRef)
    BY NilApart DEF Keeps, Placed
  <2> QED
    BY <1>1, <2>1, <2>2, <2>3, NilPlaced, FillsNothing DEF Stored
<1>2. CASE string # <<>>
  <2> DEFINE room == WithRoom(a, string)
             last == Len(room.blocks)
             b == [room EXCEPT !.blocks[last].data = @ \o string]
             ref == [block |-> last - 1, offset |-> Len(room.blocks[last].data), size |-> Len(string)]
  <2>1. Store(a, string).arena = b /\ Store(a, string).ref = ref
    BY <1>2 DEF Store
  <2>2. /\ room \in Arena /\ Fills(a, room, 0) /\ Fits(room, string)
        /\ Len(a.blocks) <= Len(room.blocks)
        /\ \A i \in 1 .. Len(a.blocks) : room.blocks[i] = a.blocks[i]
    BY RoomMade
  <2> HIDE DEF room
  <2>3. Stored(room, b, ref, string)
    BY <2>2, AppendStores
  <2>4. \A r : Placed(a, r) => Keeps(a, room, r)
    <3>1. \A i \in 1 .. Len(a.blocks) :
             /\ Len(a.blocks[i].data) <= Len(room.blocks[i].data)
             /\ \A j \in 1 .. Len(a.blocks[i].data) : room.blocks[i].data[j] = a.blocks[i].data[j]
      <4> TAKE i \in 1 .. Len(a.blocks)
      <4>1. a.blocks \in Seq(Block)
        BY DEF Arena
      <4>2. a.blocks[i] \in Block
        BY <4>1, ElementOfSeq
      <4>3. Len(a.blocks[i].data) \in Nat
        BY <4>2, LenProperties DEF Block
      <4> QED
        BY <2>2, <4>3
    <3> QED
      BY <2>2, <3>1, Grown
  <2> HIDE DEF b, ref
  <2>5. \A r : Placed(a, r) => Keeps(a, b, r) /\ Apart(r, ref)
    BY <2>3, <2>4, KeepsOn DEF Stored, Keeps
  <2>6. Fills(a, b, Len(string))
    <3>1. Len(string) \in Nat /\ 0 + Len(string) = Len(string)
      BY LenProperties
    <3> QED
      BY <2>2, <2>3, <3>1, FillsBoth DEF Stored
  <2> QED
    BY <2>1, <2>2, <2>3, <2>5, <2>6 DEF Stored
<1> QED
  BY <1>1, <1>2

-----------------------------------------------------------------------------
(* overwrite and remove.                                                   *)

\* What writing over a string leaves: every string apart from it.
Wrote(a, b, q, string) ==
  /\ b \in Arena /\ Len(b.blocks) = Len(a.blocks) /\ Fills(a, b, 0)
  /\ Placed(b, q) /\ View(b, q) = string
  /\ \A r : Placed(a, r) /\ Apart(r, q) => Keeps(a, b, r)

\* Writing as many bytes as the reference names changes those and no others.
LEMMA WriteProperties ==
  ASSUME NEW a \in Arena, NEW q, Placed(a, q), NEW string \in Seq(Byte), Len(string) = q.size
  PROVE  Wrote(a, WriteAt(a, q, string), q, string)
<1> DEFINE n == q.block + 1
           d == a.blocks[n].data
           e == Written(d, q.offset, string)
           x == [a.blocks[n] EXCEPT !.data = e]
           bs == [a.blocks EXCEPT ![n] = x]
           b == WriteAt(a, q, string)
<1>1. /\ q.block \in Nat /\ q.offset \in Nat /\ q.size \in Nat /\ n \in 1 .. Len(a.blocks)
      /\ BlockOf(a, q) = a.blocks[n] /\ a.blocks[n] \in Block
      /\ d \in Seq(Byte) /\ Len(d) \in Nat /\ q.offset + q.size <= Len(d)
  BY BlockPlaced
<1>2. a.blocks \in Seq(Block) /\ Len(a.blocks) \in Nat
  BY LenProperties DEF Arena
<1>3. b = [a EXCEPT !.blocks = bs]
  BY DEF WriteAt
<1> HIDE DEF b
<1>4. /\ e \in Seq(Byte) /\ Len(e) = Len(d)
      /\ \A j \in 1 .. Len(d) : e[j] = IF j \in q.offset + 1 .. q.offset + q.size
                                         THEN string[j - q.offset] ELSE d[j]
  <2> DEFINE g == [j \in 1 .. Len(d) |-> IF j \in q.offset + 1 .. q.offset + q.size
                                           THEN string[j - q.offset] ELSE d[j]]
  <2> HIDE DEF d
  <2>1. DOMAIN d = 1 .. Len(d)
    BY <1>1, LenProperties
  <2>2. e = g
    BY <2>1 DEF Written
  <2>3. \A j \in 1 .. Len(d) : g[j] \in Byte
    <3> TAKE j \in 1 .. Len(d)
    <3>1. d[j] \in Byte
      BY <1>1, ElementOfSeq
    <3>2. ASSUME j \in q.offset + 1 .. q.offset + q.size PROVE string[j - q.offset] \in Byte
      <4>1. j - q.offset \in 1 .. Len(string)
        BY <3>2, <1>1
      <4> QED
        BY <4>1, ElementOfSeq
    <3> QED
      BY <3>1, <3>2
  <2>4. g \in Seq(Byte) /\ Len(g) = Len(d)
    BY <2>3, <1>1
  <2> QED
    BY <2>2, <2>4
<1> HIDE DEF e, d
<1>5. x \in Block /\ x.data = e /\ x.capacity = a.blocks[n].capacity
  BY <1>1, <1>4 DEF Block
<1> HIDE DEF x, n
<1>6. /\ bs \in Seq(Block) /\ Len(bs) = Len(a.blocks) /\ bs[n] = x
      /\ \A i \in 1 .. Len(a.blocks) : i # n => bs[i] = a.blocks[i]
  BY <1>1, <1>2, <1>5, ExceptSeq
<1> HIDE DEF bs
<1>7. b.blocks = bs /\ b.dead = a.dead /\ b \in [blocks : Seq(Block), dead : Nat]
  BY <1>3, <1>6 DEF Arena
<1>8. b \in Arena
  <2>1. bs # <<>>
    BY <1>1, <1>2, <1>6, EmptySeq
  <2>2. \A i \in 1 .. Len(a.blocks) : Len(bs[i].data) <= bs[i].capacity /\ 2 * bs[i].capacity < SizeMod
    <3> TAKE i \in 1 .. Len(a.blocks)
    <3>1. CASE i = n
      <4>1. Len(d) <= a.blocks[n].capacity /\ 2 * a.blocks[n].capacity < SizeMod
        BY <1>1 DEF Arena, d
      <4> QED
        BY <3>1, <4>1, <1>4, <1>5, <1>6
    <3>2. CASE i # n
      BY <3>2, <1>6 DEF Arena
    <3> QED
      BY <3>1, <3>2
  <2> QED
    BY <1>6, <1>7, <2>1, <2>2 DEF Arena
<1>9. ASSUME NEW r, Placed(a, r), r = q \/ Apart(r, q)
      PROVE  /\ Placed(b, r)
             /\ \A j \in 1 .. r.size : BlockOf(b, r).data[r.offset + j]
                  = IF r = q THEN string[j] ELSE BlockOf(a, r).data[r.offset + j]
  <2>1. /\ r.block \in Nat /\ r.offset \in Nat /\ r.size \in Nat
        /\ r.block + 1 \in 1 .. Len(a.blocks) /\ BlockOf(a, r) = a.blocks[r.block + 1]
        /\ r.offset + r.size <= Len(BlockOf(a, r).data)
    BY <1>9, BlockPlaced
  <2>2. BlockOf(b, r) = bs[r.block + 1]
    BY <1>7 DEF BlockOf
  <2>3. CASE r.block + 1 # n
    <3>1. BlockOf(b, r) = BlockOf(a, r) /\ r # q
      BY <2>1, <2>2, <2>3, <1>6 DEF n
    <3>2. r \in Refs /\ r.block < Len(b.blocks)
      BY <1>6, <1>7, <1>9 DEF Placed, InArena
    <3> QED
      BY <2>1, <3>1, <3>2 DEF Placed, InArena
  <2>4. CASE r.block + 1 = n
    <3>1. BlockOf(b, r).data = e /\ BlockOf(a, r).data = d /\ r.block = q.block
      BY <2>1, <2>2, <2>4, <1>1, <1>5, <1>6 DEF d, n
    <3>2. r \in Refs /\ r.block < Len(b.blocks)
      BY <1>6, <1>7, <1>9 DEF Placed, InArena
    <3>3. Placed(b, r)
      BY <2>1, <3>1, <3>2, <1>4 DEF Placed, InArena
    <3>4. ASSUME NEW j \in 1 .. r.size
          PROVE  e[r.offset + j] = IF r = q THEN string[j] ELSE d[r.offset + j]
      <4>1. r.offset + j \in 1 .. Len(d)
        <5>1. \A o, z, m \in Nat : j \in 1 .. z /\ o + z <= m => o + j \in 1 .. m
          OBVIOUS
        <5> QED
          BY <5>1, <2>1, <3>1, <1>1
      <4>2. CASE r = q
        <5> DEFINE k == q.offset + j
        <5>1. k \in q.offset + 1 .. q.offset + q.size /\ k - q.offset = j
          BY <4>2, <1>1
        <5>2. k \in 1 .. Len(d) /\ r.offset + j = k
          BY <4>1, <4>2
        <5> HIDE DEF k
        <5>3. e[k] = string[k - q.offset]
          BY <5>1, <5>2, <1>4
        <5> QED
          BY <4>2, <5>1, <5>2, <5>3
      <4>3. CASE r # q
        <5>1. r.offset + r.size <= q.offset \/ q.offset + q.size <= r.offset
          BY <4>3, <1>9, <3>1 DEF Apart
        <5>2. \A o, z, p, y \in Nat : j \in 1 .. z /\ (o + z <= p \/ p + y <= o) => o + j \notin p + 1 .. p + y
          OBVIOUS
        <5>3. r.offset + j \notin q.offset + 1 .. q.offset + q.size
          BY <5>1, <5>2, <1>1, <2>1
        <5> QED
          BY <4>1, <4>3, <5>3, <1>4
      <4> QED
        BY <4>2, <4>3
    <3> QED
      BY <3>1, <3>3, <3>4
  <2> QED
    BY <2>3, <2>4
<1>10. Placed(b, q) /\ View(b, q) = string
  <2>1. Placed(b, q) /\ \A j \in 1 .. q.size : BlockOf(b, q).data[q.offset + j] = string[j]
    BY <1>9
  <2>2. /\ View(b, q) \in Seq(Byte) /\ Len(View(b, q)) = q.size
        /\ \A j \in 1 .. q.size : View(b, q)[j] = BlockOf(b, q).data[q.offset + j]
    BY <2>1, <1>8, ViewPlaced
  <2>3. \A j \in 1 .. Len(View(b, q)) : View(b, q)[j] = string[j]
    BY <2>1, <2>2
  <2> QED
    BY <2>1, <2>2, <2>3, SeqEqual
<1>11. ASSUME NEW r, Placed(a, r), Apart(r, q) PROVE Keeps(a, b, r)
  <2>1. CASE r = q
    <3>1. r.size = 0
      BY <2>1, <1>1, <1>11 DEF Apart
    <3> QED
      BY <2>1, <3>1, <1>10, ViewNothing DEF Keeps
  <2>2. CASE r # q
    BY <2>2, <1>8, <1>9, <1>11, SameBytes DEF Keeps
  <2> QED
    BY <2>1, <2>2
<1>12. Fills(a, b, 0)
  <2>1. /\ n \in 1 .. Len(a.blocks) /\ Len(b.blocks) = Len(a.blocks)
        /\ \A i \in 1 .. Len(a.blocks) : i # n => b.blocks[i] = a.blocks[i]
        /\ b.blocks[n].capacity = a.blocks[n].capacity
        /\ Len(b.blocks[n].data) = Len(a.blocks[n].data) + 0
    BY <1>1, <1>4, <1>5, <1>6, <1>7 DEF n, d
  <2> QED
    BY <1>7, <1>8, <2>1, BlockFilled
<1> QED
  BY <1>6, <1>7, <1>8, <1>10, <1>11, <1>12 DEF Wrote, b

\* What replacing or storing a value leaves: the value at the new reference,
\* and every string that was apart from the old value.
Put(a, b, old, ref, v) ==
  /\ b \in Arena
  /\ OverwritesValue(old, v) => Len(v) = old.size /\ Fills(a, b, 0)
  /\ ~OverwritesValue(old, v) => Fills(a, b, Len(v))
  /\ Placed(b, ref) /\ View(b, ref) = v
  /\ \A r : Placed(a, r) /\ Apart(r, old) => Keeps(a, b, r) /\ Apart(r, ref)

\* An overwrite that clears bytes at all clears half of the address space, and
\* leaves the block: one that does not leave it replaces as many bytes.
LEMMA OverwritesAll ==
  ASSUME NEW a \in Arena, NEW ref, Placed(a, ref), ref.size # 0,
         NEW v \in Values, OverwritesValue(ref, v), ~OverwriteFaults(a, ref, v)
  PROVE  Len(v) = ref.size /\ ClearedBytes(ref, v) = 0
<1>1. /\ ref.offset \in Nat /\ ref.size \in Nat /\ BlockOf(a, ref) \in Block
      /\ ref.offset + ref.size <= BlockOf(a, ref).capacity /\ 2 * BlockOf(a, ref).capacity < SizeMod
  <2>1. /\ ref.block + 1 \in 1 .. Len(a.blocks) /\ BlockOf(a, ref) = a.blocks[ref.block + 1]
        /\ BlockOf(a, ref) \in Block /\ Len(BlockOf(a, ref).data) \in Nat
        /\ ref.offset \in Nat /\ ref.size \in Nat
        /\ ref.offset + ref.size <= Len(BlockOf(a, ref).data)
    BY BlockPlaced
  <2>2. Len(BlockOf(a, ref).data) <= BlockOf(a, ref).capacity /\ 2 * BlockOf(a, ref).capacity < SizeMod
    BY <2>1 DEF Arena
  <2>3. BlockOf(a, ref).capacity \in Nat
    BY <2>1 DEF Block
  <2>4. \A o, z, m, n \in Nat : o + z <= m /\ m <= n => o + z <= n
    OBVIOUS
  <2>5. ref.offset + ref.size <= BlockOf(a, ref).capacity
    BY <2>1, <2>2, <2>3, <2>4
  <2> QED
    BY <2>1, <2>2, <2>5
<1>2. Len(v) \in Nat /\ Len(v) <= ref.size
  BY StringsAssumption, LenProperties DEF OverwritesValue
<1>3. SizeMod \in Nat \ {0} /\ BlockOf(a, ref).capacity \in Nat
  BY <1>1, ArenaAssumption DEF Block
<1> DEFINE d == ref.size - Len(v)
<1>4. d \in Nat /\ ClearedBytes(ref, v) = (-d) % SizeMod
  <2>1. Len(v) - ref.size = -d
    BY <1>1, <1>2
  <2> QED
    BY <1>1, <1>2, <2>1 DEF ClearedBytes
<1>5. CASE d > 0
  <2>1. d <= ref.size /\ d < SizeMod
    BY <1>1, <1>2, <1>3
  <2> HIDE DEF d
  <2>2. (-d) % SizeMod = SizeMod - d
    BY <1>3, <1>4, <1>5, <2>1
  <2>3. ref.offset + Len(v) + ClearedBytes(ref, v) > BlockOf(a, ref).capacity /\ ClearedBytes(ref, v) > 0
    BY <1>1, <1>2, <1>3, <1>4, <2>1, <2>2, SMTT(30)
  <2>4. OverwriteFaults(a, ref, v)
    BY <2>3 DEF OverwriteFaults, Placed
  <2> QED
    BY <2>4
<1>6. CASE d = 0
  BY <1>1, <1>2, <1>3, <1>4, <1>6
<1> QED
  BY <1>4, <1>5, <1>6

\* set puts a value over one as long, or stores it elsewhere.
LEMMA PutValueProperties ==
  ASSUME NEW a \in Arena, NEW old, Placed(a, old), NEW v \in Values,
         ~(OverwritesValue(old, v) /\ OverwriteFaults(a, old, v))
  PROVE  Put(a, PutValue(a, old, v).arena, old, PutValue(a, old, v).ref, v)
<1>0. v \in Seq(Byte) /\ 2 * Len(v) < SizeMod /\ Len(v) \in Nat
  BY StringsAssumption, LenProperties
<1>1. CASE ~OverwritesValue(old, v)
  <2>1. PutValue(a, old, v) = Store(a, v)
    BY <1>1 DEF PutValue
  <2>2. Stored(a, Store(a, v).arena, Store(a, v).ref, v)
    BY <1>0, StoreProperties
  <2> QED
    BY <1>1, <2>1, <2>2 DEF Put, Stored
<1>2. CASE OverwritesValue(old, v) /\ old.size = 0
  <2>1. PutValue(a, old, v).arena = a /\ PutValue(a, old, v).ref = NilRef
    BY <1>2 DEF PutValue, Overwrite
  <2>2. v = <<>>
    BY <1>0, <1>2, EmptySeq DEF OverwritesValue
  <2>3. \A r : Placed(a, r) => Keeps(a, a, r) /\ Apart(r, NilRef)
    BY NilApart DEF Keeps, Placed
  <2>4. Len(v) = old.size
    BY <1>2, <2>2, EmptySeq
  <2> QED
    BY <1>2, <2>1, <2>2, <2>3, <2>4, NilPlaced, FillsNothing DEF Put
<1>3. CASE OverwritesValue(old, v) /\ old.size # 0
  <2>1. Len(v) = old.size /\ ClearedBytes(old, v) = 0
    BY <1>3, OverwritesAll
  <2>2. v \o Zeros(0) = v
    <3>1. Zeros(0) = <<>>
      BY DEF Zeros
    <3> QED
      BY <3>1, <1>0, ConcatEmptySeq
  <2>3. [old EXCEPT !.size = Len(v)] = old
    BY <2>1 DEF Placed, Refs
  <2>4. Overwrite(a, old, v) = [arena |-> WriteAt(a, old, v), ref |-> old]
    BY <1>3, <2>1, <2>2, <2>3 DEF Overwrite, Placed
  <2>5. PutValue(a, old, v).arena = WriteAt(a, old, v) /\ PutValue(a, old, v).ref = old
    BY <1>3, <2>4 DEF PutValue
  <2>6. Wrote(a, WriteAt(a, old, v), old, v)
    BY <1>0, <2>1, WriteProperties
  <2> QED
    BY <1>3, <2>1, <2>5, <2>6 DEF Put, Wrote
<1> QED
  BY <1>1, <1>2, <1>3

\* What remove leaves: the bytes of the string counted, and every string apart
\* from it.
Freed(a, b, q) ==
  /\ b \in Arena
  /\ b.dead = a.dead + q.size /\ UsedSize(b) = UsedSize(a)
  /\ \A r : Placed(a, r) /\ Apart(r, q) => Keeps(a, b, r)

\* Zeros are bytes.
LEMMA ZerosAreBytes ==
  ASSUME NEW n \in Nat
  PROVE  Zeros(n) \in Seq(Byte) /\ Len(Zeros(n)) = n
BY DEF Zeros, Byte

\* remove clears the bytes of the string and counts them.
LEMMA FreeProperties ==
  ASSUME NEW a \in Arena, NEW q, Placed(a, q)
  PROVE  Freed(a, Free(a, q), q)
<1>1. CASE ~(q.offset < Len(BlockOf(a, q).data))
  <2>1. Free(a, q) = a
    BY <1>1 DEF Free
  <2>2. /\ q.offset \in Nat /\ q.size \in Nat /\ Len(BlockOf(a, q).data) \in Nat
        /\ q.offset + q.size <= Len(BlockOf(a, q).data)
    BY BlockPlaced
  <2>3. q.size = 0 /\ a.dead + 0 = a.dead
    BY <1>1, <2>2 DEF Arena
  <2> QED
    BY <2>1, <2>3 DEF Freed, Keeps
<1>2. CASE q.offset < Len(BlockOf(a, q).data)
  <2> DEFINE b == WriteAt(a, q, Zeros(q.size))
             c == [b EXCEPT !.dead = @ + q.size]
  <2>1. Free(a, q) = c
    BY <1>2 DEF Free, Placed
  <2>2. q.size \in Nat /\ Zeros(q.size) \in Seq(Byte) /\ Len(Zeros(q.size)) = q.size
    BY ZerosAreBytes DEF Placed, Refs
  <2>3. Wrote(a, b, q, Zeros(q.size))
    BY <2>2, WriteProperties
  <2>4. b \in Arena
    BY <2>3 DEF Wrote
  <2> HIDE DEF b
  <2>5. c.blocks = b.blocks /\ c \in Arena
    <3>1. b \in [blocks : Seq(Block), dead : Nat]
      BY <2>4 DEF Arena
    <3>2. c \in [blocks : Seq(Block), dead : Nat] /\ c.blocks = b.blocks
      BY <2>2, <3>1
    <3> HIDE DEF c
    <3> QED
      BY <2>4, <3>2 DEF Arena
  <2>6. \A r : (Placed(b, r) => Placed(c, r)) /\ View(c, r) = View(b, r)
    BY <2>5 DEF Placed, InArena, View, BlockOf
  <2>7. c.dead = b.dead + q.size
    BY <2>4 DEF Arena
  <2>8. UsedSize(c) = UsedSize(b)
    BY <2>5 DEF UsedSize
  <2> HIDE DEF c
  <2>9. c.dead = a.dead + q.size /\ UsedSize(c) = UsedSize(a)
    BY <2>3, <2>7, <2>8, ArenaSums DEF Wrote, Fills
  <2> QED
    BY <2>1, <2>3, <2>5, <2>6, <2>9 DEF Freed, Wrote, Keeps
<1> QED
  BY <1>1, <1>2

\* The arena of the constructor.
LEMMA NewArenaIsArena == NewArena \in Arena
<1> DEFINE n == NewBlock(BlockSize)
<1>1. n \in Block /\ n.capacity = BlockSize /\ Len(n.data) = 0
  BY ArenaAssumption DEF NewBlock, Block
<1> HIDE DEF n
<1>2. NewArena = [blocks |-> <<n>>, dead |-> 0]
  BY DEF NewArena, n
<1>3. <<n>> \in Seq(Block) /\ Len(<<n>>) = 1 /\ <<n>>[1] = n /\ <<n>> # <<>>
  BY <1>1
<1>4. \A i \in 1 .. Len(<<n>>) : <<n>>[i] = n
  BY <1>3
<1>5. 2 * BlockSize < SizeMod /\ BlockSize \in Nat
  BY StringsAssumption, ArenaAssumption
<1> HIDE DEF n
<1> DEFINE bs == <<n>>
<1>6. bs # <<>> /\ \A i \in 1 .. Len(bs) : Len(bs[i].data) <= bs[i].capacity /\ 2 * bs[i].capacity < SizeMod
  BY <1>1, <1>3, <1>4, <1>5
<1>7. NewArena \in [blocks : Seq(Block), dead : Nat] /\ NewArena.blocks = bs
  BY <1>2, <1>3
<1> HIDE DEF bs
<1> QED
  BY <1>6, <1>7 DEF Arena

-----------------------------------------------------------------------------
(* Tables.                                                                 *)

Stores == [key : Refs, value : Refs, deleted : BOOLEAN]

HasKey(e) == e.key.size # 0

\* A live entry refers to a key and a value, which do not overlap.
Sound(e, a) ==
  HasKey(e) =>
    /\ ~e.deleted
    /\ Placed(a, e.key) /\ View(a, e.key) \in Keys
    /\ Placed(a, e.value) /\ View(a, e.value) \in Values
    /\ Apart(e.key, e.value)

EntryApart(e, r) == Apart(e.key, r) /\ Apart(e.value, r)

EntriesApart(d, e) == EntryApart(d, e.key) /\ EntryApart(d, e.value)

\* A table all of whose strings are in one arena, none over another.
Good(t, cap, a) ==
  /\ t \in [Slots(cap) -> Stores]
  /\ \A s \in Slots(cap) : Sound(t[s], a)
  /\ \A r, s \in Slots(cap) : r # s /\ HasKey(t[r]) /\ HasKey(t[s]) => EntriesApart(t[r], t[s])

Shows(t, cap, a) == [s \in Slots(cap) |-> Entry(t[s], a)]

\* The strings of an entry are still there.
EntryKept(e, a, b) == HasKey(e) => Keeps(a, b, e.key) /\ Keeps(a, b, e.value)

\* A key is not the empty string, so what an entry shows tells if it has one.
LEMMA EntryShown ==
  ASSUME NEW a, NEW e \in Stores, Sound(e, a)
  PROVE  /\ Entry(e, a) \in Entries
         /\ HasKey(e) => Entry(e, a) = Live(View(a, e.key), View(a, e.value))
         /\ HasKey(e) => Entry(e, a).key \in Keys
         /\ ~HasKey(e) => Entry(e, a) = IF e.deleted THEN Tombstone ELSE Virgin
         /\ Entry(e, a).key # NoKey <=> HasKey(e)
         /\ Entry(e, a).deleted = e.deleted
<1>1. CASE HasKey(e)
  <2>1. e.deleted = FALSE /\ View(a, e.key) \in Keys /\ View(a, e.value) \in Values
    BY <1>1 DEF Sound, Stores
  <2>2. Entry(e, a) = [key |-> View(a, e.key), value |-> View(a, e.value), deleted |-> FALSE]
    BY <1>1, <2>1 DEF Entry, HasKey
  <2>3. View(a, e.key) # NoKey
    BY <2>1, NoneAssumption
  <2>4. Entry(e, a) \in Entries
    BY <2>1, <2>2 DEF Entries
  <2>5. /\ Entry(e, a) = Live(View(a, e.key), View(a, e.value))
        /\ Entry(e, a).key = View(a, e.key) /\ Entry(e, a).deleted = FALSE
    BY <2>2 DEF Live
  <2> QED
    BY <1>1, <2>1, <2>3, <2>4, <2>5
<1>2. CASE ~HasKey(e)
  <2>1. Entry(e, a) = IF e.deleted THEN Tombstone ELSE Virgin
    BY <1>2 DEF Entry, HasKey
  <2>2. e.deleted \in BOOLEAN
    BY DEF Stores
  <2>3. \A d \in BOOLEAN : LET shown == IF d THEN Tombstone ELSE Virgin IN
                             shown \in Entries /\ shown.key = NoKey /\ shown.deleted = d
    BY DEF Entries, Tombstone, Virgin
  <2> QED
    BY <1>2, <2>1, <2>2, <2>3
<1> QED
  BY <1>1, <1>2

\* An entry whose strings are kept shows the same.
LEMMA EntryStays ==
  ASSUME NEW a, NEW b, NEW e \in Stores, Sound(e, a), EntryKept(e, a, b)
  PROVE  Sound(e, b) /\ Entry(e, b) = Entry(e, a)
BY DEF Sound, EntryKept, Keeps, Entry, HasKey

\* One slot is given another entry, the other entries keep their strings: the
\* table stays good, and it shows that.
LEMMA PutSlot ==
  ASSUME NEW cap, NEW a, NEW b, NEW t, Good(t, cap, a),
         NEW s \in Slots(cap), NEW x \in Stores, Sound(x, b),
         \A r \in Slots(cap) : r # s => /\ EntryKept(t[r], a, b)
                                        /\ HasKey(t[r]) /\ HasKey(x) => EntriesApart(t[r], x)
  PROVE  /\ Good([t EXCEPT ![s] = x], cap, b)
         /\ Shows([t EXCEPT ![s] = x], cap, b) = [Shows(t, cap, a) EXCEPT ![s] = Entry(x, b)]
<1> DEFINE u == [t EXCEPT ![s] = x]
<1>1. /\ u \in [Slots(cap) -> Stores] /\ u[s] = x
      /\ \A r \in Slots(cap) : r # s => u[r] = t[r]
  BY DEF Good
<1> HIDE DEF u
<1>2. \A r \in Slots(cap) : r # s => Sound(t[r], b) /\ Entry(t[r], b) = Entry(t[r], a)
  BY EntryStays DEF Good
<1>3. \A r \in Slots(cap) : Sound(u[r], b)
  BY <1>1, <1>2
<1>4. ASSUME NEW q \in Slots(cap), NEW r \in Slots(cap), q # r, HasKey(u[q]), HasKey(u[r])
      PROVE  EntriesApart(u[q], u[r])
  <2>1. CASE q # s /\ r # s
    BY <1>1, <1>4, <2>1 DEF Good
  <2>2. CASE r = s
    BY <1>1, <1>4, <2>2
  <2>3. CASE q = s
    <3>1. EntriesApart(u[r], u[q])
      BY <1>1, <1>4, <2>3
    <3> QED
      BY <3>1, ApartSymmetric DEF EntriesApart, EntryApart
  <2> QED
    BY <2>1, <2>2, <2>3
<1>5. Good(u, cap, b)
  BY <1>1, <1>3, <1>4 DEF Good
<1>6. \A r \in Slots(cap) : Entry(u[r], b) = IF r = s THEN Entry(x, b) ELSE Entry(t[r], a)
  BY <1>1, <1>2
<1>7. Shows(u, cap, b) = [Shows(t, cap, a) EXCEPT ![s] = Entry(x, b)]
  BY <1>6 DEF Shows
<1> QED
  BY <1>5, <1>7 DEF u

\* A table without entries.
LEMMA UnusedTableGood ==
  ASSUME NEW cap, NEW a
  PROVE  Good(UnusedTable(cap), cap, a) /\ Shows(UnusedTable(cap), cap, a) = EmptyTable(cap)
<1>1. Unused \in Stores /\ ~HasKey(Unused) /\ Entry(Unused, a) = Virgin
  BY DEF Unused, NilRef, Stores, Refs, HasKey, Entry
<1>2. \A s \in Slots(cap) : UnusedTable(cap)[s] = Unused
  BY DEF UnusedTable
<1>3. UnusedTable(cap) \in [Slots(cap) -> Stores]
  BY <1>1 DEF UnusedTable
<1>4. Good(UnusedTable(cap), cap, a)
  BY <1>1, <1>2, <1>3 DEF Good, Sound
<1>5. Shows(UnusedTable(cap), cap, a) = EmptyTable(cap)
  BY <1>1, <1>2 DEF Shows, EmptyTable
<1> QED
  BY <1>4, <1>5

\* The entry for a new key, both strings stored.
LEMMA PutEntryProperties ==
  ASSUME NEW a \in Arena, NEW k \in Keys, NEW v \in Values
  PROVE  LET put == PutEntry(a, k, v) IN
         /\ put.arena \in Arena
         /\ put.entry \in Stores /\ HasKey(put.entry) /\ Sound(put.entry, put.arena)
         /\ Entry(put.entry, put.arena) = Live(k, v)
         /\ \A r : Placed(a, r) => /\ Keeps(a, put.arena, r)
                                   /\ Apart(r, put.entry.key) /\ Apart(r, put.entry.value)
         /\ Fills(a, put.arena, LiveBytes(put.entry))
<1> DEFINE key == Store(a, k)
           value == PutValue(key.arena, NilRef, v)
           e == [key |-> key.ref, value |-> value.ref, deleted |-> FALSE]
<1>1. PutEntry(a, k, v).arena = value.arena /\ PutEntry(a, k, v).entry = e
  BY DEF PutEntry
<1>2. k \in Seq(Byte) /\ 2 * Len(k) < SizeMod /\ Len(k) # 0
  BY StringsAssumption, KeysAreStrings, NoneAssumption, EmptySeq
<1>3. Stored(a, key.arena, key.ref, k)
  BY <1>2, StoreProperties
<1> HIDE DEF key
<1>4. key.arena \in Arena
  BY <1>3 DEF Stored
<1>5. Put(key.arena, value.arena, NilRef, value.ref, v)
  <2>1. ~OverwriteFaults(key.arena, NilRef, v)
    BY DEF OverwriteFaults, NilRef
  <2> QED
    BY <1>4, <2>1, NilPlaced, PutValueProperties
<1> HIDE DEF value
<1>6. value.arena \in Arena /\ Placed(value.arena, value.ref) /\ View(value.arena, value.ref) = v
  BY <1>5 DEF Put
<1>7. \A r : Placed(key.arena, r) => Keeps(key.arena, value.arena, r) /\ Apart(r, value.ref)
  BY <1>5, NilApart DEF Put, Placed
<1>8. Placed(key.arena, key.ref) /\ View(key.arena, key.ref) = k /\ key.ref.size # 0
  BY <1>2, <1>3 DEF Stored
<1>9. Placed(value.arena, key.ref) /\ View(value.arena, key.ref) = k /\ Apart(key.ref, value.ref)
  BY <1>7, <1>8 DEF Keeps
<1>10. e \in Stores /\ HasKey(e) /\ e.key = key.ref /\ e.value = value.ref /\ e.deleted = FALSE
  BY <1>6, <1>8 DEF Stores, HasKey, Placed
<1> HIDE DEF e
<1>11. Sound(e, value.arena)
  BY <1>6, <1>9, <1>10 DEF Sound
<1>12. Entry(e, value.arena) = Live(k, v)
  BY <1>6, <1>9, <1>10, <1>11, EntryShown
<1>13. \A r : Placed(a, r) => Keeps(a, key.arena, r) /\ Apart(r, key.ref)
  BY <1>3 DEF Stored
<1>14. \A r : Placed(a, r) => /\ Keeps(a, value.arena, r)
                              /\ Apart(r, e.key) /\ Apart(r, e.value)
  BY <1>7, <1>10, <1>13, KeepsOn DEF Keeps
<1>15. Fills(a, value.arena, LiveBytes(e))
  <2>1. value.ref.size = Len(v) /\ Len(v) \in Nat
    BY <1>6, ViewPlaced, StringsAssumption, LenProperties
  <2>2. Fills(key.arena, value.arena, Len(v))
    <3>1. OverwritesValue(NilRef, v) => Len(v) = 0
      BY <1>5 DEF Put, NilRef
    <3> QED
      BY <1>5, <3>1 DEF Put
  <2>3. LiveBytes(e) = Len(k) + Len(v) /\ Len(k) \in Nat
    BY <1>2, <1>3, <1>8, <1>10, <2>1, LenProperties DEF LiveBytes, Stored
  <2> QED
    BY <1>3, <1>4, <1>6, <2>1, <2>2, <2>3, FillsBoth DEF Stored
<1> QED
  BY <1>1, <1>6, <1>10, <1>11, <1>12, <1>14, <1>15

-----------------------------------------------------------------------------
(* The inductive invariant.                                                *)

Types ==
  /\ capacity \in Nat /\ capacity >= 4
  /\ table \in [Slots(capacity) -> Stores]
  /\ arena \in Arena /\ newArena \in Arena
  /\ phase \in {"idle", "resize", "compact", "faulted"}
  /\ next \in 0 .. capacity

\* What is in use only while a loop runs is as that loop leaves it.
Phases ==
  /\ phase # "resize" => fresh = UnusedTable(2 * capacity) /\ request = NoRequest
  /\ phase = "resize" => request \in [key : Keys, value : Values]
  /\ phase \in {"idle", "faulted"} => next = 0
  /\ phase # "compact" => newArena = NewArena

\* Every live entry refers to strings in the arena it belongs to.
InPlace == \A s \in Slots(capacity) : Sound(table[s], ArenaOf(s))

\* The strings of two entries in the same arena do not overlap.
Separate ==
  \A r, s \in Slots(capacity) :
    /\ r # s /\ HasKey(table[r]) /\ HasKey(table[s])
    /\ phase = "compact" => (r < next <=> s < next)
    => EntriesApart(table[r], table[s])

\* The table that resize fills refers to strings of the slots it has passed.
NewTable ==
  /\ Good(fresh, 2 * capacity, arena)
  /\ \A s \in Slots(2 * capacity) :
       /\ ~fresh[s].deleted
       /\ HasKey(fresh[s]) => \E r \in Slots(capacity) : r < next /\ fresh[s] = table[r]

AInv == Types /\ Phases /\ InPlace /\ Separate /\ NewTable

\* Outside the copy of remove the whole table is in one arena.
LEMMA OneArena ==
  ASSUME AInv, phase # "compact"
  PROVE  /\ Good(table, capacity, arena) /\ Shown = Shows(table, capacity, arena)
         /\ ShownFresh = Shows(fresh, 2 * capacity, arena)
         /\ arena \in Arena /\ newArena = NewArena /\ capacity \in Nat /\ capacity >= 4
<1>1. \A s \in Slots(capacity) : ArenaOf(s) = arena
  BY DEF ArenaOf
<1>2. Good(table, capacity, arena)
  BY <1>1 DEF AInv, Types, InPlace, Separate, Good
<1>3. Shown = Shows(table, capacity, arena)
  BY <1>1 DEF Shown, Shows
<1>4. ShownFresh = Shows(fresh, 2 * capacity, arena)
  <2>1. DOMAIN fresh = Slots(2 * capacity)
    BY DEF AInv, NewTable, Good
  <2> QED
    BY <2>1 DEF ShownFresh, Shows
<1> QED
  BY <1>2, <1>3, <1>4 DEF AInv, Types, Phases

\* No loop runs.
LEMMA AtRest ==
  ASSUME AInv, phase = "idle"
  PROVE  /\ Good(table, capacity, arena) /\ Shown = Shows(table, capacity, arena)
         /\ ShownFresh = EmptyTable(2 * capacity) /\ fresh = UnusedTable(2 * capacity)
         /\ arena \in Arena /\ newArena = NewArena /\ capacity \in Nat /\ capacity >= 4
         /\ request = NoRequest /\ next = 0
<1>1. fresh = UnusedTable(2 * capacity) /\ request = NoRequest /\ next = 0
  BY DEF AInv, Phases
<1>2. phase # "compact"
  OBVIOUS
<1>3. ShownFresh = EmptyTable(2 * capacity)
  BY <1>1, <1>2, OneArena, UnusedTableGood
<1> QED
  BY <1>1, <1>2, <1>3, OneArena

\* A step to a state in which no loop has begun.
LEMMA ComesToRest ==
  ASSUME capacity' \in Nat, capacity' >= 4, arena' \in Arena, Good(table', capacity', arena'),
         phase' \in {"idle", "compact", "faulted"}, request' = NoRequest,
         fresh' = UnusedTable(2 * capacity'), newArena' = NewArena, next' = 0
  PROVE  /\ AInv' /\ Shown' = Shows(table', capacity', arena')
         /\ ShownFresh' = EmptyTable(2 * capacity')
<1>1. \A s \in Slots(capacity') : ~(s < 0) /\ ArenaOf(s)' = arena'
  BY DEF ArenaOf, Slots
<1>2. Types'
  BY NewArenaIsArena DEF Types, Good
<1>3. Phases'
  BY DEF Phases
<1>4. InPlace' /\ Separate'
  BY <1>1 DEF InPlace, Separate, Good
<1>5. Shown' = Shows(table', capacity', arena')
  BY <1>1 DEF Shown, Shows
<1>6. Good(fresh', 2 * capacity', arena') /\ Shows(fresh', 2 * capacity', arena') = EmptyTable(2 * capacity')
  BY UnusedTableGood
<1>7. NewTable'
  <2>1. ~HasKey(Unused) /\ ~Unused.deleted
    BY DEF Unused, NilRef, HasKey
  <2>2. \A s \in Slots(2 * capacity') : fresh'[s] = Unused
    BY DEF UnusedTable
  <2> QED
    BY <1>6, <2>1, <2>2 DEF NewTable
<1>8. ShownFresh' = Shows(fresh', 2 * capacity', arena')
  <2>1. DOMAIN fresh' = Slots(2 * capacity')
    BY DEF UnusedTable
  <2> QED
    BY <2>1 DEF ShownFresh, Shows
<1> QED
  BY <1>2, <1>3, <1>4, <1>5, <1>6, <1>7, <1>8 DEF AInv

\* The constructor.
LEMMA InitSound ==
  ASSUME Init
  PROVE  /\ AInv /\ Shown = EmptyTable(InitCapacity) /\ ShownFresh = EmptyTable(2 * InitCapacity)
<1>1. /\ capacity = InitCapacity /\ capacity \in Nat /\ capacity >= 4
      /\ arena = NewArena /\ newArena = NewArena /\ NewArena \in Arena
      /\ table = UnusedTable(capacity) /\ fresh = UnusedTable(2 * capacity)
      /\ phase = "idle" /\ next = 0 /\ request = NoRequest
  BY CapacityAssumption, NewArenaIsArena DEF Init
<1>2. \A s \in Slots(capacity) : ArenaOf(s) = arena
  BY <1>1 DEF ArenaOf
<1>3. /\ Good(table, capacity, arena) /\ Shows(table, capacity, arena) = EmptyTable(capacity)
      /\ Good(fresh, 2 * capacity, arena) /\ Shows(fresh, 2 * capacity, arena) = EmptyTable(2 * capacity)
  BY <1>1, UnusedTableGood
<1>4. Types /\ Phases
  BY <1>1, <1>3 DEF Types, Phases, Good
<1>5. InPlace /\ Separate
  BY <1>1, <1>2, <1>3 DEF InPlace, Separate, Good
<1>6. NewTable
  <2>1. ~HasKey(Unused) /\ ~Unused.deleted
    BY DEF Unused, NilRef, HasKey
  <2>2. \A s \in Slots(2 * capacity) : fresh[s] = Unused
    BY <1>1 DEF UnusedTable
  <2> QED
    BY <1>3, <2>1, <2>2 DEF NewTable
<1>7. AInv
  BY <1>4, <1>5, <1>6 DEF AInv
<1> QED
  BY <1>1, <1>3, <1>7, OneArena

\* Mine and the one of FastMap.
LEMMA SameOperators ==
  /\ \A t, k, c : /\ Map!Match(t, k, c) = Match(t, k, c)
                  /\ Map!SlotFor(t, k, c) = SlotFor(t, k, c)
                  /\ Map!VirginSlotFor(t, k, c) = VirginSlotFor(t, k, c)
                  /\ Map!Lookup(t, k, c) = Lookup(t, k, c)
  /\ \A c : Map!EmptyTable(c) = EmptyTable(c)
  /\ \A k, v : Map!Live(k, v) = Live(k, v)
  /\ \A op, k, v, out : Map!Reply(op, k, v, out) = Reply(op, k, v, out)
  /\ Map!Tombstone = Tombstone /\ Map!NoRequest = NoRequest
  /\ Map!NeedsResize = NeedsResize
<1>1. \A t, k, c : Map!Match(t, k, c) = Match(t, k, c)
  BY DEF Map!Match, Match, Map!Nearest, Nearest, Map!Stops, Stops, Map!Dist, Dist, Map!Home, Home, Map!Slots, Slots
<1>2. \A t, k, c : Map!SlotFor(t, k, c) = SlotFor(t, k, c)
  BY <1>1 DEF Map!SlotFor, SlotFor, Map!Nearest, Nearest, Map!Dist, Dist, Map!Home, Home, Map!Slots, Slots
<1>3. \A t, k, c : Map!VirginSlotFor(t, k, c) = VirginSlotFor(t, k, c)
  BY DEF Map!VirginSlotFor, VirginSlotFor, Map!Nearest, Nearest, Map!Dist, Dist, Map!Home, Home, Map!Slots,
         Slots, Map!IsVirgin, IsVirgin
<1>4. \A t, k, c : Map!Lookup(t, k, c) = Lookup(t, k, c)
  <2> TAKE t, k, c
  <2> DEFINE In(S) == IF S = {} THEN NoValue ELSE t[CHOOSE s \in S : TRUE].value
  <2>1. Map!Lookup(t, k, c) = In(Map!Match(t, k, c)) /\ Lookup(t, k, c) = In(Match(t, k, c))
    BY DEF Map!Lookup, Lookup
  <2>2. Map!Match(t, k, c) = Match(t, k, c)
    BY <1>1
  <2> HIDE DEF In
  <2> QED
    BY <2>1, <2>2
<1>5. \A c : Map!EmptyTable(c) = EmptyTable(c)
  BY DEF Map!EmptyTable, EmptyTable, Map!Virgin, Virgin, Map!Slots, Slots
<1>6. \A k, v : Map!Live(k, v) = Live(k, v)
  BY DEF Map!Live, Live
<1>7. \A op, k, v, out : Map!Reply(op, k, v, out) = Reply(op, k, v, out)
  BY DEF Map!Reply, Reply
<1>8. Map!Tombstone = Tombstone /\ Map!NoRequest = NoRequest /\ Map!NeedsResize = NeedsResize
  BY DEF Map!Tombstone, Tombstone, Map!NoRequest, NoRequest, Map!NeedsResize, NeedsResize
<1> QED
  BY <1>1, <1>2, <1>3, <1>4, <1>5, <1>6, <1>7, <1>8

-----------------------------------------------------------------------------
(* Every operation preserves the invariant and does what FastMap does.     *)

\* The slots a search returns.
LEMMA SearchedSlots ==
  ASSUME NEW t, NEW k, NEW cap
  PROVE  SlotFor(t, k, cap) \subseteq Slots(cap) /\ VirginSlotFor(t, k, cap) \subseteq Slots(cap)
BY DEF SlotFor, VirginSlotFor, Match, Nearest, Stops

\* The entries of a good table by what they show.
LEMMA SlotShown ==
  ASSUME NEW t, NEW cap, NEW a, Good(t, cap, a), NEW s \in Slots(cap)
  PROVE  /\ t[s] \in Stores /\ Sound(t[s], a) /\ Shows(t, cap, a)[s] = Entry(t[s], a)
         /\ Shows(t, cap, a)[s].key # NoKey <=> HasKey(t[s])
         /\ Shows(t, cap, a)[s].deleted = t[s].deleted
         /\ HasKey(t[s]) => Shows(t, cap, a)[s] = Live(View(a, t[s].key), View(a, t[s].value))
<1>1. t[s] \in Stores /\ Sound(t[s], a) /\ Shows(t, cap, a)[s] = Entry(t[s], a)
  BY DEF Good, Shows
<1> QED
  BY <1>1, EntryShown

\* An operation that changes nothing but the reply.
LEMMA ReplyKeeps ==
  ASSUME AInv, UNCHANGED <<capacity, table, arena, phase, request, fresh, newArena, next>>
  PROVE  AInv' /\ Shown' = Shown /\ ShownFresh' = ShownFresh
<1>1. Shown' = Shown /\ ShownFresh' = ShownFresh
  BY DEF Shown, ArenaOf, ShownFresh
<1>2. Types' /\ Phases' /\ InPlace' /\ Separate' /\ NewTable'
  BY DEF AInv, Types, Phases, InPlace, Separate, NewTable, ArenaOf
<1> QED
  BY <1>1, <1>2 DEF AInv

\* get.
LEMMA GetStep ==
  ASSUME AInv, NEW k \in Keys, Get(k)
  PROVE  AInv' /\ Map!Get(k)
<1>1. AInv' /\ Shown' = Shown /\ ShownFresh' = ShownFresh
  BY ReplyKeeps DEF Get
<1>2. phase = "idle" /\ phase' = "idle" /\ request = NoRequest
  BY AtRest DEF Get
<1>3. Map!Idle
  BY <1>2, SameOperators DEF Map!Idle
<1>4. reply' = Map!Reply("get", k, NoValue, Map!Lookup(Shown, k, capacity))
  BY SameOperators DEF Get
<1> QED
  BY <1>1, <1>2, <1>3, <1>4 DEF Map!Get, Get

\* remove of a key that is not there.
LEMMA RemoveMissingStep ==
  ASSUME AInv, NEW k \in Keys, RemoveMissing(k)
  PROVE  AInv' /\ Map!RemoveMissing(k)
<1>1. AInv' /\ Shown' = Shown /\ ShownFresh' = ShownFresh
  BY ReplyKeeps DEF RemoveMissing
<1>2. phase = "idle" /\ phase' = "idle" /\ request = NoRequest
  BY AtRest DEF RemoveMissing
<1>3. Map!Idle
  BY <1>2, SameOperators DEF Map!Idle
<1>4. reply' = Map!Reply("del", k, NoValue, NoValue) /\ Map!Match(Shown, k, capacity) = {}
  BY SameOperators DEF RemoveMissing
<1> QED
  BY <1>1, <1>2, <1>3, <1>4 DEF Map!RemoveMissing, RemoveMissing

\* An entry with another value.
LEMMA NewValue ==
  ASSUME NEW e \in Entries, NEW v \in Values
  PROVE  [e EXCEPT !.value = v] = [key |-> e.key, value |-> v, deleted |-> e.deleted]
BY DEF Entries

\* set of a key that has a value.
LEMMA SetExistingStep ==
  ASSUME AInv, NEW k \in Keys, NEW v \in Values, SetExisting(k, v)
  PROVE  AInv' /\ Map!SetExisting(k, v)
<1>1. phase = "idle" /\ phase' = "idle"
  BY DEF SetExisting
<1>2. /\ Good(table, capacity, arena) /\ Shown = Shows(table, capacity, arena)
      /\ ShownFresh = EmptyTable(2 * capacity) /\ fresh = UnusedTable(2 * capacity)
      /\ arena \in Arena /\ newArena = NewArena /\ capacity \in Nat /\ capacity >= 4
      /\ request = NoRequest /\ next = 0
  BY <1>1, AtRest
<1>3. PICK s \in SlotFor(Shown, k, capacity) :
        /\ Shown[s].key # NoKey
        /\ ~(OverwritesValue(table[s].value, v) /\ OverwriteFaults(arena, table[s].value, v))
        /\ table' = [table EXCEPT ![s].value = PutValue(arena, table[s].value, v).ref]
        /\ arena' = PutValue(arena, table[s].value, v).arena
  BY DEF SetExisting
<1> DEFINE e == table[s]
           put == PutValue(arena, e.value, v)
           x == [e EXCEPT !.value = put.ref]
<1>4. s \in Slots(capacity)
  BY SearchedSlots
<1>5. e \in Stores /\ HasKey(e) /\ Sound(e, arena) /\ Shown[s] = Live(View(arena, e.key), View(arena, e.value))
  BY <1>2, <1>3, <1>4, SlotShown
<1>6. /\ Placed(arena, e.key) /\ View(arena, e.key) \in Keys /\ Placed(arena, e.value)
      /\ Apart(e.key, e.value) /\ ~e.deleted
  BY <1>5 DEF Sound
<1>7. Put(arena, put.arena, e.value, put.ref, v)
  BY <1>2, <1>3, <1>6, PutValueProperties
<1>8. table' = [table EXCEPT ![s] = x] /\ arena' = put.arena
  BY <1>3
<1> HIDE DEF put
<1>9. x \in Stores /\ x.key = e.key /\ x.value = put.ref /\ x.deleted = FALSE
  BY <1>5, <1>6, <1>7 DEF Put, Placed, Stores
<1> HIDE DEF x, e
<1>10. HasKey(x)
  BY <1>5, <1>9 DEF HasKey
<1>11. Keeps(arena, put.arena, e.key) /\ Apart(e.key, put.ref)
  BY <1>6, <1>7 DEF Put
<1>12. Sound(x, put.arena) /\ Entry(x, put.arena) = Live(View(arena, e.key), v)
  <2>1. Sound(x, put.arena)
    BY <1>6, <1>7, <1>9, <1>11 DEF Sound, Put, Keeps
  <2> QED
    BY <2>1, <1>7, <1>9, <1>10, <1>11, EntryShown DEF Put, Keeps
<1>13. ASSUME NEW r \in Slots(capacity), r # s
       PROVE  /\ EntryKept(table[r], arena, put.arena)
              /\ HasKey(table[r]) /\ HasKey(x) => EntriesApart(table[r], x)
  <2> SUFFICES ASSUME HasKey(table[r])
               PROVE  EntryKept(table[r], arena, put.arena) /\ EntriesApart(table[r], x)
    BY DEF EntryKept
  <2>1. Placed(arena, table[r].key) /\ Placed(arena, table[r].value)
    BY <1>2 DEF Good, Sound
  <2>2. EntriesApart(table[r], e)
    BY <1>2, <1>4, <1>5, <1>13 DEF Good, e
  <2>3. Apart(table[r].key, e.value) /\ Apart(table[r].value, e.value) /\ EntryApart(table[r], e.key)
    BY <2>2 DEF EntriesApart, EntryApart
  <2>4. Keeps(arena, put.arena, table[r].key) /\ Apart(table[r].key, put.ref)
    BY <2>1, <2>3, <1>7 DEF Put
  <2>5. Keeps(arena, put.arena, table[r].value) /\ Apart(table[r].value, put.ref)
    BY <2>1, <2>3, <1>7 DEF Put
  <2> QED
    BY <2>3, <2>4, <2>5, <1>9 DEF EntryKept, EntriesApart, EntryApart
<1>14. /\ Good(table', capacity, arena')
       /\ Shows(table', capacity, arena') = [Shown EXCEPT ![s] = Entry(x, put.arena)]
  <2>1. /\ Good([table EXCEPT ![s] = x], capacity, put.arena)
        /\ Shows([table EXCEPT ![s] = x], capacity, put.arena)
             = [Shows(table, capacity, arena) EXCEPT ![s] = Entry(x, put.arena)]
    BY <1>2, <1>4, <1>9, <1>12, <1>13, PutSlot
  <2> QED
    BY <2>1, <1>2, <1>8
<1>15. arena' \in Arena
  BY <1>7, <1>8 DEF Put
<1>16. UNCHANGED <<capacity, size, phase, request, fresh, newArena, next>> /\ reply' = Reply("set", k, v, OK)
  BY DEF SetExisting
<1>17. AInv' /\ Shown' = Shows(table', capacity', arena') /\ ShownFresh' = EmptyTable(2 * capacity')
  BY <1>1, <1>2, <1>14, <1>15, <1>16, ComesToRest
<1>18. Shown' = [Shown EXCEPT ![s].value = v]
  <2>1. Shown[s] \in Entries
    BY <1>2, <1>4, SlotShown, EntryShown
  <2>2. [Shown[s] EXCEPT !.value = v] = Live(View(arena, e.key), v)
    BY <2>1, <1>5, NewValue DEF Live
  <2> QED
    BY <2>2, <1>12, <1>14, <1>16, <1>17
<1>19. Map!Idle /\ UNCHANGED ShownFresh
  BY <1>2, <1>16, <1>17, SameOperators DEF Map!Idle
<1>20. /\ reply' = Map!Reply("set", k, v, OK)
       /\ \E r \in Map!SlotFor(Shown, k, capacity) :
            Shown[r].key # NoKey /\ Shown' = [Shown EXCEPT ![r].value = v]
  BY <1>3, <1>16, <1>18, SameOperators
<1> QED
  BY <1>1, <1>16, <1>17, <1>19, <1>20 DEF Map!SetExisting

\* A set whose memset leaves the block ends the program, and changes nothing
\* of the map before that.
LEMMA SetFaultsStep ==
  ASSUME AInv, NEW k \in Keys, NEW v \in Values, SetFaults(k, v)
  PROVE  AInv' /\ UNCHANGED Map!vars
<1>1. phase = "idle" /\ phase' = "faulted"
      /\ UNCHANGED <<capacity, size, table, arena, request, fresh, newArena, next, reply>>
  BY DEF SetFaults
<1>2. /\ Good(table, capacity, arena) /\ Shown = Shows(table, capacity, arena)
      /\ ShownFresh = EmptyTable(2 * capacity) /\ fresh = UnusedTable(2 * capacity)
      /\ arena \in Arena /\ newArena = NewArena /\ capacity \in Nat /\ capacity >= 4
      /\ request = NoRequest /\ next = 0
  BY <1>1, AtRest
<1>3. AInv' /\ Shown' = Shows(table', capacity', arena') /\ ShownFresh' = EmptyTable(2 * capacity')
  BY <1>1, <1>2, ComesToRest
<1>4. Shown' = Shown /\ ShownFresh' = ShownFresh
  BY <1>1, <1>2, <1>3
<1> QED
  BY <1>1, <1>3, <1>4 DEF Map!vars

\* A new entry in a table.
LEMMA PutEntrySlot ==
  ASSUME NEW a \in Arena, NEW cap, NEW t, Good(t, cap, a), NEW s \in Slots(cap),
         NEW k \in Keys, NEW v \in Values
  PROVE  LET put == PutEntry(a, k, v) IN
         /\ put.arena \in Arena
         /\ Good([t EXCEPT ![s] = put.entry], cap, put.arena)
         /\ Shows([t EXCEPT ![s] = put.entry], cap, put.arena) = [Shows(t, cap, a) EXCEPT ![s] = Live(k, v)]
<1> DEFINE put == PutEntry(a, k, v)
<1>1. /\ put.arena \in Arena
      /\ put.entry \in Stores /\ HasKey(put.entry) /\ Sound(put.entry, put.arena)
      /\ Entry(put.entry, put.arena) = Live(k, v)
      /\ \A r : Placed(a, r) => /\ Keeps(a, put.arena, r)
                                /\ Apart(r, put.entry.key) /\ Apart(r, put.entry.value)
  BY PutEntryProperties
<1> HIDE DEF put
<1>2. ASSUME NEW r \in Slots(cap), r # s
      PROVE  /\ EntryKept(t[r], a, put.arena)
             /\ HasKey(t[r]) /\ HasKey(put.entry) => EntriesApart(t[r], put.entry)
  <2>1. HasKey(t[r]) => Placed(a, t[r].key) /\ Placed(a, t[r].value)
    BY DEF Good, Sound
  <2> QED
    BY <1>1, <2>1 DEF EntryKept, EntriesApart, EntryApart
<1>3. /\ Good([t EXCEPT ![s] = put.entry], cap, put.arena)
      /\ Shows([t EXCEPT ![s] = put.entry], cap, put.arena) = [Shows(t, cap, a) EXCEPT ![s] = Entry(put.entry, put.arena)]
  BY <1>1, <1>2, PutSlot
<1> QED
  BY <1>1, <1>3 DEF put

\* set of a new key.
LEMMA SetNewStep ==
  ASSUME AInv, NEW k \in Keys, NEW v \in Values, SetNew(k, v)
  PROVE  AInv' /\ Map!SetNew(k, v)
<1>1. phase = "idle" /\ phase' = "idle"
  BY DEF SetNew
<1>2. /\ Good(table, capacity, arena) /\ Shown = Shows(table, capacity, arena)
      /\ ShownFresh = EmptyTable(2 * capacity) /\ fresh = UnusedTable(2 * capacity)
      /\ arena \in Arena /\ newArena = NewArena /\ capacity \in Nat /\ capacity >= 4
      /\ request = NoRequest /\ next = 0
  BY <1>1, AtRest
<1>3. PICK s \in SlotFor(Shown, k, capacity) :
        /\ Shown[s].key = NoKey
        /\ ~NeedsResize
        /\ table' = [table EXCEPT ![s] = PutEntry(arena, k, v).entry]
        /\ arena' = PutEntry(arena, k, v).arena
  BY DEF SetNew
<1>4. s \in Slots(capacity)
  BY SearchedSlots
<1>5. UNCHANGED <<capacity, phase, request, fresh, newArena, next>> /\ size' = size + 1
      /\ reply' = Reply("set", k, v, OK)
  BY DEF SetNew
<1>6. /\ arena' \in Arena /\ Good(table', capacity, arena')
      /\ Shows(table', capacity, arena') = [Shown EXCEPT ![s] = Live(k, v)]
  <2> DEFINE put == PutEntry(arena, k, v)
  <2>1. /\ put.arena \in Arena
        /\ Good([table EXCEPT ![s] = put.entry], capacity, put.arena)
        /\ Shows([table EXCEPT ![s] = put.entry], capacity, put.arena)
             = [Shows(table, capacity, arena) EXCEPT ![s] = Live(k, v)]
    BY <1>2, <1>4, PutEntrySlot
  <2> HIDE DEF put
  <2>2. table' = [table EXCEPT ![s] = put.entry] /\ arena' = put.arena
    BY <1>3 DEF put
  <2> QED
    BY <2>1, <2>2, <1>2
<1>7. AInv' /\ Shown' = Shows(table', capacity', arena') /\ ShownFresh' = EmptyTable(2 * capacity')
  BY <1>1, <1>2, <1>5, <1>6, ComesToRest
<1>8. Map!Idle /\ UNCHANGED ShownFresh
  BY <1>2, <1>5, <1>7, SameOperators DEF Map!Idle
<1>9. /\ reply' = Map!Reply("set", k, v, OK)
      /\ \E r \in Map!SlotFor(Shown, k, capacity) :
            Shown[r].key = NoKey /\ ~Map!NeedsResize /\ Shown' = [Shown EXCEPT ![r] = Map!Live(k, v)]
  BY <1>3, <1>5, <1>6, <1>7, SameOperators
<1> QED
  BY <1>1, <1>5, <1>7, <1>8, <1>9 DEF Map!SetNew

\* clear.
LEMMA ClearStep ==
  ASSUME AInv, Clear
  PROVE  AInv' /\ Map!Clear
<1>1. phase = "idle" /\ phase' = "idle"
  BY DEF Clear
<1>2. /\ ShownFresh = EmptyTable(2 * capacity) /\ fresh = UnusedTable(2 * capacity)
      /\ newArena = NewArena /\ capacity \in Nat /\ capacity >= 4
      /\ request = NoRequest /\ next = 0
  BY <1>1, AtRest
<1>3. /\ UNCHANGED <<capacity, request, fresh, newArena, next>> /\ size' = 0
      /\ table' = UnusedTable(capacity) /\ arena' = NewArena /\ reply' = Reply("flush", NoKey, NoValue, OK)
  BY DEF Clear
<1>4. Good(table', capacity, arena') /\ Shows(table', capacity, arena') = EmptyTable(capacity)
  BY <1>3, UnusedTableGood
<1>5. AInv' /\ Shown' = Shows(table', capacity', arena') /\ ShownFresh' = EmptyTable(2 * capacity')
  BY <1>1, <1>2, <1>3, <1>4, NewArenaIsArena, ComesToRest
<1>6. Map!Idle /\ UNCHANGED ShownFresh
  BY <1>2, <1>3, <1>5, SameOperators DEF Map!Idle
<1>7. Shown' = Map!EmptyTable(capacity) /\ reply' = Map!Reply("flush", NoKey, NoValue, OK)
  BY <1>3, <1>4, <1>5, SameOperators
<1> QED
  BY <1>1, <1>3, <1>5, <1>6, <1>7 DEF Map!Clear

\* remove up to the copy of the arena.
LEMMA RemoveFoundStep ==
  ASSUME AInv, NEW k \in Keys, RemoveFound(k)
  PROVE  AInv' /\ Map!Remove(k)
<1>1. phase = "idle" /\ phase' \in {"idle", "compact"}
  BY DEF RemoveFound
<1>2. /\ Good(table, capacity, arena) /\ Shown = Shows(table, capacity, arena)
      /\ ShownFresh = EmptyTable(2 * capacity) /\ fresh = UnusedTable(2 * capacity)
      /\ arena \in Arena /\ newArena = NewArena /\ capacity \in Nat /\ capacity >= 4
      /\ request = NoRequest /\ next = 0
  BY <1>1, AtRest
<1>3. PICK s \in Match(Shown, k, capacity) :
        /\ table' = [table EXCEPT ![s] = Marked]
        /\ arena' = Free(Free(arena, table[s].key), table[s].value)
  BY DEF RemoveFound
<1>4. s \in Slots(capacity) /\ Shown[s].key = k
  BY DEF Match, Nearest, Stops
<1>5. UNCHANGED <<capacity, request, fresh, newArena, next>> /\ size' = size - 1
      /\ reply' = Reply("del", k, NoValue, OK)
  BY DEF RemoveFound
<1> DEFINE e == table[s]
           b == Free(arena, e.key)
           c == Free(b, e.value)
<1>6. /\ HasKey(e) /\ Placed(arena, e.key) /\ Placed(arena, e.value) /\ Apart(e.value, e.key)
  <2>1. HasKey(e) /\ Sound(e, arena)
    BY <1>2, <1>4, NoneAssumption, SlotShown
  <2> QED
    BY <2>1, ApartSymmetric DEF Sound
<1>7. Freed(arena, b, e.key)
  BY <1>2, <1>6, FreeProperties
<1> HIDE DEF b
<1>8. b \in Arena /\ Placed(b, e.value)
  BY <1>6, <1>7 DEF Freed, Keeps
<1>9. Freed(b, c, e.value) /\ c = arena'
  BY <1>3, <1>8, FreeProperties DEF b
<1> HIDE DEF c
<1>10. ASSUME NEW r \in Slots(capacity), r # s, HasKey(table[r])
       PROVE  EntryKept(table[r], arena, c)
  <2>1. EntriesApart(table[r], e)
    BY <1>2, <1>4, <1>6, <1>10 DEF Good
  <2>2. Placed(arena, table[r].key) /\ Placed(arena, table[r].value)
    BY <1>2, <1>10 DEF Good, Sound
  <2> HIDE DEF e
  <2>3. Keeps(arena, b, table[r].key) /\ Keeps(arena, b, table[r].value)
    BY <2>1, <2>2, <1>7 DEF Freed, EntriesApart, EntryApart
  <2>4. Placed(b, table[r].key) /\ Placed(b, table[r].value)
    BY <2>3 DEF Keeps
  <2>5. Keeps(b, c, table[r].key) /\ Keeps(b, c, table[r].value)
    BY <2>1, <2>4, <1>9 DEF Freed, EntriesApart, EntryApart
  <2> QED
    BY <2>3, <2>5, KeepsOn DEF EntryKept
<1>11. Marked \in Stores /\ ~HasKey(Marked) /\ Sound(Marked, c) /\ Entry(Marked, c) = Tombstone
  <2>1. Unused \in Stores /\ Unused.key = NilRef
    BY DEF Unused, NilRef, Stores, Refs
  <2>2. Marked \in Stores /\ Marked.key = NilRef /\ Marked.deleted = TRUE
    BY <2>1 DEF Marked, Stores
  <2>3. ~HasKey(Marked)
    BY <2>2 DEF NilRef, HasKey
  <2> QED
    BY <2>2, <2>3 DEF HasKey, Sound, Entry
<1>12. \A r \in Slots(capacity) : r # s => /\ EntryKept(table[r], arena, c)
                                           /\ HasKey(table[r]) /\ HasKey(Marked) => EntriesApart(table[r], Marked)
  BY <1>10, <1>11 DEF EntryKept
<1>13. /\ Good([table EXCEPT ![s] = Marked], capacity, c)
       /\ Shows([table EXCEPT ![s] = Marked], capacity, c)
            = [Shows(table, capacity, arena) EXCEPT ![s] = Entry(Marked, c)]
  BY <1>2, <1>4, <1>11, <1>12, PutSlot
<1>14. /\ arena' \in Arena /\ Good(table', capacity, arena')
       /\ Shows(table', capacity, arena') = [Shown EXCEPT ![s] = Tombstone]
  BY <1>2, <1>3, <1>9, <1>11, <1>13 DEF Freed
<1>15. AInv' /\ Shown' = Shows(table', capacity', arena') /\ ShownFresh' = EmptyTable(2 * capacity')
  BY <1>1, <1>2, <1>5, <1>14, ComesToRest
<1>16. Map!Idle /\ UNCHANGED ShownFresh
  BY <1>2, <1>5, <1>15, SameOperators DEF Map!Idle
<1>17. /\ reply' = Map!Reply("del", k, NoValue, OK)
       /\ \E r \in Map!Match(Shown, k, capacity) : Shown' = [Shown EXCEPT ![r] = Map!Tombstone]
  BY <1>3, <1>5, <1>14, <1>15, SameOperators
<1>18. (IF phase' = "compact" THEN 0 ELSE next') = (IF phase = "compact" THEN 0 ELSE next)
  BY <1>1, <1>2, <1>5
<1> QED
  BY <1>5, <1>15, <1>16, <1>17, <1>18 DEF Map!Remove

\* A resize pending or not: a request's key is a key.
LEMMA RequestOfKey ==
  ASSUME request \in [key : Keys, value : Values]
  PROVE  request.key \in Keys /\ request.value \in Values /\ request # NoRequest
BY NoneAssumption DEF NoRequest

\* set of a new key into a table that is too full.
LEMMA StartResizeStep ==
  ASSUME AInv, NEW k \in Keys, NEW v \in Values, StartResize(k, v)
  PROVE  AInv' /\ Map!StartResize(k, v)
<1>1. phase = "idle" /\ phase' = "resize"
  BY DEF StartResize
<1>2. /\ Good(table, capacity, arena) /\ Shown = Shows(table, capacity, arena)
      /\ ShownFresh = EmptyTable(2 * capacity) /\ fresh = UnusedTable(2 * capacity)
      /\ arena \in Arena /\ newArena = NewArena /\ capacity \in Nat /\ capacity >= 4
      /\ request = NoRequest /\ next = 0
  BY <1>1, AtRest
<1>3. /\ UNCHANGED <<capacity, size, table, arena, newArena, reply>>
      /\ request' = [key |-> k, value |-> v] /\ fresh' = UnusedTable(2 * capacity) /\ next' = 0
      /\ \E s \in SlotFor(Shown, k, capacity) : Shown[s].key = NoKey
      /\ NeedsResize
  BY DEF StartResize
<1>4. UNCHANGED <<fresh, next>>
  BY <1>2, <1>3
<1>5. \A s : ArenaOf(s)' = ArenaOf(s)
  BY <1>1, <1>3 DEF ArenaOf
<1>6. Shown' = Shown /\ ShownFresh' = ShownFresh
  BY <1>3, <1>4, <1>5 DEF Shown, ShownFresh
<1>7. Types'
  BY <1>1, <1>3, <1>4 DEF AInv, Types
<1>8. Phases'
  <2>1. request' \in [key : Keys, value : Values]
    BY <1>3
  <2> QED
    BY <2>1, <1>1, <1>2, <1>3 DEF Phases
<1>9. InPlace' /\ Separate' /\ NewTable'
  BY <1>1, <1>3, <1>4, <1>5 DEF AInv, InPlace, Separate, NewTable
<1>10. AInv'
  BY <1>7, <1>8, <1>9 DEF AInv
<1>11. Map!Idle /\ UNCHANGED Shown /\ ShownFresh' = Map!EmptyTable(2 * capacity)
  BY <1>2, <1>6, SameOperators DEF Map!Idle
<1>12. /\ \E s \in Map!SlotFor(Shown, k, capacity) : Shown[s].key = NoKey
       /\ Map!NeedsResize
  BY <1>3, SameOperators
<1> QED
  BY <1>1, <1>3, <1>10, <1>11, <1>12 DEF Map!StartResize

\* A resize is under way.
LEMMA Resizing ==
  ASSUME AInv, phase = "resize"
  PROVE  /\ Good(table, capacity, arena) /\ Shown = Shows(table, capacity, arena)
         /\ Good(fresh, 2 * capacity, arena) /\ ShownFresh = Shows(fresh, 2 * capacity, arena)
         /\ arena \in Arena /\ newArena = NewArena /\ capacity \in Nat /\ capacity >= 4
         /\ next \in 0 .. capacity
         /\ request.key \in Keys /\ request.value \in Values /\ ~Map!Idle
<1>1. phase # "compact"
  OBVIOUS
<1>2. request.key \in Keys /\ request.value \in Values /\ request # NoRequest
  BY RequestOfKey DEF AInv, Phases
<1>3. ~Map!Idle
  BY <1>2, SameOperators DEF Map!Idle
<1> QED
  BY <1>1, <1>2, <1>3, OneArena DEF AInv, Types, NewTable

\* One slot of the old table.
LEMMA RehashStep ==
  ASSUME AInv, Rehash
  PROVE  AInv' /\ Map!Rehash
<1> DEFINE e == table[next]
<1>1. phase = "resize" /\ phase' = "resize" /\ next < capacity /\ next' = next + 1
      /\ UNCHANGED <<capacity, size, table, arena, phase, request, newArena, reply>>
  BY DEF Rehash
<1>2. /\ Good(table, capacity, arena) /\ Shown = Shows(table, capacity, arena)
      /\ Good(fresh, 2 * capacity, arena) /\ ShownFresh = Shows(fresh, 2 * capacity, arena)
      /\ capacity \in Nat /\ capacity >= 4 /\ next \in 0 .. capacity /\ ~Map!Idle
  BY <1>1, Resizing
<1>3. next \in Slots(capacity) /\ next \in Nat
  BY <1>1, <1>2 DEF Slots
<1>4. /\ e \in Stores /\ Sound(e, arena) /\ Shown[next] = Entry(e, arena)
      /\ (Shown[next].key # NoKey <=> HasKey(e))
      /\ (HasKey(e) => Shown[next] = Live(View(arena, e.key), View(arena, e.value)))
  BY <1>2, <1>3, SlotShown
<1>5. /\ Good(fresh', 2 * capacity, arena) 
      /\ \A s \in Slots(2 * capacity) :
           /\ ~fresh'[s].deleted
           /\ HasKey(fresh'[s]) => \E r \in Slots(capacity) : r < next' /\ fresh'[s] = table[r]
      /\ \/ ~HasKey(e) /\ fresh' = fresh
         \/ /\ HasKey(e)
            /\ \E s \in VirginSlotFor(ShownFresh, View(arena, e.key), 2 * capacity) :
                 Shows(fresh', 2 * capacity, arena) = [ShownFresh EXCEPT ![s] = Entry(e, arena)]
  <2>1. /\ Good(fresh, 2 * capacity, arena)
        /\ \A s \in Slots(2 * capacity) :
             /\ ~fresh[s].deleted
             /\ HasKey(fresh[s]) => \E r \in Slots(capacity) : r < next /\ fresh[s] = table[r]
    BY DEF AInv, NewTable
  <2>2. \A r \in Slots(capacity) : r < next => r < next'
    BY <1>1, <1>3 DEF Slots
  <2>3. CASE ~HasKey(e)
    <3>1. fresh' = fresh
      BY <2>3 DEF Rehash, HasKey
    <3> QED
      BY <2>1, <2>2, <2>3, <3>1
  <2>4. CASE HasKey(e)
    <3>1. PICK s \in VirginSlotFor(ShownFresh, View(arena, e.key), 2 * capacity) :
            fresh' = [fresh EXCEPT ![s].key = e.key, ![s].value = e.value]
      BY <2>4 DEF Rehash, HasKey
    <3>2. s \in Slots(2 * capacity)
      BY SearchedSlots
    <3>3. /\ e.key \in Refs /\ e.value \in Refs /\ e.deleted = FALSE
          /\ fresh[s] \in Stores /\ fresh[s].deleted = FALSE
      BY <1>4, <2>1, <2>4, <3>2 DEF Stores, Sound, Good
    <3>4. [[fresh[s] EXCEPT !.key = e.key] EXCEPT !.value = e.value] = e
      BY <1>4, <3>3 DEF Stores
    <3>5. fresh' = [fresh EXCEPT ![s] = e]
      BY <3>1, <3>4
    <3> HIDE DEF e
    <3>6. ASSUME NEW r \in Slots(2 * capacity), r # s
          PROVE  /\ EntryKept(fresh[r], arena, arena)
                 /\ HasKey(fresh[r]) /\ HasKey(e) => EntriesApart(fresh[r], e)
      <4>1. EntryKept(fresh[r], arena, arena)
        BY <2>1 DEF EntryKept, Good, Sound, Keeps
      <4>2. ASSUME HasKey(fresh[r]) PROVE EntriesApart(fresh[r], e)
        <5>1. PICK q \in Slots(capacity) : q < next /\ fresh[r] = table[q]
          BY <2>1, <4>2
        <5> QED
          BY <5>1, <4>2, <2>4, <1>2, <1>3 DEF Good, e
      <4> QED
        BY <4>1, <4>2
    <3>7. /\ Good([fresh EXCEPT ![s] = e], 2 * capacity, arena)
          /\ Shows([fresh EXCEPT ![s] = e], 2 * capacity, arena)
               = [Shows(fresh, 2 * capacity, arena) EXCEPT ![s] = Entry(e, arena)]
      BY <1>2, <1>4, <3>2, <3>6, PutSlot
    <3>8. ASSUME NEW r \in Slots(2 * capacity)
          PROVE  /\ ~fresh'[r].deleted
                 /\ HasKey(fresh'[r]) => \E q \in Slots(capacity) : q < next' /\ fresh'[r] = table[q]
      <4>1. fresh'[r] = IF r = s THEN e ELSE fresh[r]
        BY <3>2, <3>5, <2>1 DEF Good
      <4>2. next < next' /\ e = table[next]
        BY <1>1, <1>3 DEF e
      <4> QED
        BY <4>1, <4>2, <1>3, <2>1, <2>2, <3>3
    <3>9. Shows(fresh', 2 * capacity, arena) = [ShownFresh EXCEPT ![s] = Entry(e, arena)]
      BY <3>5, <3>7, <1>2
    <3> QED
      BY <2>4, <3>5, <3>7, <3>8, <3>9
  <2> QED
    BY <2>3, <2>4
<1> HIDE DEF e
<1>6. \A s : ArenaOf(s)' = ArenaOf(s)
  BY <1>1 DEF ArenaOf
<1>7. Shown' = Shown
  BY <1>1, <1>6 DEF Shown
<1>8. ShownFresh' = Shows(fresh', 2 * capacity, arena)
  <2>1. DOMAIN fresh' = Slots(2 * capacity)
    BY <1>5 DEF Good
  <2> QED
    BY <2>1, <1>1 DEF ShownFresh, Shows
<1>9. AInv'
  <2>1. Types'
    <3>1. next' \in 0 .. capacity
      BY <1>1, <1>2
    <3> QED
      BY <3>1, <1>1 DEF AInv, Types
  <2>2. Phases'
    BY <1>1 DEF AInv, Phases
  <2>3. InPlace' /\ Separate'
    BY <1>1, <1>6 DEF AInv, InPlace, Separate
  <2>4. NewTable'
    BY <1>1, <1>5 DEF NewTable
  <2> QED
    BY <2>1, <2>2, <2>3, <2>4 DEF AInv
<1>10. (IF phase' = "compact" THEN 0 ELSE next') = next + 1 /\ (IF phase = "compact" THEN 0 ELSE next) = next
  BY <1>1
<1>11. IF Shown[next].key = NoKey
         THEN UNCHANGED ShownFresh
         ELSE \E s \in Map!VirginSlotFor(ShownFresh, Shown[next].key, 2 * capacity) :
                ShownFresh' = [ShownFresh EXCEPT ![s] = Map!Live(Shown[next].key, Shown[next].value)]
  <2>1. CASE ~HasKey(e)
    BY <2>1, <1>1, <1>4, <1>5, <1>8 DEF ShownFresh
  <2>2. CASE HasKey(e)
    <3>1. PICK s \in VirginSlotFor(ShownFresh, View(arena, e.key), 2 * capacity) :
                 ShownFresh' = [ShownFresh EXCEPT ![s] = Entry(e, arena)]
      BY <2>2, <1>5, <1>8
    <3>2. /\ Shown[next].key = View(arena, e.key)
          /\ Entry(e, arena) = Live(Shown[next].key, Shown[next].value)
      BY <2>2, <1>4 DEF Live
    <3> QED
      BY <2>2, <3>1, <3>2, <1>4, SameOperators
  <2> QED
    BY <2>1, <2>2
<1> QED
  BY <1>1, <1>2, <1>7, <1>9, <1>10, <1>11 DEF Map!Rehash

\* The new table installed, and the request's entry in it.
LEMMA FinishSetStep ==
  ASSUME AInv, FinishSet
  PROVE  AInv' /\ Map!FinishSet
<1> DEFINE k == request.key
           v == request.value
           put == PutEntry(arena, k, v)
<1>1. phase = "resize" /\ phase' = "idle" /\ next = capacity
  BY DEF FinishSet
<1>2. /\ Good(fresh, 2 * capacity, arena) /\ ShownFresh = Shows(fresh, 2 * capacity, arena)
      /\ arena \in Arena /\ newArena = NewArena /\ capacity \in Nat /\ capacity >= 4
      /\ k \in Keys /\ v \in Values /\ ~Map!Idle
  BY <1>1, Resizing
<1>3. PICK s \in SlotFor(ShownFresh, k, 2 * capacity) :
        table' = [fresh EXCEPT ![s] = put.entry] /\ arena' = put.arena
  BY DEF FinishSet
<1>4. /\ capacity' = 2 * capacity /\ size' = size + 1 /\ reply' = Reply("set", k, v, OK)
      /\ request' = NoRequest /\ fresh' = UnusedTable(4 * capacity) /\ next' = 0
      /\ newArena' = newArena
  BY DEF FinishSet
<1>5. s \in Slots(2 * capacity)
  BY SearchedSlots
<1> HIDE DEF k, v
<1>6. /\ put.arena \in Arena
      /\ Good([fresh EXCEPT ![s] = put.entry], 2 * capacity, put.arena)
      /\ Shows([fresh EXCEPT ![s] = put.entry], 2 * capacity, put.arena)
           = [Shows(fresh, 2 * capacity, arena) EXCEPT ![s] = Live(k, v)]
  BY <1>2, <1>5, PutEntrySlot
<1> HIDE DEF put
<1>7. 2 * capacity \in Nat /\ 2 * capacity >= 4 /\ 2 * (2 * capacity) = 4 * capacity
  BY <1>2
<1>8. /\ arena' \in Arena /\ Good(table', capacity', arena')
      /\ Shows(table', capacity', arena') = [ShownFresh EXCEPT ![s] = Live(k, v)]
  BY <1>2, <1>3, <1>4, <1>6
<1>9. fresh' = UnusedTable(2 * capacity')
  BY <1>4, <1>7
<1>10. AInv' /\ Shown' = Shows(table', capacity', arena') /\ ShownFresh' = EmptyTable(2 * capacity')
  BY <1>1, <1>2, <1>4, <1>7, <1>8, <1>9, ComesToRest
<1>11. ShownFresh' = Map!EmptyTable(4 * capacity)
  BY <1>4, <1>7, <1>10, SameOperators
<1>12. \E r \in Map!SlotFor(ShownFresh, request.key, 2 * capacity) :
         Shown' = [ShownFresh EXCEPT ![r] = Map!Live(request.key, request.value)]
  BY <1>3, <1>8, <1>10, SameOperators DEF k, v
<1>13. reply' = Map!Reply("set", request.key, request.value, OK) /\ request' = Map!NoRequest
  BY <1>4, SameOperators DEF k, v
<1> QED
  BY <1>1, <1>2, <1>4, <1>10, <1>11, <1>12, <1>13 DEF Map!FinishSet

\* The strings of an entry in another arena.
LEMMA MovedEntry ==
  ASSUME NEW a \in Arena, NEW b \in Arena, NEW e \in Stores, HasKey(e), Sound(e, a)
  PROVE  LET key   == Store(b, View(a, e.key))
             value == Store(key.arena, View(a, e.value))
             x     == [key |-> key.ref, value |-> value.ref, deleted |-> FALSE] IN
         /\ value.arena \in Arena
         /\ x \in Stores /\ HasKey(x) /\ Sound(x, value.arena)
         /\ Entry(x, value.arena) = Entry(e, a)
         /\ \A r : Placed(b, r) => Keeps(b, value.arena, r) /\ Apart(r, x.key) /\ Apart(r, x.value)
         /\ Fills(b, value.arena, LiveBytes(x))
<1> DEFINE k == View(a, e.key)
           v == View(a, e.value)
           key == Store(b, k)
           value == Store(key.arena, v)
           x == [key |-> key.ref, value |-> value.ref, deleted |-> FALSE]
<1>1. k \in Keys /\ v \in Values /\ Entry(e, a) = Live(k, v)
  BY EntryShown DEF Sound
<1> HIDE DEF k, v
<1>2. /\ k \in Seq(Byte) /\ 2 * Len(k) < SizeMod /\ Len(k) # 0
      /\ v \in Seq(Byte) /\ 2 * Len(v) < SizeMod
  BY <1>1, StringsAssumption, KeysAreStrings, NoneAssumption, EmptySeq
<1>3. Stored(b, key.arena, key.ref, k)
  BY <1>2, StoreProperties
<1> HIDE DEF key
<1>4. key.arena \in Arena
  BY <1>3 DEF Stored
<1>5. Stored(key.arena, value.arena, value.ref, v)
  BY <1>2, <1>4, StoreProperties
<1> HIDE DEF value
<1>6. /\ value.arena \in Arena /\ Placed(value.arena, value.ref) /\ View(value.arena, value.ref) = v
      /\ \A r : Placed(key.arena, r) => Keeps(key.arena, value.arena, r) /\ Apart(r, value.ref)
  BY <1>5 DEF Stored
<1>7. /\ Placed(key.arena, key.ref) /\ View(key.arena, key.ref) = k /\ key.ref.size # 0
      /\ \A r : Placed(b, r) => Keeps(b, key.arena, r) /\ Apart(r, key.ref)
  BY <1>2, <1>3 DEF Stored
<1>8. Placed(value.arena, key.ref) /\ View(value.arena, key.ref) = k /\ Apart(key.ref, value.ref)
  BY <1>6, <1>7 DEF Keeps
<1>9. x \in Stores /\ HasKey(x) /\ x.key = key.ref /\ x.value = value.ref /\ x.deleted = FALSE
  BY <1>6, <1>7 DEF Stores, HasKey, Placed
<1> HIDE DEF x
<1>10. Sound(x, value.arena)
  BY <1>1, <1>6, <1>8, <1>9 DEF Sound
<1>11. Entry(x, value.arena) = Entry(e, a)
  BY <1>1, <1>6, <1>8, <1>9, <1>10, EntryShown
<1>12. \A r : Placed(b, r) => Keeps(b, value.arena, r) /\ Apart(r, x.key) /\ Apart(r, x.value)
  BY <1>6, <1>7, <1>9, KeepsOn DEF Keeps
<1>13. Fills(b, value.arena, LiveBytes(x))
  <2>1. /\ Len(k) \in Nat /\ Len(v) \in Nat /\ key.ref.size = Len(k) /\ value.ref.size = Len(v)
        /\ Fills(b, key.arena, Len(k)) /\ Fills(key.arena, value.arena, Len(v))
    BY <1>2, <1>3, <1>5, LenProperties DEF Stored
  <2>2. LiveBytes(x) = Len(k) + Len(v)
    BY <1>7, <1>9, <2>1 DEF LiveBytes
  <2> QED
    BY <1>4, <1>6, <2>1, <2>2, FillsBoth
<1> QED
  BY <1>6, <1>9, <1>10, <1>11, <1>12, <1>13 DEF k, v, key, value, x

\* While remove copies, FastMap sees nothing change.
LEMMA CopyStep ==
  ASSUME AInv, Copy
  PROVE  AInv' /\ UNCHANGED Map!vars
<1> DEFINE e == table[next]
<1>1. /\ phase = "compact" /\ phase' = "compact" /\ next < capacity /\ next' = next + 1
      /\ UNCHANGED <<capacity, size, arena, request, fresh, reply>>
  BY DEF Copy
<1>2. /\ capacity \in Nat /\ capacity >= 4 /\ next \in 0 .. capacity
      /\ table \in [Slots(capacity) -> Stores] /\ arena \in Arena /\ newArena \in Arena
  BY DEF AInv, Types
<1>3. /\ next \in Nat /\ next \in Slots(capacity) /\ next' \in 0 .. capacity
      /\ \A s \in Slots(capacity) : s < next' <=> s < next \/ s = next
  BY <1>1, <1>2 DEF Slots
<1>4. \A s \in Slots(capacity) : ArenaOf(s) = IF s < next THEN newArena ELSE arena
  BY <1>1 DEF ArenaOf
<1>5. \A s \in Slots(capacity) : ArenaOf(s)' = IF s < next' THEN newArena' ELSE arena
  BY <1>1 DEF ArenaOf
<1>6. e \in Stores /\ Sound(e, arena)
  <2>1. ~(next < next)
    BY <1>3
  <2> QED
    BY <2>1, <1>2, <1>3, <1>4 DEF AInv, InPlace
<1>7. /\ newArena' \in Arena /\ table' \in [Slots(capacity) -> Stores]
      /\ \A s \in Slots(capacity) : s # next => table'[s] = table[s]
      /\ Sound(table'[next], newArena') /\ Entry(table'[next], newArena') = Entry(e, arena)
      /\ \A s \in Slots(capacity) : s < next =>
           /\ EntryKept(table[s], newArena, newArena')
           /\ HasKey(table[s]) /\ HasKey(table'[next]) => EntriesApart(table[s], table'[next])
  <2>1. CASE ~HasKey(e)
    <3>1. table' = table /\ newArena' = newArena
      BY <2>1 DEF Copy, HasKey
    <3>2. Sound(e, newArena) /\ Entry(e, newArena) = Entry(e, arena)
      BY <2>1 DEF Sound, Entry, HasKey
    <3>3. \A s \in Slots(capacity) : s < next => EntryKept(table[s], newArena, newArena)
      BY <1>4 DEF AInv, InPlace, Sound, EntryKept, Keeps
    <3> QED
      BY <2>1, <3>1, <3>2, <3>3, <1>2
  <2>2. CASE HasKey(e)
    <3> DEFINE key == Store(newArena, View(arena, e.key))
               value == Store(key.arena, View(arena, e.value))
               x == [key |-> key.ref, value |-> value.ref, deleted |-> FALSE]
    <3>1. /\ value.arena \in Arena
          /\ x \in Stores /\ HasKey(x) /\ Sound(x, value.arena)
          /\ Entry(x, value.arena) = Entry(e, arena)
          /\ \A r : Placed(newArena, r) =>
               Keeps(newArena, value.arena, r) /\ Apart(r, x.key) /\ Apart(r, x.value)
      BY <2>2, <1>2, <1>6, MovedEntry
    <3>2. /\ table' = [table EXCEPT ![next].key = key.ref, ![next].value = value.ref]
          /\ newArena' = value.arena
      BY <2>2 DEF Copy, HasKey
    <3>3. x.key = key.ref /\ x.value = value.ref /\ x.deleted = FALSE
      OBVIOUS
    <3> HIDE DEF key, value, x
    <3>4. e.deleted = FALSE
      BY <2>2, <1>6 DEF Sound, Stores
    <3>5. [[e EXCEPT !.key = key.ref] EXCEPT !.value = value.ref] = x
      BY <3>1, <3>3, <3>4, <1>6 DEF Stores
    <3>6. table' = [table EXCEPT ![next] = x]
      BY <3>2, <3>5
    <3>7. /\ table'[next] = x /\ table' \in [Slots(capacity) -> Stores]
          /\ \A s \in Slots(capacity) : s # next => table'[s] = table[s]
      BY <3>1, <3>6, <1>2, <1>3
    <3>8. ASSUME NEW s \in Slots(capacity), s < next
          PROVE  EntryKept(table[s], newArena, newArena') /\ (HasKey(table[s]) => EntriesApart(table[s], x))
      <4>1. HasKey(table[s]) => Placed(newArena, table[s].key) /\ Placed(newArena, table[s].value)
        BY <3>8, <1>4 DEF AInv, InPlace, Sound
      <4> QED
        BY <4>1, <3>1, <3>2 DEF EntryKept, EntriesApart, EntryApart
    <3> QED
      BY <3>1, <3>2, <3>7, <3>8
  <2> QED
    BY <2>1, <2>2
<1> HIDE DEF e
<1>8. ASSUME NEW s \in Slots(capacity)
      PROVE  Sound(table'[s], ArenaOf(s)') /\ Entry(table'[s], ArenaOf(s)') = Entry(table[s], ArenaOf(s))
  <2>1. CASE s = next
    <3>1. ArenaOf(s)' = newArena' /\ ArenaOf(s) = arena
      BY <2>1, <1>3, <1>4, <1>5
    <3> QED
      BY <2>1, <3>1, <1>7 DEF e
  <2>2. CASE s < next
    <3>1. ArenaOf(s)' = newArena' /\ ArenaOf(s) = newArena /\ s # next
      BY <2>2, <1>3, <1>4, <1>5 DEF Slots
    <3>2. table[s] \in Stores /\ Sound(table[s], newArena) /\ EntryKept(table[s], newArena, newArena')
      BY <2>2, <3>1, <1>2, <1>7 DEF AInv, InPlace
    <3> QED
      BY <3>1, <3>2, <1>7, EntryStays
  <2>3. CASE s # next /\ ~(s < next)
    <3>1. ArenaOf(s)' = arena /\ ArenaOf(s) = arena
      BY <2>3, <1>3, <1>4, <1>5
    <3> QED
      BY <2>3, <3>1, <1>7 DEF AInv, InPlace
  <2> QED
    BY <2>1, <2>2, <2>3
<1>9. Separate'
  <2> SUFFICES ASSUME NEW r \in Slots(capacity), NEW s \in Slots(capacity), r # s,
                      HasKey(table'[r]), HasKey(table'[s]), r < next' <=> s < next'
               PROVE  EntriesApart(table'[r], table'[s])
    BY <1>1 DEF Separate
  <2>1. CASE r # next /\ s # next
    <3>1. r < next <=> s < next
      BY <2>1, <1>3
    <3> QED
      BY <2>1, <3>1, <1>7 DEF AInv, Separate
  <2>2. CASE s = next
    <3>1. r < next /\ r # next
      BY <2>2, <1>3
    <3> QED
      BY <2>2, <3>1, <1>7
  <2>3. CASE r = next
    <3>1. s < next /\ s # next
      BY <2>3, <1>3
    <3>2. EntriesApart(table'[s], table'[r])
      BY <2>3, <3>1, <1>7
    <3> QED
      BY <3>2, ApartSymmetric DEF EntriesApart, EntryApart
  <2> QED
    BY <2>1, <2>2, <2>3
<1>10. fresh = UnusedTable(2 * capacity) /\ request = NoRequest
  BY <1>1 DEF AInv, Phases
<1>11. AInv'
  <2>1. Types'
    BY <1>1, <1>2, <1>3, <1>7 DEF Types
  <2>2. Phases'
    BY <1>1, <1>10 DEF Phases
  <2>3. InPlace'
    BY <1>1, <1>8 DEF InPlace
  <2>4. NewTable'
    <3>1. Good(fresh', 2 * capacity', arena')
      BY <1>1, <1>10, UnusedTableGood
    <3>2. \A s \in Slots(2 * capacity) : ~HasKey(fresh'[s]) /\ ~fresh'[s].deleted
      BY <1>1, <1>10 DEF UnusedTable, Unused, NilRef, HasKey
    <3> QED
      BY <1>1, <3>1, <3>2 DEF NewTable
  <2> QED
    BY <1>9, <2>1, <2>2, <2>3, <2>4 DEF AInv
<1>12. Shown' = Shown
  BY <1>1, <1>8 DEF Shown
<1>13. ShownFresh' = ShownFresh
  BY <1>1 DEF ShownFresh
<1> QED
  BY <1>1, <1>11, <1>12, <1>13 DEF Map!vars

\* The new arena installed.
LEMMA FinishCopyStep ==
  ASSUME AInv, FinishCopy
  PROVE  AInv' /\ UNCHANGED Map!vars
<1>1. /\ phase = "compact" /\ phase' = "idle" /\ next = capacity /\ next' = 0
      /\ arena' = newArena /\ newArena' = NewArena
      /\ UNCHANGED <<capacity, size, table, request, fresh, reply>>
  BY DEF FinishCopy
<1>2. /\ capacity \in Nat /\ capacity >= 4 /\ newArena \in Arena
      /\ fresh = UnusedTable(2 * capacity) /\ request = NoRequest
  BY <1>1 DEF AInv, Types, Phases
<1>3. \A s \in Slots(capacity) : s < next /\ ArenaOf(s) = newArena
  BY <1>1, <1>2 DEF ArenaOf, Slots
<1>4. Good(table, capacity, newArena) /\ Shown = Shows(table, capacity, newArena)
  BY <1>3 DEF AInv, Types, InPlace, Separate, Good, Shown, Shows
<1>5. ShownFresh = EmptyTable(2 * capacity)
  <2>1. ShownFresh = Shows(fresh, 2 * capacity, arena)
    <3>1. DOMAIN fresh = Slots(2 * capacity)
      BY <1>2 DEF UnusedTable
    <3> QED
      BY <3>1 DEF ShownFresh, Shows
  <2> QED
    BY <2>1, <1>2, UnusedTableGood
<1>6. AInv' /\ Shown' = Shows(table', capacity', arena') /\ ShownFresh' = EmptyTable(2 * capacity')
  BY <1>1, <1>2, <1>4, ComesToRest
<1>7. Shown' = Shown /\ ShownFresh' = ShownFresh
  BY <1>1, <1>4, <1>5, <1>6
<1> QED
  BY <1>1, <1>6, <1>7 DEF Map!vars

\* A step of the program preserves the invariant, and is a step of FastMap or
\* changes nothing that FastMap sees.
LEMMA NextStep ==
  ASSUME AInv, [Next]_vars
  PROVE  AInv' /\ [Map!Next]_(Map!vars)
<1>1. CASE UNCHANGED vars
  <2>1. AInv' /\ Shown' = Shown /\ ShownFresh' = ShownFresh
    BY <1>1, ReplyKeeps DEF vars
  <2> QED
    BY <1>1, <2>1 DEF vars, Map!vars
<1>2. ASSUME NEW k \in Keys, Get(k) \/ RemoveFound(k) \/ RemoveMissing(k)
      PROVE  AInv' /\ Map!Next
  <2>1. AInv' /\ (Map!Get(k) \/ Map!Remove(k) \/ Map!RemoveMissing(k))
    BY <1>2, GetStep, RemoveFoundStep, RemoveMissingStep
  <2> QED
    BY <2>1 DEF Map!Next
<1>3. ASSUME NEW k \in Keys, NEW v \in Values, SetExisting(k, v) \/ SetNew(k, v) \/ StartResize(k, v)
      PROVE  AInv' /\ Map!Next
  <2>1. AInv' /\ Map!Set(k, v)
    BY <1>3, SetExistingStep, SetNewStep, StartResizeStep DEF Map!Set
  <2> QED
    BY <2>1 DEF Map!Next
<1>4. CASE Rehash \/ FinishSet \/ Clear
  <2>1. AInv' /\ (Map!Rehash \/ Map!FinishSet \/ Map!Clear)
    BY <1>4, RehashStep, FinishSetStep, ClearStep
  <2> QED
    BY <2>1 DEF Map!Next
<1>5. CASE Copy \/ FinishCopy \/ \E k \in Keys, v \in Values : SetFaults(k, v)
  BY <1>5, CopyStep, FinishCopyStep, SetFaultsStep
<1> QED
  BY <1>1, <1>2, <1>3, <1>4, <1>5 DEF Next

\* The constructor's map is the one of FastMap.
LEMMA InitStep == Init => AInv /\ Map!Init
<1> SUFFICES ASSUME Init PROVE AInv /\ Map!Init
  OBVIOUS
<1>1. AInv /\ Shown = EmptyTable(InitCapacity) /\ ShownFresh = EmptyTable(2 * InitCapacity)
  BY InitSound
<1> QED
  BY <1>1, SameOperators DEF Init, Map!Init

\* The invariant holds of every reachable state.
THEOREM Invariance == Spec => []AInv
BY InitStep, NextStep, PTL DEF Spec

\* On strings in an arena the map does what FastMap does on strings: no
\* search, resize, remove or copy ever reads bytes that are not its string's.
THEOREM ArenaMapImplementsFastMap == Spec => ImplementsFastMap
BY InitStep, NextStep, Invariance, PTL DEF Spec, ImplementsFastMap, Map!Spec

\* Two pieces of the table do not overlap.
LEMMA PiecesApart ==
  ASSUME AInv, NEW p \in Pieces, NEW q \in Pieces, p # q, Moved(p) = Moved(q)
  PROVE  Apart(RefOf(p), RefOf(q))
<1>1. PICK r \in Slots(capacity), f \in {"key", "value"} : p = <<r, f>>
  BY DEF Pieces
<1>2. PICK s \in Slots(capacity), g \in {"key", "value"} : q = <<s, g>>
  BY DEF Pieces
<1>3. HasKey(table[r]) /\ HasKey(table[s])
  BY <1>1, <1>2 DEF Pieces, HasKey
<1>4. /\ RefOf(p) = IF f = "key" THEN table[r].key ELSE table[r].value
      /\ RefOf(q) = IF g = "key" THEN table[s].key ELSE table[s].value
  BY <1>1, <1>2 DEF RefOf
<1>5. CASE r = s
  <2>1. Apart(table[r].key, table[r].value) /\ Apart(table[r].value, table[r].key)
    BY <1>3, ApartSymmetric DEF AInv, InPlace, Sound
  <2>2. f # g
    BY <1>1, <1>2, <1>5
  <2> QED
    BY <1>4, <1>5, <2>1, <2>2
<1>6. CASE r # s
  <2>1. phase = "compact" => (r < next <=> s < next)
    BY <1>1, <1>2 DEF Moved
  <2>2. EntriesApart(table[r], table[s])
    BY <1>3, <1>6, <2>1 DEF AInv, Separate
  <2> QED
    BY <1>4, <2>2 DEF EntriesApart, EntryApart
<1> QED
  BY <1>5, <1>6

\* Neither a set, nor a resize, nor the copy of remove lets strings overlap,
\* and every one of them is in its arena.
THEOREM NoStringsOverlap == Spec => []StringsDisjoint
<1>1. AInv => StringsDisjoint
  <2> SUFFICES ASSUME AInv PROVE StringsDisjoint
    OBVIOUS
  <2>1. ASSUME NEW p \in Pieces PROVE InArena(ArenaOf(p[1]), RefOf(p))
    <3>1. PICK r \in Slots(capacity), f \in {"key", "value"} : p = <<r, f>>
      BY DEF Pieces
    <3>2. HasKey(table[r]) /\ p[1] = r /\ RefOf(p) = IF f = "key" THEN table[r].key ELSE table[r].value
      BY <3>1 DEF Pieces, HasKey, RefOf
    <3> QED
      BY <3>2 DEF AInv, InPlace, Sound, Placed
  <2> QED
    BY <2>1, PiecesApart DEF StringsDisjoint, Apart
<1> QED
  BY <1>1, Invariance, PTL

-----------------------------------------------------------------------------
(* What is proved of FastMap, of the table that the arena shows.           *)

MapP == INSTANCE FastMap_proofs WITH
          table <- Shown,
          fresh <- ShownFresh,
          next  <- IF phase = "compact" THEN 0 ELSE next

\* Both instances of FastMap are the same.
LEMMA SameInit == Map!Init => MapP!Init
BY DEF Map!Init, MapP!Init, Map!EmptyTable, MapP!EmptyTable, Map!NoRequest, MapP!NoRequest,
       Map!Reply, MapP!Reply, Map!Virgin, MapP!Virgin, Map!Slots, MapP!Slots

\* So are their operators.
LEMMA SameSearches ==
  /\ \A t, k, c : /\ Map!Match(t, k, c) = MapP!Match(t, k, c)
                  /\ Map!SlotFor(t, k, c) = MapP!SlotFor(t, k, c)
                  /\ Map!VirginSlotFor(t, k, c) = MapP!VirginSlotFor(t, k, c)
                  /\ Map!Lookup(t, k, c) = MapP!Lookup(t, k, c)
  /\ \A c : Map!EmptyTable(c) = MapP!EmptyTable(c)
  /\ \A k, v : Map!Live(k, v) = MapP!Live(k, v)
  /\ \A op, k, v, out : Map!Reply(op, k, v, out) = MapP!Reply(op, k, v, out)
  /\ Map!Tombstone = MapP!Tombstone /\ Map!NoRequest = MapP!NoRequest
  /\ Map!NeedsResize = MapP!NeedsResize /\ Map!Idle = MapP!Idle
<1>1. \A t, k, c : Map!Match(t, k, c) = MapP!Match(t, k, c)
  BY DEF Map!Match, MapP!Match, Map!Nearest, MapP!Nearest, Map!Stops, MapP!Stops, Map!Dist, MapP!Dist,
         Map!Home, MapP!Home, Map!Slots, MapP!Slots
<1>2. \A t, k, c : Map!SlotFor(t, k, c) = MapP!SlotFor(t, k, c)
  BY <1>1 DEF Map!SlotFor, MapP!SlotFor, Map!Nearest, MapP!Nearest, Map!Dist, MapP!Dist,
              Map!Home, MapP!Home, Map!Slots, MapP!Slots
<1>3. \A t, k, c : Map!VirginSlotFor(t, k, c) = MapP!VirginSlotFor(t, k, c)
  BY DEF Map!VirginSlotFor, MapP!VirginSlotFor, Map!Nearest, MapP!Nearest, Map!Dist, MapP!Dist,
         Map!Home, MapP!Home, Map!Slots, MapP!Slots, Map!IsVirgin, MapP!IsVirgin
<1>4. \A t, k, c : Map!Lookup(t, k, c) = MapP!Lookup(t, k, c)
  <2> TAKE t, k, c
  <2> DEFINE In(S) == IF S = {} THEN NoValue ELSE t[CHOOSE s \in S : TRUE].value
  <2>1. Map!Lookup(t, k, c) = In(Map!Match(t, k, c)) /\ MapP!Lookup(t, k, c) = In(MapP!Match(t, k, c))
    BY DEF Map!Lookup, MapP!Lookup
  <2>2. Map!Match(t, k, c) = MapP!Match(t, k, c)
    BY <1>1
  <2> HIDE DEF In
  <2> QED
    BY <2>1, <2>2
<1>5. \A c : Map!EmptyTable(c) = MapP!EmptyTable(c)
  BY DEF Map!EmptyTable, MapP!EmptyTable, Map!Virgin, MapP!Virgin, Map!Slots, MapP!Slots
<1>6. /\ \A k, v : Map!Live(k, v) = MapP!Live(k, v)
      /\ \A op, k, v, out : Map!Reply(op, k, v, out) = MapP!Reply(op, k, v, out)
  BY DEF Map!Live, MapP!Live, Map!Reply, MapP!Reply
<1>7. /\ Map!Tombstone = MapP!Tombstone /\ Map!NoRequest = MapP!NoRequest
      /\ Map!NeedsResize = MapP!NeedsResize
  BY DEF Map!Tombstone, MapP!Tombstone, Map!NoRequest, MapP!NoRequest, Map!NeedsResize, MapP!NeedsResize
<1>8. Map!Idle = MapP!Idle
  BY <1>7 DEF Map!Idle, MapP!Idle
<1> QED
  BY <1>1, <1>2, <1>3, <1>4, <1>5, <1>6, <1>7, <1>8

\* And their steps.
LEMMA SameNext == [Map!Next]_(Map!vars) => [MapP!Next]_(MapP!vars)
<1>1. Map!vars = MapP!vars /\ Map!vars' = MapP!vars'
  BY DEF Map!vars, MapP!vars
<1>2. \A k \in Keys : Map!Get(k) => MapP!Get(k)
  BY SameSearches DEF Map!Get, MapP!Get
<1>3. \A k \in Keys : Map!Remove(k) => MapP!Remove(k)
  BY SameSearches DEF Map!Remove, MapP!Remove
<1>4. \A k \in Keys : Map!RemoveMissing(k) => MapP!RemoveMissing(k)
  BY SameSearches DEF Map!RemoveMissing, MapP!RemoveMissing
<1>5. \A k \in Keys, v \in Values : Map!SetExisting(k, v) => MapP!SetExisting(k, v)
  BY SameSearches DEF Map!SetExisting, MapP!SetExisting
<1>6. \A k \in Keys, v \in Values : Map!SetNew(k, v) => MapP!SetNew(k, v)
  BY SameSearches DEF Map!SetNew, MapP!SetNew
<1>7. \A k \in Keys, v \in Values : Map!StartResize(k, v) => MapP!StartResize(k, v)
  BY SameSearches DEF Map!StartResize, MapP!StartResize
<1>8. Map!Rehash => MapP!Rehash
  BY SameSearches DEF Map!Rehash, MapP!Rehash
<1>9. Map!FinishSet => MapP!FinishSet
  BY SameSearches DEF Map!FinishSet, MapP!FinishSet
<1>10. Map!Clear => MapP!Clear
  BY SameSearches DEF Map!Clear, MapP!Clear
<1>11. \A k \in Keys, v \in Values : Map!Set(k, v) => MapP!Set(k, v)
  BY <1>5, <1>6, <1>7 DEF Map!Set, MapP!Set
<1>12. Map!Next => MapP!Next
  BY <1>2, <1>3, <1>4, <1>8, <1>9, <1>10, <1>11 DEF Map!Next, MapP!Next
<1> QED
  BY <1>1, <1>12

\* The invariant of FastMap holds of what the arena shows.
LEMMA ShownInvariant == Spec => [](AInv /\ MapP!Inv)
<1>1. Init => AInv /\ MapP!Inv
  <2>1. MapP!Init => MapP!Inv
    BY MapP!InitInv, HashAssumption, NoneAssumption, CapacityAssumption DEF MapP!InitInv
  <2> QED
    BY <2>1, InitStep, SameInit
<1>2. AInv /\ MapP!Inv /\ [Next]_vars => (AInv /\ MapP!Inv)'
  <2>1. MapP!Inv /\ [MapP!Next]_(MapP!vars) => MapP!Inv'
    BY MapP!NextInv, HashAssumption, NoneAssumption, CapacityAssumption DEF MapP!NextInv
  <2> QED
    BY <2>1, NextStep, SameNext
<1> QED
  BY <1>1, <1>2, PTL DEF Spec

\* Type correctness of the map in the arena: m_size never exceeds m_capacity,
\* no block is filled beyond its capacity.
THEOREM TypeCorrect == Spec => []TypeOK
<1>1. AInv /\ MapP!Inv => TypeOK
  <2> SUFFICES ASSUME AInv, MapP!Inv PROVE TypeOK
    OBVIOUS
  <2>1. capacity \in Nat /\ size \in 0 .. capacity
    <3>1. capacity \in Nat /\ capacity >= 4 /\ size \in Nat /\ 4 * size < 3 * capacity + 4
      BY DEF AInv, Types, MapP!Inv, MapP!TypeOK, MapP!LoadBounded
    <3> QED
      BY <3>1
  <2>2. \A a \in Arena : Arenas(a)
    <3> TAKE a \in Arena
    <3>1. DOMAIN a.blocks = 1 .. Len(a.blocks)
      BY LenProperties DEF Arena
    <3> QED
      BY <3>1 DEF Arena, Arenas
  <2>3. /\ table \in [Slots(capacity) -> [key : Refs, value : Refs, deleted : BOOLEAN]]
        /\ fresh \in [Slots(2 * capacity) -> [key : Refs, value : Refs, deleted : BOOLEAN]]
    BY DEF AInv, Types, NewTable, Good, Stores
  <2>4. request \in [key : Keys, value : Values] \cup {NoRequest}
    BY DEF AInv, Phases
  <2> QED
    BY <2>1, <2>2, <2>3, <2>4 DEF AInv, Types, TypeOK
<1> QED
  BY <1>1, ShownInvariant, PTL

-----------------------------------------------------------------------------
(* The bytes of a table.                                                   *)

Sizes(t, n) == [i \in 1 .. n |-> LiveBytes(t[i - 1])]

\* An entry has a number of bytes.
LEMMA BytesOfEntry ==
  ASSUME NEW e \in Stores
  PROVE  LiveBytes(e) \in Nat /\ (~HasKey(e) => LiveBytes(e) = 0)
BY DEF LiveBytes, HasKey, Stores, Refs

\* So has a table, slot by slot.
LEMMA BytesOfTable ==
  ASSUME NEW cap \in Nat, NEW t \in [Slots(cap) -> Stores], NEW n \in 0 .. cap
  PROVE  /\ Sizes(t, n) \in Seq(Nat) /\ Len(Sizes(t, n)) = n
         /\ Bytes(t, n) = SumOf(Sizes(t, n)) /\ Bytes(t, n) \in Nat
<1>1. \A i \in 1 .. n : i - 1 \in Slots(cap)
  BY DEF Slots
<1>2. \A i \in 1 .. n : LiveBytes(t[i - 1]) \in Nat
  BY <1>1, BytesOfEntry
<1>3. Sizes(t, n) \in Seq(Nat) /\ Len(Sizes(t, n)) = n
  BY <1>2 DEF Sizes
<1>4. Bytes(t, n) = SumOf(Sizes(t, n))
  BY DEF Bytes, Sizes, Total, SumOf
<1> QED
  BY <1>3, <1>4, SumType

\* One slot is given another entry.
LEMMA BytesPut ==
  ASSUME NEW cap \in Nat, NEW t \in [Slots(cap) -> Stores], NEW s \in Slots(cap), NEW x \in Stores
  PROVE  Bytes([t EXCEPT ![s] = x], cap) + LiveBytes(t[s]) = Bytes(t, cap) + LiveBytes(x)
<1> DEFINE u == [t EXCEPT ![s] = x]
<1>1. /\ u \in [Slots(cap) -> Stores] /\ u[s] = x
      /\ \A r \in Slots(cap) : r # s => u[r] = t[r]
  OBVIOUS
<1> HIDE DEF u
<1>2. /\ s \in Nat /\ s + 1 \in 1 .. cap /\ cap \in 0 .. cap /\ (s + 1) - 1 = s
      /\ \A i \in 1 .. cap : i - 1 \in Slots(cap) /\ (i # s + 1 => i - 1 # s)
  BY DEF Slots
<1>3. \A i \in 1 .. cap : i # s + 1 => Sizes(u, cap)[i] = Sizes(t, cap)[i]
  BY <1>1, <1>2 DEF Sizes
<1>4. Sizes(t, cap)[s + 1] = LiveBytes(t[s]) /\ Sizes(u, cap)[s + 1] = LiveBytes(x)
  BY <1>1, <1>2 DEF Sizes
<1>5. /\ Sizes(t, cap) \in Seq(Nat) /\ Len(Sizes(t, cap)) = cap /\ Bytes(t, cap) = SumOf(Sizes(t, cap))
      /\ Sizes(u, cap) \in Seq(Nat) /\ Len(Sizes(u, cap)) = cap /\ Bytes(u, cap) = SumOf(Sizes(u, cap))
  BY <1>1, <1>2, BytesOfTable
<1>6. SumOf(Sizes(u, cap)) + Sizes(t, cap)[s + 1] = SumOf(Sizes(t, cap)) + Sizes(u, cap)[s + 1]
  <2> DEFINE x1 == Sizes(t, cap)
             x2 == Sizes(u, cap)
             k == s + 1
  <2>1. /\ x1 \in Seq(Nat) /\ x2 \in Seq(Nat) /\ Len(x2) = Len(x1) /\ k \in 1 .. Len(x1)
        /\ \A i \in 1 .. Len(x1) : i # k => x2[i] = x1[i]
    BY <1>2, <1>3, <1>5
  <2> HIDE DEF x1, x2, k
  <2>2. SumOf(x2) + x1[k] = SumOf(x1) + x2[k]
    BY <2>1, SumChanged
  <2> QED
    BY <2>2 DEF x1, x2, k
<1> QED
  BY <1>4, <1>5, <1>6 DEF u

\* One slot more, of tables with the same entries before it.
LEMMA BytesNext ==
  ASSUME NEW cap \in Nat, NEW t \in [Slots(cap) -> Stores], NEW u \in [Slots(cap) -> Stores],
         NEW n \in Slots(cap), \A s \in Slots(cap) : s < n => u[s] = t[s]
  PROVE  Bytes(u, n + 1) = Bytes(t, n) + LiveBytes(u[n])
<1>1. /\ n \in 0 .. cap /\ n + 1 \in 0 .. cap /\ n + 1 \in 1 .. n + 1 /\ (n + 1) - 1 = n
      /\ \A i \in 1 .. n : i - 1 \in Slots(cap) /\ i - 1 < n /\ i \in 1 .. n + 1
  BY DEF Slots
<1>2. \A i \in 1 .. n : Sizes(t, n)[i] = Sizes(u, n + 1)[i]
  BY <1>1 DEF Sizes
<1>3. Sizes(u, n + 1)[n + 1] = LiveBytes(u[n])
  BY <1>1 DEF Sizes
<1>4. /\ Sizes(t, n) \in Seq(Nat) /\ Len(Sizes(t, n)) = n /\ Bytes(t, n) = SumOf(Sizes(t, n))
      /\ Sizes(u, n + 1) \in Seq(Nat) /\ Len(Sizes(u, n + 1)) = n + 1
      /\ Bytes(u, n + 1) = SumOf(Sizes(u, n + 1))
  BY <1>1, BytesOfTable
<1>5. SumOf(Sizes(u, n + 1)) = SumOf(Sizes(t, n)) + Sizes(u, n + 1)[Len(Sizes(u, n + 1))]
  BY <1>2, <1>4, SumAppended
<1> QED
  BY <1>3, <1>4, <1>5

\* A table without entries has none.
LEMMA BytesUnused ==
  ASSUME NEW cap \in Nat, NEW n \in 0 .. cap
  PROVE  Bytes(UnusedTable(cap), n) = 0
<1>1. UnusedTable(cap) \in [Slots(cap) -> Stores]
  BY UnusedTableGood DEF Good
<1>2. \A i \in 1 .. n : Sizes(UnusedTable(cap), n)[i] = 0
  BY DEF Sizes, UnusedTable, Slots, LiveBytes, Unused, NilRef
<1> QED
  BY <1>1, <1>2, BytesOfTable, SumZero

\* No slots have none.
LEMMA BytesOfNoSlots ==
  ASSUME NEW cap \in Nat, NEW t \in [Slots(cap) -> Stores]
  PROVE  Bytes(t, 0) = 0
<1>1. 0 \in 0 .. cap /\ \A i \in 1 .. 0 : Sizes(t, 0)[i] = 0
  OBVIOUS
<1> QED
  BY <1>1, BytesOfTable, SumZero

\* The constructor's arena is empty.
LEMMA NewArenaNumbers ==
  NewArena.dead = 0 /\ Capacity(NewArena) = BlockSize /\ UsedSize(NewArena) = 0
<1>1. /\ Len(NewArena.blocks) = 1 /\ NewArena.dead = 0
      /\ NewArena.blocks[1].capacity = BlockSize /\ Len(NewArena.blocks[1].data) = 0
  BY DEF NewArena, NewBlock
<1>2. /\ Capacities(NewArena) \in Seq(Nat) /\ Len(Capacities(NewArena)) = 1
      /\ Backs(NewArena) \in Seq(Nat) /\ Len(Backs(NewArena)) = 1
      /\ Capacity(NewArena) = SumOf(Capacities(NewArena))
      /\ UsedSize(NewArena) = SumOf(Backs(NewArena))
  <2> DEFINE a == NewArena
  <2>1. a \in Arena /\ Len(a.blocks) = 1
    BY <1>1, NewArenaIsArena
  <2> HIDE DEF a
  <2> QED
    BY <2>1, ArenaSums DEF a
<1>3. Capacities(NewArena)[1] = BlockSize /\ Backs(NewArena)[1] = 0
  <2>1. 1 \in 1 .. Len(NewArena.blocks)
    BY <1>1
  <2> QED
    BY <1>1, <2>1 DEF Capacities, Backs
<1> QED
  BY <1>1, <1>2, <1>3, SumOne

-----------------------------------------------------------------------------
(* The bytes of an arena.                                                  *)

\* The arena need not be reallocated, and its bytes are the m of a table, the
\* dead ones and the r that were replaced.
Accounted(a, m, r) ==
  /\ ~ShouldReallocate(a)
  /\ UsedSize(a) = m + a.dead + r

\* The arena is accounted for, but while remove copies it; the loops build a
\* table, or an arena, for the slots they have passed.
Counts ==
  /\ replaced \in Nat
  /\ phase \in {"idle", "resize"} => Accounted(arena, Bytes(table, capacity), replaced)
  /\ phase = "resize" => Bytes(fresh, 2 * capacity) = Bytes(table, next)
  /\ phase = "compact" =>
       /\ newArena.dead = 0 /\ BlockSize <= Capacity(newArena)
       /\ UsedSize(newArena) = Bytes(table, next)

\* n bytes are added to an arena; the m in the table and the r replaced become
\* k and q.
LEMMA StaysAccounted ==
  ASSUME NEW a \in Arena, NEW b \in Arena, NEW n \in Nat, Fills(a, b, n),
         NEW m \in Nat, NEW r \in Nat, NEW k \in Nat, NEW q \in Nat,
         Accounted(a, m, r), k + q = m + n + r
  PROVE  Accounted(b, k, q)
<1>1. /\ Capacity(a) \in Nat /\ Capacity(b) \in Nat /\ UsedSize(a) \in Nat /\ UsedSize(b) \in Nat
      /\ a.dead \in Nat /\ b.dead \in Nat
  BY ArenaSums DEF Arena
<1> QED
  BY <1>1 DEF Fills, Accounted, ShouldReallocate

\* The bytes of the tables of the map.
LEMMA TablesCounted ==
  ASSUME AInv
  PROVE  /\ Bytes(table, capacity) \in Nat /\ Bytes(table, next) \in Nat
         /\ Bytes(fresh, 2 * capacity) \in Nat
         /\ \A s \in Slots(capacity) : LiveBytes(table[s]) \in Nat
<1>1. /\ capacity \in Nat /\ 2 * capacity \in Nat /\ capacity \in 0 .. capacity
      /\ next \in 0 .. capacity /\ 2 * capacity \in 0 .. 2 * capacity
      /\ table \in [Slots(capacity) -> Stores] /\ fresh \in [Slots(2 * capacity) -> Stores]
  BY DEF AInv, Types, NewTable, Good
<1>2. Bytes(table, capacity) \in Nat /\ Bytes(table, next) \in Nat
  BY <1>1, BytesOfTable
<1>3. Bytes(fresh, 2 * capacity) \in Nat
  BY <1>1, BytesOfTable
<1> QED
  BY <1>1, <1>2, <1>3, BytesOfEntry

\* The constructor's map has no bytes.
LEMMA InitCounts ==
  ASSUME Init
  PROVE  Counts
<1>1. /\ capacity \in Nat /\ capacity \in 0 .. capacity /\ table = UnusedTable(capacity)
      /\ arena = NewArena /\ phase = "idle" /\ replaced = 0
  BY CapacityAssumption DEF Init
<1>2. Bytes(table, capacity) = 0
  BY <1>1, BytesUnused
<1>3. ~ShouldReallocate(arena)
  BY <1>1, NewArenaNumbers, ArenaAssumption DEF ShouldReallocate
<1> QED
  BY <1>1, <1>2, <1>3, NewArenaNumbers DEF Counts, Accounted

\* What changes neither tables nor arenas.
LEMMA CountsKept ==
  ASSUME Counts, phase' \in {phase, "faulted"},
         UNCHANGED <<capacity, table, arena, fresh, newArena, next, replaced>>
  PROVE  Counts'
BY DEF Counts

\* set of a key that has a value: the old value's bytes are replaced, or written.
LEMMA SetExistingCounts ==
  ASSUME AInv, Counts, NEW k \in Keys, NEW v \in Values, SetExisting(k, v)
  PROVE  Counts'
<1>1. phase = "idle" /\ phase' = "idle" /\ UNCHANGED <<capacity, fresh, newArena, next>>
  BY DEF SetExisting
<1>2. /\ Good(table, capacity, arena) /\ Shown = Shows(table, capacity, arena)
      /\ arena \in Arena /\ capacity \in Nat /\ capacity >= 4
  BY <1>1, AtRest
<1>3. PICK s \in SlotFor(Shown, k, capacity) :
        /\ Shown[s].key # NoKey
        /\ ~(OverwritesValue(table[s].value, v) /\ OverwriteFaults(arena, table[s].value, v))
        /\ table' = [table EXCEPT ![s].value = PutValue(arena, table[s].value, v).ref]
        /\ arena' = PutValue(arena, table[s].value, v).arena
        /\ replaced' = replaced + (IF OverwritesValue(table[s].value, v) THEN 0 ELSE table[s].value.size)
  BY DEF SetExisting
<1> DEFINE e == table[s]
           put == PutValue(arena, e.value, v)
           x == [e EXCEPT !.value = put.ref]
           n == IF OverwritesValue(e.value, v) THEN 0 ELSE Len(v)
<1>4. s \in Slots(capacity)
  BY SearchedSlots
<1>5. e \in Stores /\ HasKey(e) /\ Placed(arena, e.value)
  <2>1. e \in Stores /\ HasKey(e) /\ Sound(e, arena)
    BY <1>2, <1>3, <1>4, SlotShown
  <2> QED
    BY <2>1 DEF Sound
<1>6. Put(arena, put.arena, e.value, put.ref, v)
  BY <1>2, <1>3, <1>5, PutValueProperties
<1>7. table' = [table EXCEPT ![s] = x] /\ arena' = put.arena
  BY <1>3
<1> HIDE DEF put
<1>8. /\ put.arena \in Arena /\ put.ref \in Refs /\ put.ref.size = Len(v) /\ Len(v) \in Nat
      /\ Fills(arena, put.arena, n) /\ n \in Nat
      /\ OverwritesValue(e.value, v) => Len(v) = e.value.size
  <2>1. put.ref.size = Len(v) /\ Len(v) \in Nat
    BY <1>6, ViewPlaced, StringsAssumption, LenProperties DEF Put
  <2> QED
    BY <1>6, <2>1 DEF Put, Placed
<1>9. x \in Stores /\ x.key = e.key /\ x.value = put.ref
  BY <1>5, <1>8 DEF Stores
<1>10. /\ LiveBytes(e) = e.key.size + e.value.size /\ LiveBytes(x) = e.key.size + Len(v)
       /\ e.key.size \in Nat /\ e.value.size \in Nat
  BY <1>5, <1>8, <1>9 DEF LiveBytes, HasKey, Stores, Refs
<1> HIDE DEF x
<1>11. Bytes(table', capacity) + LiveBytes(e) = Bytes(table, capacity) + LiveBytes(x)
  <2>1. table \in [Slots(capacity) -> Stores]
    BY <1>2 DEF Good
  <2> QED
    BY <1>2, <1>4, <1>7, <1>9, <2>1, BytesPut
<1>12. Bytes(table, capacity) \in Nat /\ Bytes(table', capacity) \in Nat
  <2>1. table \in [Slots(capacity) -> Stores] /\ capacity \in 0 .. capacity
    BY <1>2 DEF Good
  <2>2. table' \in [Slots(capacity) -> Stores]
    BY <1>7, <1>9, <2>1
  <2> QED
    BY <1>2, <2>1, <2>2, BytesOfTable
<1>13. replaced \in Nat /\ replaced' = replaced + (IF OverwritesValue(e.value, v) THEN 0 ELSE e.value.size)
  BY <1>3 DEF Counts
<1> HIDE DEF e
<1>14. Bytes(table', capacity) + replaced' = Bytes(table, capacity) + n + replaced /\ replaced' \in Nat
  <2> DEFINE m == Bytes(table, capacity)
             m2 == Bytes(table', capacity)
             z == e.key.size
             o == e.value.size
             l == Len(v)
  <2>1. /\ m \in Nat /\ m2 \in Nat /\ z \in Nat /\ o \in Nat /\ l \in Nat
        /\ m2 + (z + o) = m + (z + l)
    BY <1>8, <1>10, <1>11, <1>12
  <2>2. CASE OverwritesValue(e.value, v)
    <3>1. l = o /\ n = 0 /\ replaced' = replaced + 0
      BY <2>2, <1>8, <1>13
    <3> HIDE DEF m, m2, z, o, l, n
    <3>2. m2 + replaced' = m + n + replaced /\ replaced' \in Nat
      BY <2>1, <3>1, <1>13
    <3> QED
      BY <3>2 DEF m, m2
  <2>3. CASE ~OverwritesValue(e.value, v)
    <3>1. n = l /\ replaced' = replaced + o
      BY <2>3, <1>13
    <3> HIDE DEF m, m2, z, o, l, n
    <3>2. m2 + replaced' = m + n + replaced /\ replaced' \in Nat
      BY <2>1, <3>1, <1>13
    <3> QED
      BY <3>2 DEF m, m2
  <2> QED
    BY <2>2, <2>3
<1> HIDE DEF n
<1>15. Accounted(arena, Bytes(table, capacity), replaced)
  BY <1>1 DEF Counts
<1> DEFINE b == put.arena
           m == Bytes(table, capacity)
           m2 == Bytes(table', capacity)
           r2 == replaced'
<1>16. /\ b \in Arena /\ n \in Nat /\ Fills(arena, b, n) /\ Accounted(arena, m, replaced)
       /\ m \in Nat /\ m2 \in Nat /\ r2 \in Nat /\ m2 + r2 = m + n + replaced
  BY <1>8, <1>12, <1>14, <1>15
<1> HIDE DEF b, m, m2, r2
<1>17. Accounted(b, m2, r2)
  BY <1>2, <1>13, <1>16, StaysAccounted
<1> QED
  BY <1>1, <1>7, <1>14, <1>17 DEF Counts, b, m2, r2

\* A new entry: its bytes are in the table and in the arena.
LEMMA NewEntryCounts ==
  ASSUME NEW a \in Arena, NEW cap \in Nat, NEW t \in [Slots(cap) -> Stores], NEW s \in Slots(cap),
         ~HasKey(t[s]), NEW k \in Keys, NEW v \in Values, NEW r \in Nat,
         Accounted(a, Bytes(t, cap), r)
  PROVE  LET put == PutEntry(a, k, v) IN
         Accounted(put.arena, Bytes([t EXCEPT ![s] = put.entry], cap), r)
<1> DEFINE put == PutEntry(a, k, v)
           u == [t EXCEPT ![s] = put.entry]
           m == Bytes(t, cap)
           m2 == Bytes(u, cap)
           n == LiveBytes(put.entry)
<1>1. put.arena \in Arena /\ put.entry \in Stores /\ Fills(a, put.arena, n)
  BY PutEntryProperties
<1> HIDE DEF put
<1>2. n \in Nat /\ LiveBytes(t[s]) = 0
  BY <1>1, BytesOfEntry
<1>3. m2 + LiveBytes(t[s]) = m + n
  BY <1>1, BytesPut
<1>4. m \in Nat /\ m2 \in Nat
  <2>1. cap \in 0 .. cap /\ u \in [Slots(cap) -> Stores]
    BY <1>1
  <2> QED
    BY <2>1, BytesOfTable
<1> HIDE DEF m, m2, n
<1>5. m2 + r = m + n + r
  BY <1>2, <1>3, <1>4
<1>6. Accounted(put.arena, m2, r)
  BY <1>1, <1>2, <1>4, <1>5, StaysAccounted DEF m
<1> QED
  BY <1>6 DEF m2, put

\* set of a new key.
LEMMA SetNewCounts ==
  ASSUME AInv, Counts, NEW k \in Keys, NEW v \in Values, SetNew(k, v)
  PROVE  Counts'
<1>1. phase = "idle" /\ phase' = "idle" /\ UNCHANGED <<capacity, fresh, newArena, next, replaced>>
  BY DEF SetNew
<1>2. /\ Good(table, capacity, arena) /\ Shown = Shows(table, capacity, arena)
      /\ arena \in Arena /\ capacity \in Nat
  BY <1>1, AtRest
<1>3. PICK s \in SlotFor(Shown, k, capacity) :
        /\ Shown[s].key = NoKey
        /\ table' = [table EXCEPT ![s] = PutEntry(arena, k, v).entry]
        /\ arena' = PutEntry(arena, k, v).arena
  BY DEF SetNew
<1>4. s \in Slots(capacity) /\ ~HasKey(table[s]) /\ table \in [Slots(capacity) -> Stores]
  BY <1>2, <1>3, SearchedSlots, SlotShown DEF Good
<1>5. replaced \in Nat /\ Accounted(arena, Bytes(table, capacity), replaced)
  BY <1>1 DEF Counts
<1>6. Accounted(arena', Bytes(table', capacity), replaced)
  BY <1>2, <1>3, <1>4, <1>5, NewEntryCounts
<1> QED
  BY <1>1, <1>5, <1>6 DEF Counts

\* The bigger table, as yet without entries.
LEMMA StartResizeCounts ==
  ASSUME AInv, Counts, NEW k \in Keys, NEW v \in Values, StartResize(k, v)
  PROVE  Counts'
<1>1. /\ phase = "idle" /\ phase' = "resize" /\ fresh' = UnusedTable(2 * capacity) /\ next' = 0
      /\ UNCHANGED <<capacity, table, arena, newArena, replaced>>
  BY DEF StartResize
<1>2. /\ capacity \in Nat /\ 2 * capacity \in Nat /\ 2 * capacity \in 0 .. 2 * capacity
      /\ table \in [Slots(capacity) -> Stores]
  BY DEF AInv, Types
<1>3. Bytes(fresh', 2 * capacity) = 0
  BY <1>1, <1>2, BytesUnused
<1>4. Bytes(table, 0) = 0
  BY <1>2, BytesOfNoSlots
<1> QED
  BY <1>1, <1>3, <1>4 DEF Counts

\* One more slot of the old table is in the new one.
LEMMA RehashCounts ==
  ASSUME AInv, Counts, Rehash
  PROVE  Counts'
<1> DEFINE e == table[next]
<1>1. /\ phase = "resize" /\ phase' = "resize" /\ next < capacity /\ next' = next + 1
      /\ UNCHANGED <<capacity, table, arena, newArena, replaced>>
  BY DEF Rehash
<1>2. /\ Good(table, capacity, arena) /\ Good(fresh, 2 * capacity, arena)
      /\ ShownFresh = Shows(fresh, 2 * capacity, arena)
      /\ capacity \in Nat /\ next \in 0 .. capacity
  BY <1>1, Resizing
<1>3. /\ next \in Slots(capacity) /\ table \in [Slots(capacity) -> Stores] /\ e \in Stores
      /\ 2 * capacity \in Nat /\ fresh \in [Slots(2 * capacity) -> Stores] /\ Sound(e, arena)
  BY <1>1, <1>2 DEF Good, Slots
<1>4. Bytes(table, next + 1) = Bytes(table, next) + LiveBytes(e)
  BY <1>2, <1>3, BytesNext
<1>5. Bytes(fresh, 2 * capacity) = Bytes(table, next)
  BY <1>1 DEF Counts
<1>6. Bytes(fresh', 2 * capacity) = Bytes(fresh, 2 * capacity) + LiveBytes(e)
  <2>1. CASE ~HasKey(e)
    <3>1. fresh' = fresh /\ LiveBytes(e) = 0 /\ Bytes(fresh, 2 * capacity) \in Nat
      BY <2>1, <1>3, BytesOfEntry, TablesCounted DEF Rehash, HasKey
    <3> QED
      BY <3>1
  <2>2. CASE HasKey(e)
    <3>1. PICK s \in VirginSlotFor(ShownFresh, View(arena, e.key), 2 * capacity) :
            fresh' = [fresh EXCEPT ![s].key = e.key, ![s].value = e.value]
      BY <2>2 DEF Rehash, HasKey
    <3>2. s \in Slots(2 * capacity) /\ IsVirgin(ShownFresh[s])
      BY DEF VirginSlotFor, Nearest
    <3>3. fresh[s] \in Stores /\ Sound(fresh[s], arena) /\ ShownFresh[s] = Entry(fresh[s], arena)
      BY <1>2, <3>2 DEF Good, Shows
    <3>4. ~HasKey(fresh[s]) /\ fresh[s].deleted = FALSE
      BY <3>2, <3>3, EntryShown DEF IsVirgin, Stores
    <3>5. e.key \in Refs /\ e.value \in Refs /\ e.deleted = FALSE
      BY <1>3, <2>2 DEF Stores, Sound
    <3>6. [[fresh[s] EXCEPT !.key = e.key] EXCEPT !.value = e.value] = e
      BY <1>3, <3>3, <3>4, <3>5 DEF Stores
    <3>7. fresh' = [fresh EXCEPT ![s] = e]
      BY <3>1, <3>6
    <3> HIDE DEF e
    <3>8. Bytes(fresh', 2 * capacity) + LiveBytes(fresh[s]) = Bytes(fresh, 2 * capacity) + LiveBytes(e)
      BY <1>3, <3>2, <3>7, BytesPut
    <3>9. LiveBytes(fresh[s]) = 0
      BY <3>3, <3>4, BytesOfEntry
    <3>10. 2 * capacity \in 0 .. 2 * capacity
      BY <1>3
    <3>11. Bytes(fresh', 2 * capacity) \in Nat
      <4>1. fresh' \in [Slots(2 * capacity) -> Stores]
        BY <1>3, <3>7 DEF e
      <4> QED
        BY <1>3, <3>10, <4>1, BytesOfTable
    <3> QED
      BY <3>8, <3>9, <3>11
  <2> QED
    BY <2>1, <2>2
<1> QED
  BY <1>1, <1>4, <1>5, <1>6 DEF Counts

\* The set that is resizing inserts a key that neither table has.
LEMMA RequestIsNew ==
  ASSUME AInv, MapP!Inv, phase = "resize"
  PROVE  \A s \in SlotFor(ShownFresh, request.key, 2 * capacity) :
           s \in Slots(2 * capacity) /\ ~HasKey(fresh[s])
<1> DEFINE k == request.key
<1>1. /\ Good(fresh, 2 * capacity, arena) /\ ShownFresh = Shows(fresh, 2 * capacity, arena)
      /\ k \in Keys /\ ~MapP!Idle /\ capacity \in Nat /\ next \in 0 .. capacity
  BY Resizing, SameSearches
<1>2. /\ k \notin MapP!KeysOf(Shown)
      /\ \A j \in MapP!Slots(2 * capacity) : ShownFresh[j].key # NoKey =>
           \E i \in 0 .. next - 1 : ShownFresh[j] = MapP!Live(Shown[i].key, Shown[i].value)
  BY <1>1 DEF MapP!Inv, MapP!RehashCopies
<1>3. \A i \in 0 .. next - 1 : Shown[i].key # k
  <2> TAKE i \in 0 .. next - 1
  <2>1. i \in DOMAIN Shown
    BY <1>1 DEF Shown, Slots
  <2> QED
    BY <1>1, <1>2, <2>1, NoneAssumption DEF MapP!KeysOf
<1>4. ASSUME NEW j \in Slots(2 * capacity), ShownFresh[j].key = k
      PROVE  FALSE
  <2>1. PICK i \in 0 .. next - 1 : ShownFresh[j] = MapP!Live(Shown[i].key, Shown[i].value)
    BY <1>1, <1>2, <1>4, NoneAssumption DEF MapP!Slots, Slots
  <2>2. ShownFresh[j].key = Shown[i].key
    BY <2>1 DEF MapP!Live
  <2> QED
    BY <1>3, <1>4, <2>2
<1>5. Match(ShownFresh, k, 2 * capacity) = {}
  BY <1>4 DEF Match, Nearest, Stops
<1>6. ASSUME NEW s \in SlotFor(ShownFresh, k, 2 * capacity)
      PROVE  s \in Slots(2 * capacity) /\ ShownFresh[s].key = NoKey
  BY <1>5, <1>6 DEF SlotFor, Nearest
<1> QED
  BY <1>1, <1>6, EntryShown DEF Good, Shows

\* The new table installed: it has the bytes of the old one, and the request's.
LEMMA FinishSetCounts ==
  ASSUME AInv, MapP!Inv, Counts, FinishSet
  PROVE  Counts'
<1> DEFINE k == request.key
           v == request.value
           cap == 2 * capacity
<1>1. /\ phase = "resize" /\ phase' = "idle" /\ next = capacity /\ capacity' = cap
      /\ UNCHANGED replaced
  BY DEF FinishSet
<1>2. /\ Good(fresh, cap, arena) /\ arena \in Arena /\ capacity \in Nat
      /\ k \in Keys /\ v \in Values
  BY <1>1, Resizing
<1>3. PICK s \in SlotFor(ShownFresh, k, cap) :
        /\ table' = [fresh EXCEPT ![s] = PutEntry(arena, k, v).entry]
        /\ arena' = PutEntry(arena, k, v).arena
  BY DEF FinishSet
<1>4. s \in Slots(cap) /\ ~HasKey(fresh[s])
  BY <1>1, <1>3, RequestIsNew
<1>5. replaced \in Nat /\ Accounted(arena, Bytes(fresh, cap), replaced)
  BY <1>1 DEF Counts
<1>6. cap \in Nat /\ fresh \in [Slots(cap) -> Stores]
  BY <1>2 DEF Good
<1> HIDE DEF k, v, cap
<1>7. Accounted(arena', Bytes(table', cap), replaced)
  BY <1>2, <1>3, <1>4, <1>5, <1>6, NewEntryCounts
<1> QED
  BY <1>1, <1>5, <1>7 DEF Counts

\* remove: the bytes of the entry's strings are dead.
LEMMA RemoveFoundCounts ==
  ASSUME AInv, Counts, NEW k \in Keys, RemoveFound(k)
  PROVE  Counts'
<1>1. /\ phase = "idle" /\ phase' = IF ShouldReallocate(arena') THEN "compact" ELSE "idle"
      /\ UNCHANGED <<capacity, fresh, newArena, next, replaced>>
  BY DEF RemoveFound
<1>2. /\ Good(table, capacity, arena) /\ Shown = Shows(table, capacity, arena)
      /\ arena \in Arena /\ newArena = NewArena /\ capacity \in Nat /\ next = 0
  BY <1>1, AtRest
<1>3. PICK s \in Match(Shown, k, capacity) :
        /\ table' = [table EXCEPT ![s] = Marked]
        /\ arena' = Free(Free(arena, table[s].key), table[s].value)
  BY DEF RemoveFound
<1>4. s \in Slots(capacity) /\ Shown[s].key = k
  BY DEF Match, Nearest, Stops
<1> DEFINE e == table[s]
           b == Free(arena, e.key)
           c == Free(b, e.value)
<1>5. /\ e \in Stores /\ HasKey(e) /\ Placed(arena, e.key) /\ Placed(arena, e.value)
      /\ Apart(e.value, e.key)
  <2>1. e \in Stores /\ HasKey(e) /\ Sound(e, arena)
    BY <1>2, <1>4, NoneAssumption, SlotShown
  <2> QED
    BY <2>1, ApartSymmetric DEF Sound
<1>6. Freed(arena, b, e.key)
  BY <1>2, <1>5, FreeProperties
<1> HIDE DEF b
<1>7. b \in Arena /\ Placed(b, e.value)
  BY <1>5, <1>6 DEF Freed, Keeps
<1>8. Freed(b, c, e.value) /\ c = arena'
  BY <1>3, <1>7, FreeProperties DEF b
<1> HIDE DEF c
<1>9. /\ LiveBytes(e) = e.key.size + e.value.size /\ e.key.size \in Nat /\ e.value.size \in Nat
      /\ Marked \in Stores /\ LiveBytes(Marked) = 0
  <2>1. Unused \in Stores /\ Unused.key = NilRef
    BY DEF Unused, NilRef, Stores, Refs
  <2>2. Marked \in Stores /\ Marked.key = NilRef
    BY <2>1 DEF Marked, Stores
  <2>3. LiveBytes(Marked) = 0
    BY <2>2 DEF LiveBytes, NilRef
  <2> QED
    BY <1>5, <2>2, <2>3 DEF LiveBytes, HasKey, Stores, Refs
<1>10. table \in [Slots(capacity) -> Stores] /\ capacity \in 0 .. capacity
  BY <1>2 DEF Good
<1>11. table' \in [Slots(capacity) -> Stores]
  BY <1>3, <1>9, <1>10
<1>12. Bytes(table', capacity) + LiveBytes(e) = Bytes(table, capacity)
  <2>1. Bytes(table', capacity) + LiveBytes(e) = Bytes(table, capacity) + LiveBytes(Marked)
    BY <1>2, <1>3, <1>4, <1>9, <1>10, BytesPut
  <2> QED
    BY <2>1, <1>2, <1>9, <1>10, BytesOfTable
<1>13. Bytes(table', capacity) \in Nat /\ Bytes(table, capacity) \in Nat
  BY <1>2, <1>10, <1>11, BytesOfTable
<1>14. replaced \in Nat /\ Accounted(arena, Bytes(table, capacity), replaced)
  BY <1>1 DEF Counts
<1> HIDE DEF e
<1>15. UsedSize(c) = Bytes(table', capacity) + c.dead + replaced
  <2> DEFINE m == Bytes(table, capacity)
             m2 == Bytes(table', capacity)
             x == e.key.size
             y == e.value.size
             d == arena.dead
  <2>1. m2 + (x + y) = m /\ m \in Nat /\ m2 \in Nat /\ x \in Nat /\ y \in Nat /\ d \in Nat
    BY <1>2, <1>9, <1>12, <1>13 DEF Arena
  <2>2. UsedSize(c) = m + d + replaced
    BY <1>6, <1>8, <1>14 DEF Freed, Accounted
  <2>3. c.dead = (d + x) + y
    BY <1>6, <1>8 DEF Freed
  <2> HIDE DEF m, m2, x, y, d
  <2>4. m + d + replaced = m2 + ((d + x) + y) + replaced
    BY <2>1, <1>14
  <2> QED
    BY <2>2, <2>3, <2>4 DEF m2
<1>16. CASE ShouldReallocate(arena')
  <2>1. phase' = "compact"
    BY <1>1, <1>16
  <2>2. Bytes(table', 0) = 0
    BY <1>2, <1>11, BytesOfNoSlots
  <2> QED
    BY <1>1, <1>2, <1>14, <2>1, <2>2, NewArenaNumbers, ArenaAssumption DEF Counts
<1>17. CASE ~ShouldReallocate(arena')
  <2>1. phase' = "idle"
    BY <1>1, <1>17
  <2>2. Accounted(arena', Bytes(table', capacity), replaced)
    BY <1>8, <1>15, <1>17 DEF Accounted
  <2> QED
    BY <1>1, <1>14, <2>1, <2>2 DEF Counts
<1> QED
  BY <1>16, <1>17

\* One entry more in the new arena.
LEMMA CopyCounts ==
  ASSUME AInv, Counts, Copy
  PROVE  Counts'
<1> DEFINE e == table[next]
<1>1. /\ phase = "compact" /\ phase' = "compact" /\ next < capacity /\ next' = next + 1
      /\ UNCHANGED <<capacity, arena, fresh, replaced>>
  BY DEF Copy
<1>2. /\ capacity \in Nat /\ next \in 0 .. capacity /\ table \in [Slots(capacity) -> Stores]
      /\ arena \in Arena /\ newArena \in Arena
  BY DEF AInv, Types
<1>3. next \in Slots(capacity) /\ e \in Stores /\ Sound(e, arena)
  <2>1. next \in Slots(capacity) /\ ~(next < next)
    BY <1>1, <1>2 DEF Slots
  <2> QED
    BY <2>1, <1>1, <1>2 DEF AInv, InPlace, ArenaOf
<1>4. newArena.dead = 0 /\ BlockSize <= Capacity(newArena) /\ UsedSize(newArena) = Bytes(table, next)
  BY <1>1 DEF Counts
<1>5. /\ table' \in [Slots(capacity) -> Stores] /\ newArena' \in Arena
      /\ \A s \in Slots(capacity) : s < next => table'[s] = table[s]
      /\ Fills(newArena, newArena', LiveBytes(table'[next]))
  <2>1. CASE ~HasKey(e)
    <3>1. table' = table /\ newArena' = newArena
      BY <2>1 DEF Copy, HasKey
    <3> QED
      BY <2>1, <3>1, <1>2, <1>3, BytesOfEntry, FillsNothing
  <2>2. CASE HasKey(e)
    <3> DEFINE key == Store(newArena, View(arena, e.key))
               value == Store(key.arena, View(arena, e.value))
               x == [key |-> key.ref, value |-> value.ref, deleted |-> FALSE]
    <3>1. value.arena \in Arena /\ x \in Stores /\ Fills(newArena, value.arena, LiveBytes(x))
      BY <2>2, <1>2, <1>3, MovedEntry
    <3>2. /\ table' = [table EXCEPT ![next].key = key.ref, ![next].value = value.ref]
          /\ newArena' = value.arena
      BY <2>2 DEF Copy, HasKey
    <3>3. x.key = key.ref /\ x.value = value.ref /\ x.deleted = FALSE
      OBVIOUS
    <3> HIDE DEF key, value, x
    <3>4. e.deleted = FALSE
      BY <2>2, <1>3 DEF Sound, Stores
    <3>5. [[e EXCEPT !.key = key.ref] EXCEPT !.value = value.ref] = x
      BY <3>1, <3>3, <3>4, <1>3 DEF Stores
    <3>6. table' = [table EXCEPT ![next] = x]
      BY <3>2, <3>5
    <3>7. table'[next] = x /\ table' \in [Slots(capacity) -> Stores]
      BY <3>1, <3>6, <1>2, <1>3
    <3>8. \A s \in Slots(capacity) : s < next => table'[s] = table[s]
      BY <3>6, <1>2, <1>3 DEF Slots
    <3> QED
      BY <3>1, <3>2, <3>7, <3>8
  <2> QED
    BY <2>1, <2>2
<1> HIDE DEF e
<1>6. Bytes(table', next + 1) = Bytes(table, next) + LiveBytes(table'[next])
  BY <1>2, <1>3, <1>5, BytesNext
<1>7. newArena'.dead = 0 /\ UsedSize(newArena') = Bytes(table', next')
  BY <1>1, <1>4, <1>5, <1>6 DEF Fills
<1>8. BlockSize <= Capacity(newArena')
  <2>1. Capacity(newArena) \in Nat /\ Capacity(newArena') \in Nat
    BY <1>2, <1>5, ArenaSums
  <2> QED
    BY <2>1, <1>4, <1>5, ArenaAssumption DEF Fills
<1> QED
  BY <1>1, <1>7, <1>8 DEF Counts

\* The new arena has the bytes of the table and no others.
LEMMA FinishCopyCounts ==
  ASSUME AInv, Counts, FinishCopy
  PROVE  Counts'
<1>1. /\ phase = "compact" /\ phase' = "idle" /\ next = capacity /\ arena' = newArena
      /\ replaced' = 0 /\ UNCHANGED <<capacity, table>>
  BY DEF FinishCopy
<1>2. newArena.dead = 0 /\ BlockSize <= Capacity(newArena) /\ UsedSize(newArena) = Bytes(table, capacity)
  BY <1>1 DEF Counts
<1>3. Bytes(table, capacity) \in Nat /\ Capacity(newArena) \in Nat
  BY TablesCounted, ArenaSums DEF AInv, Types
<1>4. Accounted(newArena, Bytes(table, capacity), 0)
  BY <1>2, <1>3, ArenaAssumption DEF Accounted, ShouldReallocate
<1> QED
  BY <1>1, <1>4 DEF Counts

\* clear.
LEMMA ClearCounts ==
  ASSUME AInv, Counts, Clear
  PROVE  Counts'
<1>1. /\ phase = "idle" /\ phase' = "idle" /\ table' = UnusedTable(capacity) /\ arena' = NewArena
      /\ replaced' = 0 /\ UNCHANGED capacity
  BY DEF Clear
<1>2. capacity \in Nat /\ capacity \in 0 .. capacity
  BY DEF AInv, Types
<1>3. Bytes(table', capacity) = 0
  BY <1>1, <1>2, BytesUnused
<1>4. Accounted(NewArena, 0, 0)
  BY NewArenaNumbers, ArenaAssumption DEF Accounted, ShouldReallocate
<1> QED
  BY <1>1, <1>3, <1>4 DEF Counts

\* Every step accounts for the bytes.
LEMMA NextCounts ==
  ASSUME AInv, MapP!Inv, Counts, [Next]_vars
  PROVE  Counts'
<1>1. CASE UNCHANGED vars
  BY <1>1, CountsKept DEF vars
<1>2. ASSUME NEW k \in Keys, Get(k) \/ RemoveMissing(k)
      PROVE  Counts'
  BY <1>2, CountsKept DEF Get, RemoveMissing
<1>3. ASSUME NEW k \in Keys, NEW v \in Values, SetFaults(k, v)
      PROVE  Counts'
  BY <1>3, CountsKept DEF SetFaults
<1> QED
  BY <1>1, <1>2, <1>3, SetExistingCounts, SetNewCounts, StartResizeCounts, RehashCounts,
     FinishSetCounts, RemoveFoundCounts, CopyCounts, FinishCopyCounts, ClearCounts DEF Next

\* The bytes are accounted for at all times.
THEOREM CountsInvariance == Spec => []Counts
BY InitCounts, NextCounts, ShownInvariant, PTL DEF Spec

\* No byte is lost but where a longer value replaces a shorter one, and none is
\* counted dead twice or while it is live; the copy of remove leaves no gap.
THEOREM EveryByteAccounted == Spec => []BytesAccounted
<1>1. Counts => BytesAccounted
  BY DEF Counts, Accounted, BytesAccounted
<1> QED
  BY <1>1, CountsInvariance, PTL

\* The test after remove is enough: no operation returns with an arena at least
\* half of which is dead.
THEOREM ReclaimsInTime == Spec => []ReclaimedInTime
<1>1. AInv /\ Counts => ReclaimedInTime
  <2> SUFFICES ASSUME AInv, Counts, phase = "idle"
               PROVE  2 * arena.dead < Capacity(arena)
    BY DEF ReclaimedInTime
  <2>1. Capacity(arena) \in Nat /\ arena.dead \in Nat
    BY ArenaSums DEF AInv, Types, Arena
  <2> QED
    BY <2>1 DEF Counts, Accounted, ShouldReallocate
<1> QED
  BY <1>1, Invariance, CountsInvariance, PTL

-----------------------------------------------------------------------------
(* Where compact_into takes the strings.                                   *)

\* Where a byte of a part is in the part and in the whole.
LEMMA Between ==
  \A b, n, d, o, m \in Nat : b + n <= d /\ m = o + b =>
    \A i \in 1 .. n : b + i \in 1 .. d /\ m + i = o + (b + i)
OBVIOUS

\* A string lies in the compacted bytes where offset_of says.
LEMMA FoundCompacted ==
  ASSUME NEW a \in Arena, NEW r, Placed(a, r)
  PROVE  View(a, r) = SubSeq(CompactBytes(a), OffsetOf(a, r) + 1, OffsetOf(a, r) + r.size)
<1> DEFINE s == [i \in DOMAIN a.blocks |-> a.blocks[i].data]
           k == r.block + 1
           t == [i \in 1 .. r.block |-> Len(a.blocks[i].data)]
           o == SumOf(t)
           x == CompactBytes(a)
           m == OffsetOf(a, r)
           v == View(a, r)
<1>1. a.blocks \in Seq(Block) /\ Len(a.blocks) \in Nat /\ DOMAIN a.blocks = 1 .. Len(a.blocks)
  BY LenProperties DEF Arena
<1>2. /\ r.block \in Nat /\ r.offset \in Nat /\ r.size \in Nat /\ k \in 1 .. Len(a.blocks)
      /\ BlockOf(a, r) = a.blocks[k] /\ Len(a.blocks[k].data) \in Nat
      /\ r.offset + r.size <= Len(a.blocks[k].data)
  BY BlockPlaced
<1>3. /\ s \in Seq(Seq(Byte)) /\ Len(s) = Len(a.blocks)
      /\ \A i \in 1 .. Len(a.blocks) : s[i] = a.blocks[i].data
  <2>1. ASSUME NEW i \in 1 .. Len(a.blocks) PROVE a.blocks[i].data \in Seq(Byte)
    <3>1. a.blocks[i] \in Block
      BY <1>1, ElementOfSeq
    <3> QED
      BY <3>1 DEF Block
  <2> QED
    BY <1>1, <2>1
<1>4. x = FlattenSeq(s)
  BY DEF CompactBytes
<1>5. m = o + r.offset
  <2>1. o = BlockOffset(a, r.block)
    BY DEF BlockOffset, Total, SumOf
  <2> QED
    BY <2>1 DEF OffsetOf
<1>6. /\ o \in Nat /\ FlattenSeq(s) \in Seq(Byte) /\ o + Len(s[k]) <= Len(FlattenSeq(s))
      /\ \A j \in 1 .. Len(s[k]) : FlattenSeq(s)[o + j] = s[k][j]
  <2>1. s \in Seq(Seq(Byte)) /\ k \in 1 .. Len(s)
    BY <1>2, <1>3
  <2>2. ASSUME NEW i \in 1 .. r.block PROVE Len(a.blocks[i].data) \in Nat /\ Len(s[i]) = Len(a.blocks[i].data)
    <3>1. i \in 1 .. Len(a.blocks)
      BY <1>2
    <3>2. s[i] = a.blocks[i].data
      BY <1>3, <3>1
    <3>3. s[i] \in Seq(Byte)
      BY <1>3, <3>1, ElementOfSeq
    <3> QED
      BY <3>2, <3>3, LenProperties
  <2>3. t \in Seq(Nat) /\ Len(t) = k - 1 /\ LengthsOf(t, s, k - 1)
    <3>1. k - 1 = r.block
      BY <1>2
    <3>2. t \in Seq(Nat) /\ Len(t) = r.block /\ LengthsOf(t, s, r.block)
      <4> HIDE DEF s, k
      <4> QED
        BY <1>2, <2>2 DEF LengthsOf
    <3> QED
      BY <3>1, <3>2
  <2> HIDE DEF s, k, t
  <2> QED
    BY <2>1, <2>3, FlattenPiece
<1>7. s[k] = a.blocks[k].data
  BY <1>2, <1>3
<1>8. v \in Seq(Byte) /\ Len(v) = r.size /\ \A i \in 1 .. r.size : v[i] = a.blocks[k].data[r.offset + i]
  BY <1>2, ViewPlaced
<1>9. Len(x) \in Nat /\ x \in Seq(Byte)
  BY <1>4, <1>6, LenProperties
<1> DEFINE d == Len(s[k])
           z == Len(x)
<1> HIDE DEF s, k, t, o, x, m, v, d
<1>10. d \in Nat /\ z \in Nat /\ o \in Nat /\ m = o + r.offset /\ r.offset + r.size <= d /\ o + d <= z
  <2>1. d = Len(a.blocks[k].data)
    BY <1>7 DEF d
  <2>2. o + d <= z
    BY <1>4, <1>6 DEF d
  <2> QED
    BY <1>2, <1>5, <1>6, <1>9, <2>1, <2>2
<1>11. m \in Nat /\ m + r.size <= Len(x)
  <2> HIDE DEF z
  <2>1. m \in Nat /\ m + r.size <= z
    BY <1>2, <1>10
  <2> QED
    BY <2>1 DEF z
<1> DEFINE w == SubSeq(x, m + 1, m + r.size)
<1>12. w \in Seq(Byte) /\ Len(w) = r.size /\ \A i \in 1 .. r.size : w[i] = x[m + i]
  BY <1>2, <1>9, <1>11, PieceOf, ZenonT(30)
<1> HIDE DEF w
<1>13. ASSUME NEW i \in 1 .. r.size PROVE w[i] = v[i]
  <2>1. r.offset + i \in 1 .. Len(s[k]) /\ m + i = o + (r.offset + i)
    <3>1. r.offset + i \in 1 .. d /\ m + i = o + (r.offset + i)
      <4> DEFINE b == r.offset
                 n == r.size
      <4>1. b \in Nat /\ n \in Nat /\ d \in Nat /\ o \in Nat /\ m \in Nat /\ b + n <= d /\ m = o + b /\ i \in 1 .. n
        BY <1>2, <1>10, <1>11
      <4> HIDE DEF b, n
      <4>2. \A j \in 1 .. n : b + j \in 1 .. d /\ m + j = o + (b + j)
        BY <4>1, Between
      <4> QED
        BY <4>1, <4>2 DEF b
    <3> QED
      BY <3>1 DEF d
  <2>2. x[m + i] = s[k][r.offset + i]
    BY <1>4, <1>6, <2>1
  <2> QED
    BY <1>7, <1>8, <1>12, <2>2
<1>14. v = w
  BY <1>8, <1>12, <1>13, SeqEqual
<1> QED
  BY <1>14 DEF v, w, x, m

\* compact_into and offset_of agree for every live string at every moment
\* between two operations: none would be read from another place.
THEOREM CompactedStringsFound == Spec => []CompactedLayoutRight
<1>1. AInv => CompactedLayoutRight
  <2> SUFFICES ASSUME AInv, phase = "idle", NEW p \in Pieces
               PROVE  View(arena, RefOf(p))
                        = SubSeq(CompactBytes(arena), OffsetOf(arena, RefOf(p)) + 1,
                                 OffsetOf(arena, RefOf(p)) + RefOf(p).size)
    BY DEF CompactedLayoutRight
  <2>1. PICK r \in Slots(capacity), f \in {"key", "value"} : p = <<r, f>>
    BY DEF Pieces
  <2>2. HasKey(table[r]) /\ p[1] = r /\ RefOf(p) = IF f = "key" THEN table[r].key ELSE table[r].value
    BY <2>1 DEF Pieces, HasKey, RefOf
  <2>3. ArenaOf(r) = arena
    BY DEF ArenaOf, Moved
  <2>4. arena \in Arena /\ Placed(arena, RefOf(p))
    BY <2>2, <2>3 DEF AInv, InPlace, Sound, Types
  <2> QED
    BY <2>4, FoundCompacted
<1> QED
  BY <1>1, Invariance, PTL
=============================================================================
