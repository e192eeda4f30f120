---------------------------- MODULE Main_proofs ----------------------------
(***************************************************************************)
(* What main reads: lines that are split into words, for every line, and   *)
(* the session of the REPL, for every set of words and lines; and the      *)
(* arguments of the three programs, for every command line.                *)
(***************************************************************************)
EXTENDS Repl, Options, SequenceLemmas, FiniteSetTheorems

\* Skip stops at the first character that is (not) whitespace, or behind the line.
LEMMA SkipProperties ==
  ASSUME NEW S, NEW l \in Seq(S), NEW p \in 1 .. Len(l) + 1, NEW b \in BOOLEAN,
         NEW q, q = Skip(l, p, b)
  PROVE  /\ q \in p .. Len(l) + 1
         /\ q <= Len(l) => (l[q] \in Spaces <=> ~b)
         /\ \A i \in p .. q - 1 : i \in 1 .. Len(l) /\ (l[i] \in Spaces <=> b)
<1> DEFINE T == {i \in p .. Len(l) + 1 : i > Len(l) \/ (l[i] \in Spaces) # b}
<1>1. Len(l) \in Nat /\ p \in Nat
  BY LenProperties
<1>2. Len(l) + 1 \in T /\ T \subseteq Nat
  BY <1>1
<1>3. PICK m \in T : \A i \in T : m <= i
  BY <1>2, LeastNumber
<1>4. q = Min(T)
  BY DEF Skip
<1>5. q \in T /\ \A i \in T : q <= i
  <2> HIDE DEF T
  <2> QED
    BY <1>3, <1>4 DEF Min
<1>6. q \in p .. Len(l) + 1 /\ (q <= Len(l) => (l[q] \in Spaces <=> ~b))
  BY <1>1, <1>5
<1>7. ASSUME NEW i \in p .. q - 1
      PROVE  i \in 1 .. Len(l) /\ (l[i] \in Spaces <=> b)
  <2>1. i \in p .. Len(l) + 1 /\ ~(q <= i) /\ i \in 1 .. Len(l) /\ ~(i > Len(l))
    BY <1>1, <1>6
  <2>2. i \notin T
    BY <1>5, <2>1
  <2> QED
    BY <2>1, <2>2
<1> QED
  BY <1>6, <1>7

\* The stretches that begin at p or behind it.
Behind(l, p) == {r \in Stretches(l) : r[1] >= p}

\* Where next_token may be called: at the front, behind a word or at the end.
Boundary(l, p) == p = 1 \/ p = Len(l) + 1 \/ l[p] \in Spaces

\* What a stretch is.
LEMMA StretchFacts ==
  ASSUME NEW S, NEW l \in Seq(S), NEW r \in Stretches(l)
  PROVE  /\ r = <<r[1], r[2]>> /\ r[1] \in 1 .. Len(l) /\ r[2] \in 1 .. Len(l) /\ r[1] <= r[2]
         /\ \A i \in r[1] .. r[2] : l[i] \notin Spaces
         /\ r[1] = 1 \/ l[r[1] - 1] \in Spaces
         /\ r[2] = Len(l) \/ l[r[2] + 1] \in Spaces
BY DEF Stretches

\* Two stretches that begin together are the same.
LEMMA SameBegin ==
  ASSUME NEW S, NEW l \in Seq(S), NEW r \in Stretches(l), NEW q \in Stretches(l), r[1] = q[1]
  PROVE  r = q
<1>0. Len(l) \in Nat
  BY LenProperties
<1>1. ASSUME NEW x \in Stretches(l), NEW y \in Stretches(l), x[1] = y[1], x[2] < y[2]
      PROVE  FALSE
  <2>1. /\ x[1] \in Nat /\ x[2] \in 1 .. Len(l) /\ y[2] \in 1 .. Len(l) /\ x[1] <= x[2]
        /\ \A i \in y[1] .. y[2] : l[i] \notin Spaces
        /\ x[2] = Len(l) \/ l[x[2] + 1] \in Spaces
    BY StretchFacts
  <2>2. x[2] + 1 \in y[1] .. y[2] /\ x[2] # Len(l)
    BY <1>0, <1>1, <2>1
  <2> QED
    BY <2>1, <2>2
<1>2. r[2] \in Int /\ q[2] \in Int /\ r = <<r[1], r[2]>> /\ q = <<q[1], q[2]>>
  BY <1>0, StretchFacts
<1>3. ~(r[2] < q[2]) /\ ~(q[2] < r[2])
  BY <1>1
<1> QED
  BY <1>2, <1>3

LEMMA StretchesFinite ==
  ASSUME NEW S, NEW l \in Seq(S), NEW p, NEW m
  PROVE  /\ IsFiniteSet(Stretches(l)) /\ IsFiniteSet(Behind(l, p))
         /\ IsFiniteSet({r \in Behind(l, p) : r[1] <= m})
<1>1. IsFiniteSet(1 .. Len(l))
  BY LenProperties, FS_Interval
<1>2. IsFiniteSet((1 .. Len(l)) \X (1 .. Len(l)))
  BY <1>1, FS_Product
<1>3. IsFiniteSet(Stretches(l))
  BY <1>2, FS_Subset DEF Stretches
<1>4. IsFiniteSet(Behind(l, p))
  BY <1>3, FS_Subset DEF Behind
<1> QED
  BY <1>3, <1>4, FS_Subset

\* next_token finds the next stretch, or an empty word when there is none.
LEMMA NextTokenFinds ==
  ASSUME NEW S, NEW l \in Seq(S), NEW p \in 1 .. Len(l) + 1, Boundary(l, p),
         NEW next, next = NextToken(l, p)
  PROVE  \/ next.token = <<>> /\ Behind(l, p) = {}
         \/ \E r \in Stretches(l) :
              /\ next.token = SubSeq(l, r[1], r[2]) /\ next.token # <<>> /\ next.position = r[2] + 1
              /\ p <= r[1] /\ next.position \in 1 .. Len(l) + 1 /\ Boundary(l, next.position)
              /\ Behind(l, p) = {r} \cup Behind(l, next.position)
<1> DEFINE begin == Skip(l, p, TRUE)
           end == Skip(l, begin, FALSE)
           n == Len(l)
<1>1. n \in Nat /\ p \in Nat
  BY LenProperties
<1>2. /\ begin \in p .. n + 1
      /\ begin <= n => l[begin] \notin Spaces
      /\ \A i \in p .. begin - 1 : i \in 1 .. n /\ l[i] \in Spaces
  <2>1. TRUE \in BOOLEAN
    OBVIOUS
  <2> HIDE DEF begin
  <2>2. begin = Skip(l, p, TRUE)
    BY DEF begin
  <2>3. /\ begin \in p .. n + 1
        /\ begin <= n => (l[begin] \in Spaces <=> ~TRUE)
        /\ \A i \in p .. begin - 1 : i \in 1 .. n /\ (l[i] \in Spaces <=> TRUE)
    BY <2>1, <2>2, SkipProperties
  <2> QED
    BY <2>3
<1>3. begin \in 1 .. n + 1
  <2> HIDE DEF begin, n
  <2> QED
    BY <1>1, <1>2
<1>4. /\ end \in begin .. n + 1
      /\ end <= n => l[end] \in Spaces
      /\ \A i \in begin .. end - 1 : i \in 1 .. n /\ l[i] \notin Spaces
  <2>1. FALSE \in BOOLEAN
    OBVIOUS
  <2> HIDE DEF begin, end
  <2>2. end = Skip(l, begin, FALSE)
    BY DEF end
  <2>3. /\ end \in begin .. n + 1
        /\ end <= n => (l[end] \in Spaces <=> ~FALSE)
        /\ \A i \in begin .. end - 1 : i \in 1 .. n /\ (l[i] \in Spaces <=> FALSE)
    BY <1>3, <2>1, <2>2, SkipProperties
  <2>4. end <= n => l[end] \in Spaces
    BY <2>3
  <2>5. \A i \in begin .. end - 1 : i \in 1 .. n /\ l[i] \notin Spaces
    BY <2>3
  <2> QED
    BY <2>3, <2>4, <2>5
<1>5. next.token = SubSeq(l, begin, end - 1) /\ next.position = end
  BY DEF NextToken
<1> HIDE DEF begin, end, n
<1>6. ASSUME NEW r \in Behind(l, p)
      PROVE  /\ r \in Stretches(l) /\ r[1] \in 1 .. n /\ begin <= r[1] /\ l[r[1]] \notin Spaces
             /\ r[1] = begin \/ l[r[1] - 1] \in Spaces
  <2>1. /\ r \in Stretches(l) /\ r[1] >= p /\ r[1] \in 1 .. n /\ r[2] \in 1 .. n /\ r[1] <= r[2]
        /\ \A i \in r[1] .. r[2] : l[i] \notin Spaces
        /\ r[1] = 1 \/ l[r[1] - 1] \in Spaces
    BY StretchFacts DEF Behind, n
  <2>2. r[1] \in r[1] .. r[2]
    BY <1>1, <2>1
  <2>3. r[1] \notin p .. begin - 1
    BY <1>2, <2>1, <2>2
  <2>4. begin <= r[1]
    BY <1>1, <1>2, <2>1, <2>3
  <2>5. r[1] = 1 => r[1] = begin
    BY <1>1, <1>3, <2>4
  <2> QED
    BY <2>1, <2>2, <2>4, <2>5
<1>7. CASE begin = n + 1
  <2>1. end = n + 1 /\ SubSeq(l, begin, end - 1) = <<>>
    BY <1>1, <1>4, <1>7, SubSeqEmpty
  <2>2. Behind(l, p) = {}
    BY <1>1, <1>6, <1>7
  <2> QED
    BY <1>5, <2>1, <2>2
<1>8. CASE begin # n + 1
  <2> DEFINE r == <<begin, end - 1>>
  <2>1. begin \in 1 .. n /\ end # begin
    BY <1>1, <1>2, <1>3, <1>4, <1>8
  <2>2. end - 1 \in begin .. n /\ end \in 2 .. n + 1 /\ end - 1 \in 1 .. n /\ (end - 1) + 1 = end
    BY <1>1, <1>4, <2>1
  <2>3. begin = 1 \/ l[begin - 1] \in Spaces
    <3>1. CASE begin = p
      <4>1. p # n + 1 /\ l[p] \notin Spaces
        BY <1>2, <1>8, <2>1, <3>1
      <4> QED
        BY <3>1, <4>1 DEF Boundary, n
    <3>2. CASE begin # p
      <4>1. begin - 1 \in p .. begin - 1
        BY <1>1, <1>2, <3>2
      <4> QED
        BY <1>2, <4>1
    <3> QED
      BY <3>1, <3>2
  <2>4. end - 1 = n \/ l[(end - 1) + 1] \in Spaces
    BY <1>1, <1>4, <2>2
  <2>5. r \in Stretches(l)
    <3>1. r \in (1 .. n) \X (1 .. n) /\ r[1] = begin /\ r[2] = end - 1 /\ begin <= end - 1
      BY <1>1, <2>1, <2>2
    <3> HIDE DEF r
    <3> QED
      BY <1>4, <2>3, <2>4, <3>1 DEF Stretches, n
  <2>6. next.token # <<>>
    <3>1. Len(SubSeq(l, begin, end - 1)) = end - 1 - begin + 1
      <4>1. begin \in Int /\ end - 1 \in Int /\ begin <= end - 1
        BY <1>1, <2>1, <2>2
      <4>2. \A i \in begin .. end - 1 : l[i] \in S
        BY <1>4, ElementOfSeq DEF n
      <4> QED
        BY <4>1, <4>2, SubSeqProperties
    <3>2. end - 1 - begin + 1 # 0
      BY <1>1, <2>1, <2>2
    <3> QED
      BY <1>5, <3>1, <3>2, EmptySeq
  <2>7. Boundary(l, end) /\ end \in 1 .. n + 1
    BY <1>1, <1>4, <2>2 DEF Boundary, n
  <2>8. ASSUME NEW q \in Behind(l, p), q # r
        PROVE  q \in Behind(l, end)
    <3>1. /\ q \in Stretches(l) /\ q[1] \in 1 .. n /\ begin <= q[1] /\ l[q[1]] \notin Spaces
          /\ q[1] = begin \/ l[q[1] - 1] \in Spaces
      BY <1>6
    <3>2. q[1] # begin
      <4>1. r[1] = begin
        OBVIOUS
      <4> QED
        BY <2>5, <2>8, <3>1, <4>1, SameBegin
    <3>3. q[1] - 1 \notin begin .. end - 1
      BY <1>4, <3>1, <3>2
    <3>4. q[1] >= end
      BY <1>1, <1>4, <2>1, <2>2, <3>1, <3>2, <3>3
    <3> QED
      BY <3>1, <3>4 DEF Behind
  <2>9. r \in Behind(l, p) /\ Behind(l, end) \subseteq Behind(l, p)
    <3>1. begin >= p /\ end >= p /\ r[1] = begin
      BY <1>1, <1>2, <2>1, <2>2
    <3>2. ASSUME NEW q \in Behind(l, end)
          PROVE  q \in Behind(l, p)
      <4>1. q \in Stretches(l) /\ q[1] \in 1 .. n /\ q[1] >= end
        BY StretchFacts DEF Behind, n
      <4> QED
        BY <1>1, <2>2, <3>1, <4>1 DEF Behind
    <3> QED
      BY <2>5, <3>1, <3>2 DEF Behind
  <2>10. Behind(l, p) = {r} \cup Behind(l, end)
    BY <2>8, <2>9
  <2>11. r[1] = begin /\ r[2] = end - 1 /\ end = r[2] + 1 /\ p <= r[1]
    BY <1>1, <1>2, <2>2
  <2> HIDE DEF r
  <2> QED
    BY <1>5, <2>5, <2>6, <2>7, <2>10, <2>11 DEF n
<1> QED
  BY <1>7, <1>8

-----------------------------------------------------------------------------
(* The recursion of Tokens.                                                *)

\* The words from position p on, when f holds those from later positions.
TokensFrom(l, p, f) ==
  IF NextToken(l, p).token = <<>> THEN <<>>
  ELSE <<NextToken(l, p).token>> \o f[NextToken(l, p).position]

Froms(f, l) == f = [p \in 1 .. Len(l) + 1 |-> TokensFrom(l, p, f)]

\* The same, without the recursion in it, of the positions from k on.
FromsDownTo(f, l, k) ==
  /\ f = [p \in k .. Len(l) + 1 |-> f[p]]
  /\ \A p \in k .. Len(l) + 1 : f[p] = TokensFrom(l, p, f)

\* Splitting a line is that recursion from its front.
LEMMA TokensDef ==
  ASSUME NEW l
  PROVE  Tokens(l) = (CHOOSE f : Froms(f, l))[1]
BY DEF Tokens, Froms, TokensFrom

\* A word that is not empty ends behind the position it was searched from.
LEMMA NextTokenMoves ==
  ASSUME NEW S, NEW l \in Seq(S), NEW p \in 1 .. Len(l) + 1, NextToken(l, p).token # <<>>
  PROVE  NextToken(l, p).position \in p + 1 .. Len(l) + 1
<1>1. Len(l) \in Nat /\ p \in Nat /\ TRUE \in BOOLEAN /\ FALSE \in BOOLEAN
  BY LenProperties
<1>2. PICK b : b = Skip(l, p, TRUE)
  OBVIOUS
<1>3. b \in p .. Len(l) + 1
  BY <1>1, <1>2, SkipProperties
<1>4. b \in 1 .. Len(l) + 1
  BY <1>1, <1>3
<1>5. PICK e : e = Skip(l, b, FALSE)
  OBVIOUS
<1>6. e \in b .. Len(l) + 1
  BY <1>1, <1>4, <1>5, SkipProperties
<1>7. NextToken(l, p).token = SubSeq(l, b, e - 1) /\ NextToken(l, p).position = e
  BY <1>2, <1>5 DEF NextToken
<1>8. e # b
  <2>1. e = b => SubSeq(l, b, e - 1) = <<>>
    BY <1>1, <1>4, SubSeqEmpty
  <2> QED
    BY <1>7, <2>1
<1>9. e \in p + 1 .. Len(l) + 1
  BY <1>1, <1>3, <1>4, <1>6, <1>8
<1> QED
  BY <1>7, <1>9

\* There is a function with that recursion.
LEMMA FromsExist ==
  ASSUME NEW S, NEW l \in Seq(S)
  PROVE  \E f : FromsDownTo(f, l, 1)
<1> DEFINE n == Len(l)
           T == {m \in Nat : ~ \E f : FromsDownTo(f, l, (n + 2) - m)}
<1>0. n \in Nat
  BY LenProperties
<1>1. \A m \in 0 .. n + 1 : \E f : FromsDownTo(f, l, (n + 2) - m)
  <2> SUFFICES ASSUME NEW w \in 0 .. n + 1, w \in T PROVE FALSE
    BY <1>0
  <2>1. PICK m \in T : \A k \in T : m <= k
    BY LeastNumber
  <2>2. m \in Nat /\ m <= n + 1
    BY <1>0, <2>1
  <2>3. m # 0
    <3> DEFINE g == [p \in {} |-> <<>>]
    <3>1. (n + 2) .. n + 1 = {}
      BY <1>0
    <3>2. FromsDownTo(g, l, n + 2)
      BY <3>1 DEF FromsDownTo
    <3>3. ~ FromsDownTo(g, l, (n + 2) - m)
      BY <2>1
    <3> HIDE DEF g, n, T
    <3>4. m = 0 => (n + 2) - m = n + 2
      BY <1>0
    <3> QED
      BY <3>2, <3>3, <3>4
  <2>4. m - 1 \in Nat /\ m - 1 \notin T
    <3>1. m - 1 \in T => m <= m - 1
      BY <2>1
    <3> HIDE DEF T
    <3> QED
      BY <2>2, <2>3, <3>1
  <2>5. PICK k \in Int : k = (n + 2) - m
    <3> HIDE DEF n, T
    <3> QED
      BY <1>0, <2>2
  <2>6. k \in 1 .. n + 1 /\ (n + 2) - (m - 1) = k + 1
    <3> HIDE DEF n, T
    <3> QED
      BY <1>0, <2>2, <2>3, <2>5
  <2>7. PICK f : FromsDownTo(f, l, k + 1)
    BY <2>4, <2>6
  <2> DEFINE g == [p \in k .. n + 1 |-> IF p = k THEN TokensFrom(l, k, f) ELSE f[p]]
  <2>8. ASSUME NEW p \in k .. n + 1 PROVE g[p] = TokensFrom(l, p, g)
    <3>1. p \in 1 .. n + 1
      BY <1>0, <2>6
    <3>2. TokensFrom(l, p, g) = TokensFrom(l, p, f)
      <4>1. CASE NextToken(l, p).token = <<>>
        BY <4>1 DEF TokensFrom
      <4>2. CASE NextToken(l, p).token # <<>>
        <5>1. PICK e : e = NextToken(l, p).position
          OBVIOUS
        <5>2. e \in p + 1 .. n + 1
          BY <3>1, <4>2, <5>1, NextTokenMoves
        <5>3. e \in k .. n + 1 /\ e # k
          BY <1>0, <2>6, <3>1, <5>2
        <5>4. g[e] = f[e]
          BY <5>3
        <5> HIDE DEF g
        <5> QED
          BY <4>2, <5>1, <5>4 DEF TokensFrom
      <4> QED
        BY <4>1, <4>2
    <3>3. CASE p = k
      BY <3>2, <3>3
    <3>4. CASE p # k
      <4>1. p \in k + 1 .. n + 1
        BY <1>0, <2>6, <3>1, <3>4
      <4>2. f[p] = TokensFrom(l, p, f)
        BY <2>7, <4>1 DEF FromsDownTo
      <4>3. g[p] = f[p]
        BY <3>4
      <4> QED
        BY <3>2, <4>2, <4>3
    <3> QED
      BY <3>3, <3>4
  <2>9. g = [p \in k .. n + 1 |-> g[p]]
    OBVIOUS
  <2>10. FromsDownTo(g, l, k)
    <3> HIDE DEF g
    <3> QED
      BY <2>8, <2>9 DEF FromsDownTo
  <2> QED
    BY <2>1, <2>5, <2>10
<1>2. n + 1 \in 0 .. n + 1 /\ (n + 2) - (n + 1) = 1
  BY <1>0
<1> QED
  BY <1>1, <1>2

\* Tokens has it.
LEMMA TokensOf ==
  ASSUME NEW S, NEW l \in Seq(S)
  PROVE  \E f : FromsDownTo(f, l, 1) /\ Tokens(l) = f[1]
<1>1. PICK g : FromsDownTo(g, l, 1)
  BY FromsExist
<1>2. Froms(g, l)
  BY <1>1 DEF FromsDownTo, Froms
<1> DEFINE f == CHOOSE h : Froms(h, l)
<1>3. Froms(f, l)
  BY <1>2
<1>4. Tokens(l) = f[1]
  BY TokensDef
<1> HIDE DEF f
<1>5. FromsDownTo(f, l, 1)
  BY <1>3 DEF Froms, FromsDownTo
<1> QED
  BY <1>4, <1>5

-----------------------------------------------------------------------------
(* What Tokens finds.                                                      *)

\* The words of the line, and the place of a stretch among those from p on.
WordsOf(l) == {SubSeq(l, r[1], r[2]) : r \in Stretches(l)}

UpTo(l, p, r) == {q \in Behind(l, p) : q[1] <= r[1]}

Rank(l, p, r) == Cardinality(UpTo(l, p, r))

\* The words found from p on are the stretches from p on, in order.
ListsBehind(l, p, words) ==
  /\ words \in Seq(WordsOf(l))
  /\ Len(words) = Cardinality(Behind(l, p))
  /\ \A r \in Behind(l, p) : words[Rank(l, p, r)] = SubSeq(l, r[1], r[2])

LEMMA UpToFinite ==
  ASSUME NEW S, NEW l \in Seq(S), NEW p, NEW r
  PROVE  IsFiniteSet(UpTo(l, p, r)) /\ UpTo(l, p, r) \subseteq Behind(l, p)
<1>1. PICK m : m = r[1]
  OBVIOUS
<1>2. UpTo(l, p, r) = {q \in Behind(l, p) : q[1] <= m}
  BY <1>1 DEF UpTo
<1>3. IsFiniteSet({q \in Behind(l, p) : q[1] <= m})
  BY StretchesFinite
<1> QED
  BY <1>2, <1>3

\* A stretch has a place in the list.
LEMMA RankInside ==
  ASSUME NEW S, NEW l \in Seq(S), NEW p, NEW r \in Behind(l, p)
  PROVE  Rank(l, p, r) \in 1 .. Cardinality(Behind(l, p))
<1>1. IsFiniteSet(Behind(l, p)) /\ IsFiniteSet(UpTo(l, p, r)) /\ UpTo(l, p, r) \subseteq Behind(l, p)
  BY StretchesFinite, UpToFinite
<1>2. r \in UpTo(l, p, r)
  <2>1. r[1] \in 1 .. Len(l) /\ Len(l) \in Nat
    BY StretchFacts, LenProperties DEF Behind
  <2> QED
    BY <2>1 DEF UpTo
<1>3. /\ Cardinality(UpTo(l, p, r)) \in Nat /\ Cardinality(Behind(l, p)) \in Nat
      /\ Cardinality(UpTo(l, p, r)) <= Cardinality(Behind(l, p))
  BY <1>1, FS_CardinalityType, FS_Subset
<1>4. Cardinality(UpTo(l, p, r)) # 0
  BY <1>1, <1>2, FS_EmptySet
<1> QED
  BY <1>3, <1>4 DEF Rank

\* One more word in front.
LEMMA ListOneMore ==
  ASSUME NEW S, NEW l \in Seq(S), NEW p \in Int, NEW e \in Int, NEW r \in Stretches(l),
         p <= r[1], e = r[2] + 1, Behind(l, p) = {r} \cup Behind(l, e),
         NEW words, ListsBehind(l, e, words)
  PROVE  ListsBehind(l, p, <<SubSeq(l, r[1], r[2])>> \o words)
<1> DEFINE first == SubSeq(l, r[1], r[2])
           all == <<first>> \o words
           B == Behind(l, e)
<1>1. Len(l) \in Nat /\ r[1] \in 1 .. Len(l) /\ r[2] \in 1 .. Len(l) /\ r[1] <= r[2] /\ r[1] < e
  <2>1. Len(l) \in Nat /\ r[1] \in 1 .. Len(l) /\ r[2] \in 1 .. Len(l) /\ r[1] <= r[2]
    BY StretchFacts, LenProperties
  <2> QED
    BY <2>1
<1>2. words \in Seq(WordsOf(l)) /\ Len(words) = Cardinality(B)
  BY DEF ListsBehind
<1>3. first \in WordsOf(l)
  BY DEF WordsOf
<1> HIDE DEF first
<1>4. <<first>> \in Seq(WordsOf(l)) /\ Len(<<first>>) = 1 /\ <<first>>[1] = first
  BY <1>3
<1>5. /\ all \in Seq(WordsOf(l)) /\ Len(all) = 1 + Len(words) /\ Len(words) \in Nat
      /\ \A i \in 1 .. 1 + Len(words) : all[i] = IF i <= 1 THEN <<first>>[i] ELSE words[i - 1]
  <2>1. Len(words) \in Nat
    BY <1>2, LenProperties
  <2> QED
    BY <1>2, <1>4, <2>1, ConcatProperties
<1> HIDE DEF all
<1>6. all[1] = first
  BY <1>4, <1>5
<1>7. ASSUME NEW i \in 1 .. Len(words) PROVE all[1 + i] = words[i]
  <2>1. 1 + i \in 1 .. 1 + Len(words) /\ ~(1 + i <= 1) /\ (1 + i) - 1 = i
    BY <1>5
  <2> QED
    BY <1>5, <2>1
<1>8. IsFiniteSet(B) /\ r \notin B
  <2>1. r \in B => r[1] >= e
    BY DEF Behind
  <2>2. IsFiniteSet(B)
    BY StretchesFinite
  <2>3. ~(r[1] >= e)
    BY <1>1
  <2> QED
    BY <2>1, <2>2, <2>3
<1>9. Cardinality(Behind(l, p)) = Cardinality(B) + 1
  <2>1. Cardinality(B \cup {r}) = Cardinality(B) + 1
    BY <1>8, FS_AddElement
  <2>2. Behind(l, p) = B \cup {r}
    OBVIOUS
  <2> QED
    BY <2>1, <2>2
<1>10. all[Rank(l, p, r)] = first
  <2>1. ASSUME NEW q \in UpTo(l, p, r), q # r PROVE FALSE
    <3>1. q \in B /\ q[1] <= r[1]
      BY <2>1 DEF UpTo
    <3>2. q[1] >= e /\ q[1] \in Int
      BY <1>1, <3>1, StretchFacts DEF Behind
    <3> QED
      BY <1>1, <3>1, <3>2
  <2>2. r \in UpTo(l, p, r)
    BY <1>1 DEF UpTo
  <2>3. UpTo(l, p, r) = {r}
    BY <2>1, <2>2
  <2>4. Rank(l, p, r) = 1
    BY <2>3, FS_Singleton DEF Rank
  <2> QED
    BY <1>6, <2>4
<1>11. ASSUME NEW q \in B PROVE all[Rank(l, p, q)] = SubSeq(l, q[1], q[2])
  <2>1. q[1] >= e /\ q[1] \in Int
    BY <1>1, StretchFacts DEF Behind
  <2>2. r[1] <= q[1]
    BY <1>1, <2>1
  <2>3. UpTo(l, p, q) = UpTo(l, e, q) \cup {r}
    BY <2>2 DEF UpTo
  <2>4. r \notin UpTo(l, e, q) /\ IsFiniteSet(UpTo(l, e, q))
    BY <1>8, UpToFinite DEF UpTo
  <2>5. Rank(l, p, q) = Rank(l, e, q) + 1
    <3>1. PICK U : U = UpTo(l, e, q)
      OBVIOUS
    <3>2. Cardinality(U \cup {r}) = Cardinality(U) + 1
      BY <2>4, <3>1, FS_AddElement
    <3> QED
      BY Zenon, <2>3, <3>1, <3>2 DEF Rank
  <2>6. Rank(l, e, q) \in 1 .. Len(words)
    BY <1>2, RankInside
  <2>7. all[1 + Rank(l, e, q)] = words[Rank(l, e, q)]
    BY <1>7, <2>6
  <2>8. Rank(l, p, q) = 1 + Rank(l, e, q)
    BY <1>5, <2>5, <2>6
  <2>9. words[Rank(l, e, q)] = SubSeq(l, q[1], q[2])
    BY DEF ListsBehind
  <2> QED
    BY <2>7, <2>8, <2>9
<1>12. Len(all) = Cardinality(Behind(l, p))
  BY <1>2, <1>5, <1>9
<1>13. \A q \in Behind(l, p) : all[Rank(l, p, q)] = SubSeq(l, q[1], q[2])
  BY <1>10, <1>11 DEF first
<1>14. ListsBehind(l, p, all)
  BY <1>5, <1>12, <1>13 DEF ListsBehind
<1> QED
  BY <1>14 DEF all, first

\* No word at all.
LEMMA ListNone ==
  ASSUME NEW l, NEW p, Behind(l, p) = {}
  PROVE  ListsBehind(l, p, <<>>)
<1>1. Len(<<>>) = 0 /\ <<>> \in Seq(WordsOf(l))
  OBVIOUS
<1>2. Cardinality(Behind(l, p)) = 0
  BY FS_EmptySet
<1> QED
  BY <1>1, <1>2 DEF ListsBehind

\* Splitting a line finds its stretches, each once and in order.
LEMMA TokensList ==
  ASSUME NEW S, NEW l \in Seq(S)
  PROVE  ListsBehind(l, 1, Tokens(l))
<1> DEFINE n == Len(l)
<1>0. n \in Nat
  BY LenProperties
<1>1. PICK f : FromsDownTo(f, l, 1) /\ Tokens(l) = f[1]
  BY TokensOf
<1> DEFINE T == {m \in Nat : /\ (n + 1) - m \in 1 .. n + 1 /\ Boundary(l, (n + 1) - m)
                             /\ ~ListsBehind(l, (n + 1) - m, f[(n + 1) - m])}
<1>2. T = {}
  <2> SUFFICES ASSUME T # {} PROVE FALSE
    OBVIOUS
  <2>1. PICK m \in T : \A k \in T : m <= k
    BY LeastNumber
  <2>2. PICK p : p = (n + 1) - m
    OBVIOUS
  <2>3. m \in Nat /\ p \in 1 .. n + 1 /\ Boundary(l, p) /\ ~ListsBehind(l, p, f[p])
    BY <2>1, <2>2
  <2>4. f[p] = TokensFrom(l, p, f)
    BY <1>1, <2>3 DEF FromsDownTo
  <2>5. PICK next : next = NextToken(l, p)
    OBVIOUS
  <2>6. CASE next.token = <<>> /\ Behind(l, p) = {}
    BY <2>3, <2>4, <2>5, <2>6, ListNone DEF TokensFrom
  <2>7. ASSUME NEW r \in Stretches(l),
               next.token = SubSeq(l, r[1], r[2]), next.token # <<>>, next.position = r[2] + 1,
               p <= r[1], next.position \in 1 .. n + 1, Boundary(l, next.position),
               Behind(l, p) = {r} \cup Behind(l, next.position)
        PROVE  FALSE
    <3>1. PICK e : e = next.position
      OBVIOUS
    <3>2. PICK k \in Int : k = (n + 1) - e
      BY <1>0, <2>7, <3>1
    <3>3. r[1] \in 1 .. n /\ r[2] \in 1 .. n /\ r[1] <= r[2]
      BY StretchFacts
    <3>4. e \in 1 .. n + 1 /\ e > p /\ e = r[2] + 1
      BY <1>0, <2>3, <2>7, <3>1, <3>3
    <3>5. k \in Nat /\ k < m /\ e = (n + 1) - k
      <4> HIDE DEF n, T
      <4> QED
        BY <1>0, <2>2, <2>3, <3>2, <3>4
    <3>6. k \notin T
      <4>1. k \in T => m <= k
        BY <2>1
      <4> HIDE DEF T
      <4> QED
        BY <2>3, <3>5, <4>1
    <3>7. ListsBehind(l, e, f[e])
      BY <2>7, <3>1, <3>4, <3>5, <3>6
    <3>8. f[p] = <<SubSeq(l, r[1], r[2])>> \o f[e]
      BY <2>4, <2>5, <2>7, <3>1 DEF TokensFrom
    <3>9. ListsBehind(l, p, <<SubSeq(l, r[1], r[2])>> \o f[e])
      <4>1. p \in Int /\ e \in Int
        BY <1>0, <2>3, <3>4
      <4>2. Behind(l, p) = {r} \cup Behind(l, e)
        BY <2>7, <3>1
      <4> HIDE DEF n, T
      <4> QED
        BY <2>7, <3>4, <3>7, <4>1, <4>2, ListOneMore
    <3> QED
      BY <2>3, <3>8, <3>9
  <2> QED
    <3> HIDE DEF T
    <3>1. \/ next.token = <<>> /\ Behind(l, p) = {}
          \/ \E r \in Stretches(l) :
               /\ next.token = SubSeq(l, r[1], r[2]) /\ next.token # <<>> /\ next.position = r[2] + 1
               /\ p <= r[1] /\ next.position \in 1 .. n + 1 /\ Boundary(l, next.position)
               /\ Behind(l, p) = {r} \cup Behind(l, next.position)
      BY <2>3, <2>5, NextTokenFinds
    <3> QED
      BY <2>6, <2>7, <3>1
<1>3. n \in Nat /\ (n + 1) - n = 1 /\ n \notin T
  BY <1>0, <1>2
<1>4. 1 \in 1 .. n + 1 /\ Boundary(l, 1)
  BY <1>0 DEF Boundary
<1> QED
  BY <1>1, <1>3, <1>4

\* All stretches begin at the front or behind it.
LEMMA AllBehindFront ==
  ASSUME NEW S, NEW l \in Seq(S)
  PROVE  Behind(l, 1) = Stretches(l)
<1>1. ASSUME NEW r \in Stretches(l) PROVE r[1] >= 1
  BY StretchFacts, LenProperties
<1> QED
  BY <1>1 DEF Behind

\* A line of the session is a string, and of such words.
LEMMA LinesAreStrings ==
  ASSUME NEW l \in Lines \cup {<<>>}
  PROVE  \E S : l \in Seq(S) /\ WordsOf(l) \subseteq Words
<1>1. CASE l = <<>>
  <2>1. l \in Seq({}) /\ Len(l) = 0
    BY <1>1
  <2>2. 1 .. Len(l) = {}
    BY <2>1
  <2>3. Stretches(l) = {}
    BY <2>2 DEF Stretches
  <2> QED
    BY <2>1, <2>3 DEF WordsOf
<1>2. CASE l \in Lines
  <2>1. l \in Seq({l[i] : i \in DOMAIN l})
    BY <1>2, LinesAssumption
  <2>2. \A r \in Stretches(l) : SubSeq(l, r[1], r[2]) \in Words
    BY <1>2, LinesAssumption
  <2> QED
    BY <2>1, <2>2 DEF WordsOf
<1> QED
  BY <1>1, <1>2

\* What Tokens makes of a line of the session.
LEMMA LineTokens ==
  ASSUME NEW l \in Lines \cup {<<>>}, NEW t, t = Tokens(l)
  PROVE  /\ t \in Seq(Words) /\ Len(t) \in Nat
         /\ Len(t) = Cardinality(Stretches(l)) /\ IsFiniteSet(Stretches(l))
         /\ \A r \in Stretches(l) :
              t[Cardinality({q \in Stretches(l) : q[1] <= r[1]})] = SubSeq(l, r[1], r[2])
<1>1. PICK S : l \in Seq(S) /\ WordsOf(l) \subseteq Words
  BY LinesAreStrings
<1>2. ListsBehind(l, 1, t) /\ Behind(l, 1) = Stretches(l)
  BY <1>1, TokensList, AllBehindFront
<1>3. t \in Seq(WordsOf(l)) /\ Len(t) = Cardinality(Stretches(l))
  BY <1>2 DEF ListsBehind
<1>4. Len(t) \in Nat /\ t \in Seq(Words)
  <2>1. Len(t) \in Nat
    BY <1>3, LenProperties
  <2>2. t \in Seq(Words)
    <3> HIDE DEF WordsOf
    <3>1. \A i \in 1 .. Len(t) : t[i] \in WordsOf(l)
      BY <1>3, ElementOfSeq
    <3>2. \A i \in 1 .. Len(t) : t[i] \in Words
      BY <1>1, <3>1
    <3> QED
      BY <1>3, <3>2
  <2> QED
    BY <2>1, <2>2
<1>5. ASSUME NEW r \in Stretches(l)
      PROVE  t[Cardinality({q \in Stretches(l) : q[1] <= r[1]})] = SubSeq(l, r[1], r[2])
  <2>1. t[Rank(l, 1, r)] = SubSeq(l, r[1], r[2])
    BY <1>2 DEF ListsBehind
  <2>2. UpTo(l, 1, r) = {q \in Stretches(l) : q[1] <= r[1]}
    BY <1>2 DEF UpTo
  <2> QED
    BY <2>1, <2>2 DEF Rank
<1>6. IsFiniteSet(Stretches(l))
  BY <1>1, StretchesFinite
<1> QED
  BY <1>3, <1>4, <1>5, <1>6

\* The leftmost stretch is the first word.
LEMMA FirstToken ==
  ASSUME NEW l \in Lines \cup {<<>>}, NEW r \in Stretches(l),
         \A q \in Stretches(l) : r[1] <= q[1]
  PROVE  Tokens(l)[1] = SubSeq(l, r[1], r[2])
<1>1. PICK S : l \in Seq(S)
  BY LinesAreStrings
<1>2. ASSUME NEW q \in Stretches(l), q[1] <= r[1] PROVE q = r
  <2>1. q[1] \in Int /\ r[1] \in Int /\ r[1] <= q[1]
    BY <1>1, StretchFacts
  <2>2. q[1] = r[1]
    BY <1>2, <2>1
  <2> QED
    BY <1>1, <2>2, SameBegin
<1>3. r[1] \in Int
  BY <1>1, StretchFacts
<1>4. {q \in Stretches(l) : q[1] <= r[1]} = {r}
  BY <1>2, <1>3
<1>5. Cardinality({q \in Stretches(l) : q[1] <= r[1]}) = 1
  BY <1>4, FS_Singleton
<1>6. Tokens(l)[Cardinality({q \in Stretches(l) : q[1] <= r[1]})] = SubSeq(l, r[1], r[2])
  BY LineTokens
<1> QED
  BY <1>5, <1>6

\* There is one in a line with a word.
LEMMA LeftmostExists ==
  ASSUME NEW l \in Lines \cup {<<>>}, Stretches(l) # {}
  PROVE  \E r \in Stretches(l) : \A q \in Stretches(l) : r[1] <= q[1]
<1>1. PICK S : l \in Seq(S)
  BY LinesAreStrings
<1> DEFINE T == {r[1] : r \in Stretches(l)}
<1>2. ASSUME NEW r \in Stretches(l) PROVE r[1] \in Nat
  BY <1>1, StretchFacts
<1>3. T \subseteq Nat /\ T # {}
  BY <1>2
<1>4. PICK b \in T : \A m \in T : b <= m
  BY <1>3, LeastNumber
<1> QED
  BY <1>4

-----------------------------------------------------------------------------
(* Running a line.                                                         *)

LEMMA RequiredRange ==
  ASSUME NEW name \in Names
  PROVE  RequiredArgs(name) \in 0 .. 2
BY DEF Names, RequiredArgs

\* What parseCommand accepts.
LEMMA ParseAccepts ==
  ASSUME NEW t \in Seq(Words), NEW c, c = Parse(t)
  PROVE  /\ c.valid \in BOOLEAN
         /\ c.valid <=> t # <<>> /\ t[1] \in Names /\ Len(t) = 1 + RequiredArgs(t[1])
         /\ c.valid => c.name = t[1] /\ c.args = Tail(t)
<1>1. CASE t = <<>>
  <2>1. c = Command(FALSE, <<>>, <<>>)
    BY <1>1 DEF Parse
  <2>2. c.valid = FALSE
    BY <2>1 DEF Command
  <2> QED
    BY <1>1, <2>2
<1>2. CASE t # <<>>
  <2>1. Head(t) = t[1] /\ Len(Tail(t)) = Len(t) - 1 /\ Len(t) \in Nat
    BY <1>2, HeadTailProperties, LenProperties
  <2>2. CASE t[1] \in Names /\ Len(t) = 1 + RequiredArgs(t[1])
    <3>1. RequiredArgs(t[1]) \in 0 .. 2
      BY <2>2, RequiredRange
    <3>2. Len(Tail(t)) <= MaxArgs /\ Len(Tail(t)) = RequiredArgs(t[1])
      BY <2>1, <2>2, <3>1 DEF MaxArgs
    <3>3. c = Command(TRUE, t[1], Tail(t))
      BY <1>2, <2>1, <2>2, <3>2 DEF Parse
    <3> QED
      BY <1>2, <2>2, <3>3 DEF Command
  <2>3. CASE ~(t[1] \in Names /\ Len(t) = 1 + RequiredArgs(t[1]))
    <3>1. ~(t[1] \in Names /\ Len(Tail(t)) = RequiredArgs(t[1]))
      <4>1. t[1] \in Names => RequiredArgs(t[1]) \in 0 .. 2
        BY RequiredRange
      <4> QED
        BY <2>1, <2>3, <4>1
    <3>2. c = Command(FALSE, <<>>, <<>>)
      BY <2>1, <3>1 DEF Parse
    <3>3. c.valid = FALSE
      BY <3>2 DEF Command
    <3> QED
      BY <2>3, <3>3
  <2> QED
    BY <2>2, <2>3
<1> QED
  BY <1>1, <1>2

Stores == [Words -> Words \cup {NoValue}]

\* What each command does.
Done(name, args, st, res) ==
  /\ res.error = FALSE
  /\ name \in {ExitName, PingName} => res.store = st
  /\ name = GetName => args[1] \in Words /\ res.store = st /\ res.output = st[args[1]]
  /\ name = SetName => /\ args[1] \in Words /\ args[2] \in Words
                       /\ res.store = [st EXCEPT ![args[1]] = args[2]] /\ res.output = OK
  /\ name = DelName => /\ args[1] \in Words
                       /\ res.store = [st EXCEPT ![args[1]] = NoValue]
                       /\ res.output = IF st[args[1]] = NoValue THEN NoValue ELSE OK
  /\ name = FlushName => res.store = [w \in Words |-> NoValue] /\ res.output = OK

LEMMA ExecuteDoes ==
  ASSUME NEW name \in Names, NEW args \in Seq(Words), Len(args) = RequiredArgs(name),
         NEW st \in Stores, NEW res, res = Execute(name, args, st)
  PROVE  Done(name, args, st, res)
<1>1. DOMAIN st = Words
  BY DEF Stores
<1>2. CASE name = ExitName
  BY <1>2, NamesAreDifferent DEF Execute, Result, Done
<1>3. CASE name = PingName
  BY <1>3, NamesAreDifferent DEF Execute, Result, Done
<1>4. CASE name = GetName
  <2>1. Len(args) = 1
    BY <1>4, NamesAreDifferent DEF RequiredArgs
  <2>2. args[1] \in Words
    BY <2>1, ElementOfSeq
  <2>3. res = Result(FALSE, FALSE, st[args[1]], st)
    BY <1>4, NamesAreDifferent DEF Execute
  <2> QED
    BY <1>4, <2>2, <2>3, NamesAreDifferent DEF Result, Done
<1>5. CASE name = SetName
  <2>1. Len(args) = 2
    BY <1>5, NamesAreDifferent DEF RequiredArgs
  <2>2. args[1] \in Words /\ args[2] \in Words
    <3>1. 1 \in 1 .. Len(args) /\ 2 \in 1 .. Len(args)
      BY <2>1
    <3> QED
      BY <3>1, ElementOfSeq
  <2>3. res = Result(FALSE, FALSE, OK, [st EXCEPT ![args[1]] = args[2]])
    BY <1>5, NamesAreDifferent DEF Execute
  <2> QED
    BY <1>5, <2>2, <2>3, NamesAreDifferent DEF Result, Done
<1>6. CASE name = DelName
  <2>1. Len(args) = 1
    BY <1>6, NamesAreDifferent DEF RequiredArgs
  <2>2. args[1] \in Words
    BY <2>1, ElementOfSeq
  <2>3. res = Result(FALSE, FALSE, IF st[args[1]] = NoValue THEN NoValue ELSE OK,
                     [st EXCEPT ![args[1]] = NoValue])
    BY <1>6, NamesAreDifferent DEF Execute
  <2> QED
    BY <1>6, <2>2, <2>3, NamesAreDifferent DEF Result, Done
<1>7. CASE name = FlushName
  <2>1. res = Result(FALSE, FALSE, OK, [w \in Words |-> NoValue])
    BY <1>1, <1>7, NamesAreDifferent DEF Execute
  <2> QED
    BY <1>7, <2>1, NamesAreDifferent DEF Result, Done
<1> QED
  BY <1>2, <1>3, <1>4, <1>5, <1>6, <1>7 DEF Names

\* run_command, for a line that is refused and for one that is run.
LEMMA RunDoes ==
  ASSUME NEW l \in Lines \cup {<<>>}, NEW st \in Stores, NEW res, res = RunCommand(l, st),
         NEW t, t = Tokens(l)
  PROVE  /\ t \in Seq(Words)
         /\ ~Parse(t).valid => res.error = TRUE /\ res.store = st
         /\ Parse(t).valid =>
              /\ t # <<>> /\ t[1] \in Names /\ Tail(t) \in Seq(Words)
              /\ Len(Tail(t)) = RequiredArgs(t[1])
              /\ res = Execute(t[1], Tail(t), st)
              /\ res.error = FALSE
<1>1. t \in Seq(Words)
  BY LineTokens
<1>2. ASSUME ~Parse(t).valid
      PROVE  res.error = TRUE /\ res.store = st
  <2>1. res = Rejected(st)
    BY <1>2 DEF RunCommand
  <2> QED
    BY <2>1 DEF Rejected, Result
<1>3. ASSUME Parse(t).valid
      PROVE  /\ t # <<>> /\ t[1] \in Names /\ Tail(t) \in Seq(Words)
             /\ Len(Tail(t)) = RequiredArgs(t[1])
             /\ res = Execute(t[1], Tail(t), st)
             /\ res.error = FALSE
  <2>1. /\ t # <<>> /\ t[1] \in Names /\ Len(t) = 1 + RequiredArgs(t[1])
        /\ Parse(t).name = t[1] /\ Parse(t).args = Tail(t)
    BY <1>1, <1>3, ParseAccepts
  <2>2. Tail(t) \in Seq(Words) /\ Len(Tail(t)) = Len(t) - 1
    BY <1>1, <2>1, HeadTailProperties
  <2>3. RequiredArgs(t[1]) \in Nat
    BY <2>1, RequiredRange
  <2>4. Len(Tail(t)) = RequiredArgs(t[1])
    BY <2>1, <2>2, <2>3
  <2>5. res = Execute(t[1], Tail(t), st)
    BY <1>3, <2>1 DEF RunCommand
  <2>6. Done(t[1], Tail(t), st, res)
    BY <2>1, <2>2, <2>4, <2>5, ExecuteDoes
  <2>7. res.error = FALSE
    BY <2>6 DEF Done
  <2> QED
    BY <2>1, <2>2, <2>4, <2>5, <2>7
<1> QED
  BY <1>1, <1>2, <1>3

-----------------------------------------------------------------------------
(* The session.                                                            *)

\* The store holds words, and the result is that of the last line.
Inv ==
  /\ store \in Stores
  /\ line \in Lines \cup {<<>>}
  /\ result.error = ~Parse(Tokens(line)).valid

LEMMA InitInv == Init => Inv
<1> SUFFICES ASSUME Init PROVE Inv
  OBVIOUS
<1>1. store \in Stores /\ line \in Lines \cup {<<>>} /\ line = <<>> /\ result = Rejected(store)
  BY DEF Init, Stores
<1>2. Tokens(line) = <<>>
  <2>1. Tokens(line) \in Seq(Words) /\ Len(Tokens(line)) = Cardinality(Stretches(line))
    BY <1>1, LineTokens
  <2>2. 1 .. Len(line) = {}
    BY <1>1
  <2>3. Stretches(line) = {}
    BY <2>2 DEF Stretches
  <2>4. Len(Tokens(line)) = 0
    BY <2>1, <2>3, FS_EmptySet
  <2> QED
    BY <2>1, <2>4, EmptySeq
<1>3. Parse(Tokens(line)).valid = FALSE
  BY <1>2 DEF Parse, Command
<1>4. result.error = TRUE
  BY <1>1 DEF Rejected, Result
<1> QED
  BY <1>1, <1>3, <1>4 DEF Inv

\* What running a line does to the store, in the terms of KVDict.
Effect(t, st, st2, out) ==
  \/ t[1] \in {ExitName, PingName} /\ st2 = st
  \/ t[1] = GetName /\ t[2] \in Words /\ st2 = st /\ out = st[t[2]]
  \/ /\ t[1] = SetName /\ t[2] \in Words /\ t[3] \in Words
     /\ st2 = [st EXCEPT ![t[2]] = t[3]] /\ out = OK
  \/ /\ t[1] = DelName /\ t[2] \in Words
     /\ st2 = [st EXCEPT ![t[2]] = NoValue]
     /\ out = IF st[t[2]] = NoValue THEN NoValue ELSE OK
  \/ t[1] = FlushName /\ st2 = [w \in Words |-> NoValue] /\ out = OK

LEMMA RunLineDoes ==
  ASSUME Inv, NEW l \in Lines, RunLine(l), NEW t, t = Tokens(l)
  PROVE  /\ line' = l
         /\ result'.error = ~Parse(t).valid
         /\ ~Parse(t).valid => store' = store
         /\ Parse(t).valid => t # <<>> /\ t[1] \in Names /\ Effect(t, store, store', result'.output)
<1>0. line' = l /\ result' = RunCommand(l, store) /\ store' = result'.store /\ store \in Stores
  BY DEF RunLine, Inv
<1>1. t \in Seq(Words)
  BY <1>0, RunDoes
<1>2. Parse(t).valid \in BOOLEAN
  BY <1>1, ParseAccepts
<1>3. CASE ~Parse(t).valid
  <2>1. result'.error = TRUE /\ result'.store = store
    BY <1>0, <1>3, RunDoes
  <2> QED
    BY <1>0, <1>2, <1>3, <2>1
<1>4. CASE Parse(t).valid
  <2>1. /\ t # <<>> /\ t[1] \in Names /\ Tail(t) \in Seq(Words)
        /\ Len(Tail(t)) = RequiredArgs(t[1])
        /\ result' = Execute(t[1], Tail(t), store) /\ result'.error = FALSE
    BY <1>0, <1>4, RunDoes
  <2>2. PICK args \in Seq(Words) : args = Tail(t)
    BY <2>1
  <2>3. Len(args) \in Nat /\ \A i \in 1 .. Len(args) : args[i] = t[i + 1]
    BY <1>1, <2>1, <2>2, HeadTailProperties, LenProperties
  <2>4. PICK out : out = result'.output
    OBVIOUS
  <2>5. Done(t[1], args, store, result')
    BY <1>0, <2>1, <2>2, ExecuteDoes
  <2>6. CASE t[1] \in {ExitName, PingName}
    <3>1. store' = store
      BY <1>0, <2>4, <2>6, <2>5 DEF Done
    <3> QED
      BY <1>0, <1>2, <1>4, <2>1, <2>6, <3>1 DEF Effect
  <2>7. CASE t[1] = GetName
    <3>1. args[1] \in Words /\ store' = store /\ out = store[args[1]]
      BY <1>0, <2>4, <2>7, <2>5 DEF Done
    <3>2. Len(args) = 1
      BY <2>1, <2>2, <2>7, NamesAreDifferent DEF RequiredArgs
    <3>3. args[1] = t[2]
      BY <2>3, <3>2
    <3>4. Effect(t, store, store', out)
      BY <2>7, <3>1, <3>3 DEF Effect
    <3> QED
      BY <1>0, <1>2, <1>4, <2>1, <2>4, <3>4
  <2>8. CASE t[1] = SetName
    <3>1. /\ args[1] \in Words /\ args[2] \in Words
          /\ store' = [store EXCEPT ![args[1]] = args[2]] /\ out = OK
      BY <1>0, <2>4, <2>8, <2>5 DEF Done
    <3>2. Len(args) = 2
      BY <2>1, <2>2, <2>8, NamesAreDifferent DEF RequiredArgs
    <3>3. args[1] = t[2] /\ args[2] = t[3]
      BY <2>3, <3>2
    <3>4. Effect(t, store, store', out)
      BY <2>8, <3>1, <3>3 DEF Effect
    <3> QED
      BY <1>0, <1>2, <1>4, <2>1, <2>4, <3>4
  <2>9. CASE t[1] = DelName
    <3>1. /\ args[1] \in Words /\ store' = [store EXCEPT ![args[1]] = NoValue]
          /\ out = IF store[args[1]] = NoValue THEN NoValue ELSE OK
      BY <1>0, <2>4, <2>9, <2>5 DEF Done
    <3>2. Len(args) = 1
      BY <2>1, <2>2, <2>9, NamesAreDifferent DEF RequiredArgs
    <3>3. args[1] = t[2]
      BY <2>3, <3>2
    <3>4. Effect(t, store, store', out)
      BY <2>9, <3>1, <3>3 DEF Effect
    <3> QED
      BY <1>0, <1>2, <1>4, <2>1, <2>4, <3>4
  <2>10. CASE t[1] = FlushName
    <3>1. store' = [w \in Words |-> NoValue] /\ out = OK
      BY <1>0, <2>4, <2>10, <2>5 DEF Done
    <3>2. Effect(t, store, store', out)
      BY <2>10, <3>1 DEF Effect
    <3> QED
      BY <1>0, <1>2, <1>4, <2>1, <2>4, <3>2
  <2> QED
    BY <2>1, <2>6, <2>7, <2>8, <2>9, <2>10 DEF Names
<1> QED
  BY <1>3, <1>4

LEMMA EffectKeepsStores ==
  ASSUME NEW t, NEW st \in Stores, NEW st2, NEW out, Effect(t, st, st2, out)
  PROVE  st2 \in Stores
BY DEF Effect, Stores

LEMMA NextInv == Inv /\ [Next]_vars => Inv'
<1> SUFFICES ASSUME Inv, [Next]_vars PROVE Inv'
  OBVIOUS
<1>1. ASSUME NEW l \in Lines, RunLine(l) PROVE Inv'
  <2>1. PICK t : t = Tokens(l)
    OBVIOUS
  <2>2. /\ line' = l /\ result'.error = ~Parse(t).valid
        /\ ~Parse(t).valid => store' = store
        /\ Parse(t).valid => Effect(t, store, store', result'.output)
    BY <1>1, <2>1, RunLineDoes
  <2>3. store \in Stores
    BY DEF Inv
  <2>4. store' \in Stores
    BY <2>2, <2>3, EffectKeepsStores
  <2>5. result'.error = ~Parse(Tokens(line')).valid
    BY <2>1, <2>2
  <2> QED
    BY <2>2, <2>4, <2>5 DEF Inv
<1>2. CASE UNCHANGED <<store, line, result>>
  BY <1>2 DEF Inv
<1> QED
  BY <1>1, <1>2 DEF Next, EndOfInput, vars

\* In every session the store holds words and the result is that of the last line.
THEOREM Invariance == Spec => []Inv
<1> QED
  BY InitInv, NextInv, PTL DEF Spec

\* Every line is split into its stretches without whitespace.
THEOREM AlwaysStretches == Spec => []TokensAreStretches
<1>1. Inv => TokensAreStretches
  <2> SUFFICES ASSUME Inv PROVE TokensAreStretches
    OBVIOUS
  <2>1. line \in Lines \cup {<<>>}
    BY DEF Inv
  <2> QED
    BY <2>1, LineTokens DEF TokensAreStretches
<1> QED
  BY <1>1, Invariance, PTL

\* What the word count of a line and its leftmost word have to do with Parse.
LEMMA AcceptedIff ==
  ASSUME NEW l \in Lines \cup {<<>>}
  PROVE  Parse(Tokens(l)).valid <=>
           \E r \in Stretches(l) :
             /\ \A q \in Stretches(l) : r[1] <= q[1]
             /\ SubSeq(l, r[1], r[2]) \in Names
             /\ Cardinality(Stretches(l)) = 1 + RequiredArgs(SubSeq(l, r[1], r[2]))
<1>1. PICK t : t = Tokens(l)
  OBVIOUS
<1>2. /\ t \in Seq(Words) /\ Len(t) \in Nat /\ Len(t) = Cardinality(Stretches(l))
      /\ IsFiniteSet(Stretches(l))
  BY <1>1, LineTokens
<1>3. Parse(t).valid <=> t # <<>> /\ t[1] \in Names /\ Len(t) = 1 + RequiredArgs(t[1])
  BY <1>2, ParseAccepts
<1>4. ASSUME Parse(t).valid
      PROVE  \E r \in Stretches(l) :
               /\ \A q \in Stretches(l) : r[1] <= q[1]
               /\ SubSeq(l, r[1], r[2]) \in Names
               /\ Cardinality(Stretches(l)) = 1 + RequiredArgs(SubSeq(l, r[1], r[2]))
  <2>1. Len(t) # 0
    BY <1>2, <1>3, <1>4, EmptySeq
  <2>2. Stretches(l) # {}
    BY <1>2, <2>1, FS_EmptySet
  <2>3. PICK r \in Stretches(l) : \A q \in Stretches(l) : r[1] <= q[1]
    BY <2>2, LeftmostExists
  <2>4. t[1] = SubSeq(l, r[1], r[2])
    BY <1>1, <2>3, FirstToken
  <2> QED
    BY <1>2, <1>3, <1>4, <2>3, <2>4
<1>5. ASSUME NEW r \in Stretches(l), \A q \in Stretches(l) : r[1] <= q[1],
             SubSeq(l, r[1], r[2]) \in Names,
             Cardinality(Stretches(l)) = 1 + RequiredArgs(SubSeq(l, r[1], r[2]))
      PROVE  Parse(t).valid
  <2>1. t[1] = SubSeq(l, r[1], r[2])
    BY <1>1, <1>5, FirstToken
  <2>2. Len(t) = 1 + RequiredArgs(t[1]) /\ t[1] \in Names
    BY <1>2, <1>5, <2>1
  <2>3. Len(t) # 0
    <3>1. RequiredArgs(t[1]) \in 0 .. 2
      BY <2>2, RequiredRange
    <3> QED
      BY <2>2, <3>1
  <2>4. t # <<>>
    BY <2>3
  <2> QED
    BY <1>3, <2>2, <2>4
<1> QED
  BY <1>1, <1>4, <1>5

\* A line is run if and only if it is a command with exactly its arguments.
THEOREM AlwaysAcceptedExactly == Spec => []AcceptedExactly
<1>1. Inv => AcceptedExactly
  <2> SUFFICES ASSUME Inv PROVE AcceptedExactly
    OBVIOUS
  <2>1. line \in Lines \cup {<<>>} /\ result.error = ~Parse(Tokens(line)).valid
    BY DEF Inv
  <2>2. ~result.error <=> Parse(Tokens(line)).valid
    BY <2>1
  <2> QED
    BY <2>1, <2>2, AcceptedIff DEF AcceptedExactly
<1> QED
  BY <1>1, Invariance, PTL

\* The empty word is no command.
LEMMA NoEmptyName == <<>> \notin Names
BY LinesAssumption, NamesAreWords

\* Every line that is run is an operation of the dictionary, with its output;
\* one that is refused changes nothing.
THEOREM SessionRefines == Spec => SessionIsDict
<1> DEFINE Step == \/ IF ReplyOf'.op = "none" THEN UNCHANGED store ELSE Dict!Next
                   \/ UNCHANGED <<store, line, result>>
<1>1. Inv /\ [Next]_vars => [Step]_vars
  <2> SUFFICES ASSUME Inv, [Next]_vars PROVE Step
    OBVIOUS
  <2>1. ASSUME NEW l \in Lines, RunLine(l) PROVE Step
    <3>1. PICK t : t = Tokens(l)
      OBVIOUS
    <3>2. /\ line' = l /\ result'.error = ~Parse(t).valid
          /\ ~Parse(t).valid => store' = store
          /\ Parse(t).valid => t[1] \in Names /\ Effect(t, store, store', result'.output)
      BY <2>1, <3>1, RunLineDoes
    <3>3. CASE ~Parse(t).valid
      <4>1. Operation' = <<>>
        BY <3>2, <3>3 DEF Operation
      <4>2. ReplyOf'.op = "none"
        BY <4>1, NoEmptyName DEF ReplyOf, Names
      <4> QED
        BY <3>2, <3>3, <4>2
    <3>4. CASE Parse(t).valid
      <4>0. Operation' = t[1]
        BY <3>1, <3>2, <3>4 DEF Operation
      <4>1. CASE t[1] \in {ExitName, PingName} /\ store' = store
        <5>1. ReplyOf'.op = "none"
          BY <4>0, <4>1, NamesAreDifferent DEF ReplyOf
        <5> QED
          BY <4>1, <5>1
      <4>2. CASE t[1] = GetName /\ t[2] \in Words /\ store' = store /\ result'.output = store[t[2]]
        <5>1. ReplyOf' = [op |-> "get", key |-> t[2], value |-> NoValue, out |-> store[t[2]]]
          BY <3>1, <3>2, <4>0, <4>2, NamesAreDifferent DEF ReplyOf
        <5>2. Dict!Get(t[2])
          BY <4>2, <5>1 DEF Dict!Get, Dict!Reply
        <5>3. Dict!Next
          BY <4>2, <5>2 DEF Dict!Next
        <5>4. ReplyOf'.op # "none"
          BY <5>1
        <5> QED
          BY <5>3, <5>4
      <4>3. CASE /\ t[1] = SetName /\ t[2] \in Words /\ t[3] \in Words
                 /\ store' = [store EXCEPT ![t[2]] = t[3]] /\ result'.output = OK
        <5>1. ReplyOf' = [op |-> "set", key |-> t[2], value |-> t[3], out |-> OK]
          BY <3>1, <3>2, <4>0, <4>3, NamesAreDifferent DEF ReplyOf
        <5>2. Dict!Set(t[2], t[3])
          BY <4>3, <5>1 DEF Dict!Set, Dict!Reply
        <5>3. Dict!Next
          BY <4>3, <5>2 DEF Dict!Next
        <5>4. ReplyOf'.op # "none"
          BY <5>1
        <5> QED
          BY <5>3, <5>4
      <4>4. CASE /\ t[1] = DelName /\ t[2] \in Words
                 /\ store' = [store EXCEPT ![t[2]] = NoValue]
                 /\ result'.output = IF store[t[2]] = NoValue THEN NoValue ELSE OK
        <5>1. ReplyOf' = [op |-> "del", key |-> t[2], value |-> NoValue,
                          out |-> IF store[t[2]] = NoValue THEN NoValue ELSE OK]
          BY <3>1, <3>2, <4>0, <4>4, NamesAreDifferent DEF ReplyOf
        <5>2. Dict!Del(t[2])
          BY <4>4, <5>1 DEF Dict!Del, Dict!Reply
        <5>3. Dict!Next
          BY <4>4, <5>2 DEF Dict!Next
        <5>4. ReplyOf'.op # "none"
          BY <5>1
        <5> QED
          BY <5>3, <5>4
      <4>5. CASE t[1] = FlushName /\ store' = [w \in Words |-> NoValue] /\ result'.output = OK
        <5>1. ReplyOf' = [op |-> "flush", key |-> <<>>, value |-> NoValue, out |-> OK]
          BY <3>1, <3>2, <4>0, <4>5, NamesAreDifferent DEF ReplyOf
        <5>2. Dict!Flush
          BY <4>5, <5>1 DEF Dict!Flush, Dict!Reply
        <5>3. Dict!Next
          BY <5>2 DEF Dict!Next
        <5>4. ReplyOf'.op # "none"
          BY <5>1
        <5> QED
          BY <5>3, <5>4
      <4> QED
        BY <3>2, <3>4, <4>1, <4>2, <4>3, <4>4, <4>5 DEF Effect
    <3> QED
      BY <3>3, <3>4
  <2>2. CASE UNCHANGED <<store, line, result>>
    BY <2>2
  <2> QED
    BY <2>1, <2>2 DEF Next, EndOfInput, vars
<1>2. Spec => [][Step]_vars
  BY <1>1, Invariance, PTL DEF Spec
<1> QED
  BY <1>2 DEF SessionIsDict

-----------------------------------------------------------------------------
(* The command lines.                                                      *)

\* Where options stand, as Positions says it; f is its recursive function.
LeadsTo(args, f, p) ==
  \/ p = 1
  \/ p > 1 /\ f[p - 1] /\ args[p - 1] \in Alone
  \/ p > 2 /\ f[p - 2] /\ args[p - 2] \notin Alone

OptionsAt(args, f) == f = [p \in 1 .. Len(args) |-> LeadsTo(args, f, p)]

\* Does an option stand at p, if those before p stand at the positions in P?
StandsAt(args, P, p) ==
  \/ p = 1
  \/ p > 1 /\ p - 1 \in P /\ args[p - 1] \in Alone
  \/ p > 2 /\ p - 2 \in P /\ args[p - 2] \notin Alone

\* The sets that an option leads to no position outside of.
Closed(args, P) ==
  P \subseteq 1 .. Len(args) /\ \A p \in 1 .. Len(args) : StandsAt(args, P, p) => p \in P

\* The smallest of them.
Least(args) ==
  {p \in 1 .. Len(args) : \A P \in SUBSET (1 .. Len(args)) : Closed(args, P) => p \in P}

\* Positions has the function for which the recursion holds.
LEMMA PositionsDef ==
  ASSUME NEW args
  PROVE  Positions(args) = {p \in 1 .. Len(args) : (CHOOSE f : OptionsAt(args, f))[p]}
BY Zenon DEF Positions, OptionsAt, LeadsTo

\* What leads to a position in a smaller set does so in a larger one.
LEMMA StandsMore ==
  ASSUME NEW args, NEW P, NEW Q, P \subseteq Q, NEW p, StandsAt(args, P, p)
  PROVE  StandsAt(args, Q, p)
BY Zenon DEF StandsAt

\* The smallest set has nothing but what is led to, so there is such a function.
LEMMA OptionsExist ==
  ASSUME NEW args \in Seq(STRING)
  PROVE  \E f : OptionsAt(args, f)
<1> DEFINE D == 1 .. Len(args)
<1>1. Len(args) \in Nat
  BY LenProperties
<1>2. Least(args) \subseteq D
  BY DEF Least
<1>3. ASSUME NEW P \in SUBSET D, Closed(args, P)
      PROVE  Least(args) \subseteq P
  BY <1>3 DEF Least
<1>4. ASSUME NEW p \in D, StandsAt(args, Least(args), p)
      PROVE  p \in Least(args)
  <2>1. ASSUME NEW P \in SUBSET D, Closed(args, P)
        PROVE  p \in P
    <3>1. Least(args) \subseteq P
      BY <1>3, <2>1
    <3>2. StandsAt(args, P, p)
      BY <1>4, <3>1, StandsMore
    <3> QED
      BY <2>1, <3>2 DEF Closed
  <2> QED
    BY <2>1 DEF Least
<1>5. ASSUME NEW p \in Least(args)
      PROVE  StandsAt(args, Least(args), p)
  <2> DEFINE Q == Least(args) \ {p}
  <2>1. SUFFICES ASSUME ~StandsAt(args, Least(args), p)
                 PROVE  FALSE
    OBVIOUS
  <2>2. Q \subseteq Least(args) /\ Q \subseteq D
    BY <1>2
  <2>3. ASSUME NEW q \in D, StandsAt(args, Q, q)
        PROVE  q \in Q
    <3>1. StandsAt(args, Least(args), q)
      <4> HIDE DEF Q
      <4> QED
        BY <2>2, <2>3, StandsMore
    <3>2. q \in Least(args) /\ q # p
      BY <1>4, <2>1, <3>1
    <3> QED
      BY <3>2
  <2>4. Closed(args, Q)
    <3> HIDE DEF Q
    <3> QED
      BY <2>2, <2>3 DEF Closed
  <2>5. Least(args) \subseteq Q
    <3> HIDE DEF Q
    <3> QED
      BY <1>3, <2>2, <2>4
  <2> QED
    BY <2>5
<1>6. PICK f : f = [p \in D |-> p \in Least(args)]
  OBVIOUS
<1>7. ASSUME NEW p \in D
      PROVE  f[p] <=> LeadsTo(args, f, p)
  <2>1. f[p] <=> p \in Least(args)
    BY <1>6
  <2>2. p \in Least(args) <=> StandsAt(args, Least(args), p)
    BY <1>4, <1>5
  <2>3. p > 1 => p - 1 \in D
    BY <1>1
  <2>4. p > 2 => p - 2 \in D
    BY <1>1
  <2>5. p > 1 => (f[p - 1] <=> p - 1 \in Least(args))
    BY <1>6, <2>3
  <2>6. p > 2 => (f[p - 2] <=> p - 2 \in Least(args))
    BY <1>6, <2>4
  <2>7. StandsAt(args, Least(args), p) <=> LeadsTo(args, f, p)
    BY Zenon, <2>5, <2>6 DEF StandsAt, LeadsTo
  <2> QED
    BY Zenon, <2>1, <2>2, <2>7
<1>8. ASSUME NEW p \in D
      PROVE  f[p] = LeadsTo(args, f, p)
  <2>1. f[p] \in BOOLEAN
    BY <1>6
  <2>2. LeadsTo(args, f, p) \in BOOLEAN
    BY Zenon DEF LeadsTo
  <2>3. f[p] <=> LeadsTo(args, f, p)
    BY <1>7
  <2> QED
    BY <2>1, <2>2, <2>3
<1>9. f = [p \in D |-> f[p]]
  BY <1>6
<1>10. f = [p \in D |-> LeadsTo(args, f, p)]
  BY Zenon, <1>8, <1>9
<1> QED
  BY Zenon, <1>10 DEF OptionsAt

\* An option stands at the front, behind one that stands alone, and behind the
\* value of one that does not.
LEMMA PositionsAre ==
  ASSUME NEW args \in Seq(STRING)
  PROVE  /\ Positions(args) \subseteq 1 .. Len(args)
         /\ \A p \in 1 .. Len(args) : p \in Positions(args) <=> StandsAt(args, Positions(args), p)
<1>1. Len(args) \in Nat
  BY LenProperties
<1>2. PICK f : f = CHOOSE g : OptionsAt(args, g)
  OBVIOUS
<1>3. OptionsAt(args, f)
  BY <1>2, OptionsExist
<1>4. Positions(args) = {p \in 1 .. Len(args) : f[p]}
  BY Zenon, <1>2, PositionsDef
<1>5. Positions(args) \subseteq 1 .. Len(args)
  BY <1>4
<1>6. ASSUME NEW p \in 1 .. Len(args)
      PROVE  p \in Positions(args) <=> StandsAt(args, Positions(args), p)
  <2>1. f[p] = LeadsTo(args, f, p)
    BY Zenon, <1>3 DEF OptionsAt
  <2>2. p > 1 => p - 1 \in 1 .. Len(args)
    BY <1>1
  <2>3. p > 2 => p - 2 \in 1 .. Len(args)
    BY <1>1
  <2>4. p > 1 => (p - 1 \in Positions(args) <=> f[p - 1])
    BY Zenon, <1>4, <2>2
  <2>5. p > 2 => (p - 2 \in Positions(args) <=> f[p - 2])
    BY Zenon, <1>4, <2>3
  <2>6. p \in Positions(args) <=> f[p]
    BY Zenon, <1>4
  <2> QED
    BY Zenon, <2>1, <2>4, <2>5, <2>6 DEF StandsAt, LeadsTo
<1> QED
  BY <1>5, <1>6
-----------------------------------------------------------------------------
(* What holds while a command line is read.                                *)

\* What has been read is what it was when the program began.
Parsing ==
  /\ program \in {"server", "client", "benchmark"}
  /\ argv \in Seq(STRING)
  /\ index \in Nat \ {0}
  /\ DOMAIN options = DOMAIN Defaults(program)

\* The loop stands at an option and not inside of one, or behind all of them.
AtOption ==
  outcome = "reading" =>
    /\ index <= Len(argv) => index \in Positions(argv)
    /\ index > 1 => ~(index - 1 \in Positions(argv) /\ argv[index - 1] \notin Alone)

\* Where one option is given before n.
Below(args, o, n) == {p \in Positions(args) : args[p] = o /\ p < n}

\* Each option has the value that it was given last so far.
ToldSoFar ==
  outcome = "reading" =>
    \A o \in DOMAIN options :
      options[o] = IF Below(argv, o, index) # {} THEN ValueAt(argv, o, Max(Below(argv, o, index)))
                   ELSE Defaults(program)[o]

\* The values that a program can work with.
Fits(o, v) ==
  /\ o = "--port" => v \in Ports
  /\ o = "--backend" => v \in {"attokv", "redis"}
  /\ o \in {"--clients", "--keyspace"} => v # 0

\* The options have such values, but for those that the benchmark does not have yet.
Usable ==
  outcome = "reading" =>
    /\ \/ Fits("--port", options["--port"])
       \/ program = "benchmark" /\ options["--port"] = Unset /\ Below(argv, "--port", index) = {}
    /\ program = "benchmark" =>
         /\ Fits("--backend", options["--backend"]) \/ options["--backend"] = Unset
         /\ Fits("--clients", options["--clients"])
         /\ Fits("--keyspace", options["--keyspace"])

ParseInv == Parsing /\ AtOption /\ ToldSoFar /\ Usable /\ StartsAsTold
\* Behind an option that takes a value stands the value, and then an option again.
LEMMA BehindValue ==
  ASSUME NEW args \in Seq(STRING), NEW i \in Positions(args), args[i] \notin Alone,
         i > 1 => ~(i - 1 \in Positions(args) /\ args[i - 1] \notin Alone)
  PROVE  /\ i + 1 \notin Positions(args)
         /\ i + 2 <= Len(args) => i + 2 \in Positions(args)
<1> DEFINE P == Positions(args)
<1>1. Len(args) \in Nat /\ i \in 1 .. Len(args)
  BY LenProperties, PositionsAre
<1>2. i \in Nat /\ i >= 1 /\ i + 1 # 1 /\ (i + 1) - 1 = i /\ (i + 1) - 2 = i - 1 /\ (i + 2) - 2 = i
  BY <1>1
<1>3. ~StandsAt(args, P, i + 1)
  <2>1. i + 1 > 2 => i > 1
    BY <1>2
  <2> HIDE DEF P
  <2>2. SUFFICES ASSUME StandsAt(args, P, i + 1)
                 PROVE  FALSE
    OBVIOUS
  <2>3. (i \in P /\ args[i] \in Alone) \/ (i + 1 > 2 /\ i - 1 \in P /\ args[i - 1] \notin Alone)
    BY Zenon, <1>2, <2>2 DEF StandsAt
  <2> QED
    BY Zenon, <2>1, <2>3 DEF P
<1>4. i + 1 \notin P
  BY <1>3, PositionsAre
<1>5. ASSUME i + 2 <= Len(args)
      PROVE  i + 2 \in P
  <2>1. i + 2 > 2 /\ i + 2 \in 1 .. Len(args)
    BY <1>1, <1>5
  <2>2. StandsAt(args, P, i + 2)
    BY Zenon, <1>2, <2>1 DEF StandsAt
  <2> QED
    BY <2>1, <2>2, PositionsAre
<1> QED
  BY <1>4, <1>5

\* Behind an option that stands alone stands another one.
LEMMA BehindAlone ==
  ASSUME NEW args \in Seq(STRING), NEW i \in Positions(args), args[i] \in Alone, i + 1 <= Len(args)
  PROVE  i + 1 \in Positions(args)
<1>1. Len(args) \in Nat /\ i \in 1 .. Len(args)
  BY LenProperties, PositionsAre
<1>2. i + 1 > 1 /\ i + 1 \in 1 .. Len(args) /\ (i + 1) - 1 = i
  BY <1>1
<1>3. StandsAt(args, Positions(args), i + 1)
  BY Zenon, <1>2 DEF StandsAt
<1> QED
  BY <1>2, <1>3, PositionsAre

\* A position behind all others is the greatest.
LEMMA GreatestIsMax ==
  ASSUME NEW T, NEW n \in Nat, T \subseteq Nat, \A m \in T : m < n
  PROVE  Max(T \cup {n}) = n
<1> DEFINE U == T \cup {n}
<1>1. n \in U /\ \A m \in U : n >= m
  OBVIOUS
<1>2. \A x \in U : (\A m \in U : x >= m) => x = n
  <2>1. ASSUME NEW x \in U, x >= n
        PROVE  x = n
    BY <2>1
  <2> QED
    BY <1>1, <2>1
<1>3. (CHOOSE x \in U : \A m \in U : x >= m) = n
  <2> HIDE DEF U
  <2> QED
    BY <1>1, <1>2
<1> QED
  BY <1>3 DEF Max

\* Where an option is given before the next position that the loop comes to.
LEMMA BelowNext ==
  ASSUME NEW args \in Seq(STRING), NEW i \in Positions(args), NEW n \in Nat, i < n,
         \A m \in i + 1 .. n - 1 : m \notin Positions(args), NEW o
  PROVE  /\ o = args[i] => Below(args, o, n) = Below(args, o, i) \cup {i}
         /\ o # args[i] => Below(args, o, n) = Below(args, o, i)
         /\ Below(args, o, i) \subseteq Nat
         /\ \A p \in Below(args, o, i) : p < i
<1>1. Len(args) \in Nat /\ Positions(args) \subseteq 1 .. Len(args)
  BY LenProperties, PositionsAre
<1>2. Positions(args) \subseteq Nat /\ i \in Nat
  BY <1>1
<1>3. ASSUME NEW p \in Positions(args)
      PROVE  p < n <=> p < i \/ p = i
  <2>1. p \in Nat
    BY <1>2
  <2>2. p \notin i + 1 .. n - 1
    BY <1>3
  <2> QED
    BY <1>2, <2>1, <2>2
<1> QED
  BY <1>2, <1>3 DEF Below
\* What is kept by a step that moves on to position n and writes v.
MovesTo(n, v) ==
  /\ options' = [options EXCEPT ![argv[index]] = v]
  /\ index' = n
  /\ UNCHANGED <<program, argv, outcome>>

\* The option read has the value that it was given; the others keep theirs.
LEMMA StepTold ==
  ASSUME Parsing, ToldSoFar, outcome = "reading", index \in Positions(argv),
         NEW n \in Nat, index < n, \A m \in index + 1 .. n - 1 : m \notin Positions(argv),
         NEW v, v = ValueAt(argv, argv[index], index), MovesTo(n, v)
  PROVE  ToldSoFar'
<1>1. argv \in Seq(STRING) /\ argv' = argv /\ program' = program /\ index' = n /\ index \in Nat
  BY DEF Parsing, MovesTo
<1>2. DOMAIN options' = DOMAIN options
  BY DEF MovesTo
<1>3. ASSUME NEW o \in DOMAIN options
      PROVE  options'[o] = IF Below(argv, o, n) # {} THEN ValueAt(argv, o, Max(Below(argv, o, n)))
                           ELSE Defaults(program)[o]
  <2>1. PICK B : B = Below(argv, o, index)
    OBVIOUS
  <2>2. PICK C : C = Below(argv, o, n)
    OBVIOUS
  <2>3. /\ o = argv[index] => C = B \cup {index}
        /\ o # argv[index] => C = B
        /\ B \subseteq Nat /\ \A p \in B : p < index
    BY <1>1, <2>1, <2>2, BelowNext
  <2>4. CASE o = argv[index]
    <3>1. options'[o] = ValueAt(argv, o, index)
      BY <2>4 DEF MovesTo
    <3>2. C # {} /\ Max(C) = index
      BY <1>1, <2>3, <2>4, GreatestIsMax
    <3> QED
      BY <2>2, <3>1, <3>2
  <2>5. CASE o # argv[index]
    <3>1. options'[o] = options[o]
      BY <2>5 DEF MovesTo
    <3>2. options[o] = IF B # {} THEN ValueAt(argv, o, Max(B)) ELSE Defaults(program)[o]
      BY <2>1 DEF ToldSoFar
    <3>3. Below(argv, o, n) = B
      BY <2>2, <2>3, <2>5
    <3> QED
      BY <3>1, <3>2, <3>3
  <2> QED
    BY <2>4, <2>5
<1> QED
  BY <1>1, <1>2, <1>3 DEF ToldSoFar
\* The options that each program has.
LEMMA HasOptions ==
  ASSUME Parsing
  PROVE  /\ "--port" \in DOMAIN options
         /\ program = "benchmark" => {"--backend", "--clients", "--keyspace"} \subseteq DOMAIN options
<1>1. CASE program = "server"
  BY <1>1 DEF Parsing, Defaults, ServerDefaults
<1>2. CASE program = "client"
  BY <1>2 DEF Parsing, Defaults, ClientDefaults
<1>3. CASE program = "benchmark"
  BY <1>3 DEF Parsing, Defaults, BenchmarkDefaults
<1> QED
  BY <1>1, <1>2, <1>3 DEF Parsing

\* A value that fits leaves all options usable.
LEMMA StepUsable ==
  ASSUME Parsing, Usable, outcome = "reading", index \in Positions(argv),
         NEW n \in Nat, index < n, \A m \in index + 1 .. n - 1 : m \notin Positions(argv),
         NEW v, Fits(argv[index], v), MovesTo(n, v)
  PROVE  Usable'
<1>1. argv \in Seq(STRING) /\ argv' = argv /\ program' = program /\ index' = n /\ index \in Nat
  BY DEF Parsing, MovesTo
<1>2. \A o \in DOMAIN options : options'[o] = IF o = argv[index] THEN v ELSE options[o]
  BY DEF MovesTo
<1>3. ASSUME NEW o \in DOMAIN options, Fits(o, options[o])
      PROVE  Fits(o, options'[o])
  <2>1. CASE o = argv[index]
    <3>1. options'[o] = v
      BY <1>2, <2>1
    <3> QED
      BY Zenon, <2>1, <3>1
  <2>2. CASE o # argv[index]
    <3>1. options'[o] = options[o]
      BY <1>2, <2>2
    <3> QED
      BY Zenon, <1>3, <3>1
  <2> QED
    BY <2>1, <2>2
<1>4. ASSUME NEW o \in DOMAIN options, options[o] = Unset
      PROVE  Fits(o, options'[o]) \/ (options'[o] = Unset /\ o # argv[index])
  <2>1. CASE o = argv[index]
    <3>1. options'[o] = v
      BY <1>2, <2>1
    <3> QED
      BY Zenon, <2>1, <3>1
  <2>2. CASE o # argv[index]
    <3>1. options'[o] = options[o]
      BY <1>2, <2>2
    <3> QED
      BY Zenon, <1>4, <2>2, <3>1
  <2> QED
    BY <2>1, <2>2
<1>5. \/ Fits("--port", options'["--port"])
      \/ program = "benchmark" /\ options'["--port"] = Unset /\ Below(argv, "--port", n) = {}
  <2>1. "--port" \in DOMAIN options
    BY HasOptions
  <2>2. CASE Fits("--port", options["--port"])
    BY Zenon, <1>3, <2>1, <2>2
  <2>3. CASE program = "benchmark" /\ options["--port"] = Unset /\ Below(argv, "--port", index) = {}
    <3>1. Fits("--port", options'["--port"]) \/ (options'["--port"] = Unset /\ "--port" # argv[index])
      BY Zenon, <1>4, <2>1, <2>3
    <3>2. ASSUME "--port" # argv[index]
          PROVE  Below(argv, "--port", n) = Below(argv, "--port", index)
      BY <1>1, <3>2, BelowNext
    <3> QED
      BY Zenon, <2>3, <3>1, <3>2
  <2> QED
    BY Zenon, <2>2, <2>3 DEF Usable
<1>6. ASSUME program = "benchmark"
      PROVE  /\ Fits("--backend", options'["--backend"]) \/ options'["--backend"] = Unset
             /\ Fits("--clients", options'["--clients"])
             /\ Fits("--keyspace", options'["--keyspace"])
  <2>1. /\ "--backend" \in DOMAIN options
        /\ "--clients" \in DOMAIN options
        /\ "--keyspace" \in DOMAIN options
    BY <1>6, HasOptions
  <2>2. /\ Fits("--backend", options["--backend"]) \/ options["--backend"] = Unset
        /\ Fits("--clients", options["--clients"])
        /\ Fits("--keyspace", options["--keyspace"])
    BY Zenon, <1>6 DEF Usable
  <2> QED
    BY Zenon, <1>3, <1>4, <2>1, <2>2
<1>7. index' = n /\ argv' = argv /\ program' = program
  BY <1>1
<1> QED
  BY Zenon, <1>5, <1>6, <1>7 DEF Usable

\* An option that takes a value of its kind leads to the next option.
LEMMA TakeNextKeeps ==
  ASSUME ParseInv, outcome = "reading", index <= Len(argv), HasNext, argv[index] \notin Alone,
         NEW v, v = ValueAt(argv, argv[index], index), Fits(argv[index], v), TakeNext(v)
  PROVE  ParseInv'
<1>1. /\ argv \in Seq(STRING) /\ index \in Nat \ {0} /\ index \in Positions(argv)
      /\ index > 1 => ~(index - 1 \in Positions(argv) /\ argv[index - 1] \notin Alone)
  BY DEF ParseInv, Parsing, AtOption
<1>2. PICK n : n = index + 2
  OBVIOUS
<1>3. n \in Nat /\ index < n /\ n > 1 /\ n - 1 = index + 1
  BY <1>1, <1>2
<1>4. MovesTo(n, v)
  BY <1>2 DEF TakeNext, MovesTo
<1>5. index + 1 \notin Positions(argv) /\ (index + 2 <= Len(argv) => index + 2 \in Positions(argv))
  BY <1>1, BehindValue
<1>6. \A m \in index + 1 .. n - 1 : m \notin Positions(argv)
  <2>1. \A m \in index + 1 .. n - 1 : m = index + 1
    BY <1>1, <1>3
  <2> QED
    BY <1>5, <2>1
<1>7. Parsing'
  BY <1>3, <1>4 DEF ParseInv, Parsing, MovesTo
<1>8. AtOption'
  BY <1>2, <1>3, <1>4, <1>5 DEF AtOption, MovesTo
<1>9. ToldSoFar'
  BY <1>1, <1>3, <1>4, <1>6, StepTold DEF ParseInv
<1>10. Usable'
  BY <1>1, <1>3, <1>4, <1>6, StepUsable DEF ParseInv
<1>11. StartsAsTold'
  <2>1. outcome' # "run"
    BY <1>4 DEF MovesTo
  <2> QED
    BY Zenon, <2>1 DEF StartsAsTold
<1> QED
  BY <1>7, <1>8, <1>9, <1>10, <1>11 DEF ParseInv

\* So does --repl, which stands alone.
LEMMA ReplOptionKeeps ==
  ASSUME ParseInv, outcome = "reading", index <= Len(argv), argv[index] = "--repl",
         MovesTo(index + 1, TRUE)
  PROVE  ParseInv'
<1>1. argv \in Seq(STRING) /\ index \in Nat \ {0} /\ index \in Positions(argv)
  BY DEF ParseInv, Parsing, AtOption
<1>2. PICK n : n = index + 1
  OBVIOUS
<1>3. n \in Nat /\ index < n /\ n > 1 /\ n - 1 = index
  BY <1>1, <1>2
<1>4. MovesTo(n, TRUE)
  BY <1>2
<1>5. argv[index] \in Alone
  BY DEF Alone
<1>6. n <= Len(argv) => n \in Positions(argv)
  BY <1>1, <1>2, <1>5, BehindAlone
<1>7. \A m \in index + 1 .. n - 1 : m \notin Positions(argv)
  BY <1>1, <1>2
<1>8. ValueAt(argv, argv[index], index) = TRUE /\ Fits(argv[index], TRUE)
  BY DEF ValueAt, Fits
<1>9. Parsing'
  BY <1>3, <1>4 DEF ParseInv, Parsing, MovesTo
<1>10. AtOption'
  BY <1>3, <1>4, <1>5, <1>6 DEF AtOption, MovesTo
<1>11. ToldSoFar'
  <2>1. PICK v : v = TRUE
    OBVIOUS
  <2> QED
    BY <1>1, <1>3, <1>4, <1>7, <1>8, <2>1, StepTold DEF ParseInv
<1>12. Usable'
  <2>1. PICK v : v = TRUE
    OBVIOUS
  <2> QED
    <3>1. Fits(argv[index], v) /\ MovesTo(n, v)
      BY <1>4, <1>8, <2>1
    <3>2. Parsing /\ Usable
      BY DEF ParseInv
    <3> QED
      BY <1>1, <1>3, <1>7, <3>1, <3>2, StepUsable
<1>13. StartsAsTold'
  <2>1. outcome' # "run"
    BY <1>4 DEF MovesTo
  <2> QED
    BY Zenon, <2>1 DEF StartsAsTold
<1> QED
  BY <1>9, <1>10, <1>11, <1>12, <1>13 DEF ParseInv

\* A usage that is printed or an argument that is refused ends the loop.
LEMMA FinishKeeps ==
  ASSUME ParseInv, NEW end \in {"help", "refused"}, Finish(end)
  PROVE  ParseInv'
<1>1. /\ outcome' \in {"help", "refused"} /\ program' = program /\ argv' = argv
      /\ index' = index /\ options' = options
  BY DEF Finish
<1>2. outcome' # "reading" /\ outcome' # "run"
  BY <1>1
<1>3. Parsing'
  BY <1>1 DEF ParseInv, Parsing
<1>4. AtOption' /\ ToldSoFar' /\ Usable' /\ StartsAsTold'
  BY Zenon, <1>2 DEF AtOption, ToldSoFar, Usable, StartsAsTold
<1> QED
  BY <1>3, <1>4 DEF ParseInv
\* Before the first argument all is as it is by default.
LEMMA InitParses == ParseInit => ParseInv
<1> SUFFICES ASSUME ParseInit
             PROVE  ParseInv
  OBVIOUS
<1>1. /\ program \in {"server", "client", "benchmark"} /\ argv \in Seq(STRING) /\ index = 1
      /\ options = Defaults(program) /\ outcome = "reading"
  <2>1. program \in DOMAIN CommandLines /\ argv \in CommandLines[program]
    BY Zenon DEF ParseInit
  <2>2. index = 1 /\ options = Defaults(program) /\ outcome = "reading"
    BY Zenon DEF ParseInit
  <2> QED
    BY <2>1, <2>2, CommandLinesAssumption
<1>2. Len(argv) \in Nat /\ Positions(argv) \subseteq 1 .. Len(argv)
  BY <1>1, LenProperties, PositionsAre
<1>3. Parsing
  BY <1>1 DEF Parsing
<1>4. AtOption
  <2>1. StandsAt(argv, Positions(argv), 1)
    BY DEF StandsAt
  <2>2. ASSUME 1 <= Len(argv)
        PROVE  1 \in Positions(argv)
    BY <1>1, <1>2, <2>1, <2>2, PositionsAre
  <2> QED
    BY <1>1, <2>2 DEF AtOption
<1>5. \A o : Below(argv, o, index) = {}
  BY <1>1, <1>2 DEF Below
<1>6. ToldSoFar
  BY <1>1, <1>5 DEF ToldSoFar
<1>7. Usable
  <2>1. CASE program = "server"
    <3>1. options["--port"] = 6337
      BY <1>1, <2>1 DEF Defaults, ServerDefaults
    <3>2. Fits("--port", options["--port"])
      BY <3>1 DEF Fits, Ports
    <3> QED
      BY Zenon, <2>1, <3>2 DEF Usable
  <2>2. CASE program = "client"
    <3>1. options["--port"] = 6337
      BY <1>1, <2>2 DEF Defaults, ClientDefaults
    <3>2. Fits("--port", options["--port"])
      BY <3>1 DEF Fits, Ports
    <3> QED
      BY Zenon, <2>2, <3>2 DEF Usable
  <2>3. CASE program = "benchmark"
    <3>1. options["--port"] = Unset /\ options["--backend"] = Unset
      BY <1>1, <2>3 DEF Defaults, BenchmarkDefaults
    <3>2. options["--clients"] = 1
      BY <1>1, <2>3 DEF Defaults, BenchmarkDefaults
    <3>3. options["--keyspace"] = 10000
      BY <1>1, <2>3 DEF Defaults, BenchmarkDefaults
    <3>4. Fits("--clients", options["--clients"])
      BY <3>2 DEF Fits
    <3>5. Fits("--keyspace", options["--keyspace"])
      BY <3>3 DEF Fits
    <3> QED
      BY Zenon, <1>5, <2>3, <3>1, <3>4, <3>5 DEF Usable
  <2> QED
    BY <1>1, <2>1, <2>2, <2>3
<1>8. StartsAsTold
  BY Zenon, <1>1 DEF StartsAsTold
<1> QED
  BY Zenon, <1>3, <1>4, <1>6, <1>7, <1>8 DEF ParseInv

\* --host takes any argument.
LEMMA HostKeeps ==
  ASSUME ParseInv, outcome = "reading", index <= Len(argv), HostIsNext, TakeNext(argv[index + 1])
  PROVE  ParseInv'
<1>1. argv[index] = "--host" /\ HasNext
  BY DEF HostIsNext
<1>2. PICK v : v = argv[index + 1]
  OBVIOUS
<1>3. v = ValueAt(argv, argv[index], index)
  BY <1>1, <1>2 DEF ValueAt
<1>4. Fits(argv[index], v)
  BY <1>1 DEF Fits
<1>5. argv[index] \notin Alone
  BY <1>1 DEF Alone
<1>6. TakeNext(v)
  BY <1>2
<1> QED
  BY <1>1, <1>3, <1>4, <1>5, <1>6, TakeNextKeeps

\* What a value must be to fit.
LEMMA FitsIf ==
  ASSUME NEW o, NEW v,
         \/ o = "--port" /\ v \in Ports
         \/ o = "--backend" /\ v \in {"attokv", "redis"}
         \/ o \in {"--clients", "--keyspace"} /\ v # 0
         \/ o \notin {"--port", "--backend", "--clients", "--keyspace"}
  PROVE  Fits(o, v)
<1>1. o = "--port" => o \notin {"--backend", "--clients", "--keyspace"}
  OBVIOUS
<1>2. o = "--backend" => o \notin {"--port", "--clients", "--keyspace"}
  OBVIOUS
<1>3. o \in {"--clients", "--keyspace"} => o \notin {"--port", "--backend"}
  OBVIOUS
<1> QED
  BY Zenon, <1>1, <1>2, <1>3 DEF Fits

\* --port takes a number that is one.
LEMMA PortKeeps ==
  ASSUME ParseInv, outcome = "reading", index <= Len(argv), PortIsNext,
         TakeNext(Number[argv[index + 1]])
  PROVE  ParseInv'
<1>1. argv[index] = "--port" /\ HasNext /\ IsPort(argv[index + 1])
  BY DEF PortIsNext
<1>2. PICK v : v = Number[argv[index + 1]]
  OBVIOUS
<1>3. v = ValueAt(argv, argv[index], index)
  BY <1>1, <1>2 DEF ValueAt
<1>4. Fits(argv[index], v)
  <2>1. v \in Ports
    BY Zenon, <1>1, <1>2 DEF IsPort
  <2> QED
    BY Zenon, <1>1, <2>1, FitsIf
<1>5. argv[index] \notin Alone
  BY <1>1 DEF Alone
<1>6. TakeNext(v)
  BY <1>2
<1> QED
  BY <1>1, <1>3, <1>4, <1>5, <1>6, TakeNextKeeps

\* A valid argument of a benchmark option fits it, and is what was told.
LEMMA ValidFits ==
  ASSUME Parsing, IsValid(argv[index], argv[index + 1]),
         NEW v, v = ValueOf(argv[index], argv[index + 1])
  PROVE  /\ argv[index] \notin Alone
         /\ v = ValueAt(argv, argv[index], index)
         /\ Fits(argv[index], v)
<1>1. PICK o, s : o = argv[index] /\ s = argv[index + 1]
  OBVIOUS
<1>2. IsValid(o, s)
  BY <1>1
<1>3. o \notin Alone
  BY <1>2 DEF IsValid, Alone
<1>4. v = IF o \in {"--backend", "--workload", "--host"} THEN s ELSE Number[s]
  BY <1>1 DEF ValueOf
<1>5. v = ValueAt(argv, o, index)
  <2>1. o # "--repl"
    BY <1>3 DEF Alone
  <2>2. CASE o \in {"--host", "--backend", "--workload"}
    <3>1. v = s
      BY <1>4, <2>2
    <3>2. ValueAt(argv, o, index) = argv[index + 1]
      BY <2>1, <2>2 DEF ValueAt
    <3> QED
      BY <1>1, <3>1, <3>2
  <2>3. CASE o \notin {"--host", "--backend", "--workload"}
    <3>1. v = Number[s]
      BY <1>4, <2>3
    <3>2. ValueAt(argv, o, index) = Number[argv[index + 1]]
      BY <2>1, <2>3 DEF ValueAt
    <3> QED
      BY <1>1, <3>1, <3>2
  <2> QED
    BY <2>2, <2>3
<1>6. Fits(o, v)
  <2>1. CASE o = "--backend"
    <3>1. s \in {"attokv", "redis"}
      BY <1>2, <2>1 DEF IsValid
    <3>2. v = s
      BY <1>4, <2>1
    <3>3. v \in {"attokv", "redis"}
      BY Zenon, <3>1, <3>2
    <3> QED
      BY Zenon, <2>1, <3>3, FitsIf
  <2>2. CASE o = "--port"
    <3>1. IsPort(s)
      BY <1>2, <2>2 DEF IsValid
    <3>2. v = Number[s]
      BY <1>4, <2>2
    <3>3. v \in Ports
      BY Zenon, <3>1, <3>2 DEF IsPort
    <3> QED
      BY Zenon, <2>2, <3>3, FitsIf
  <2>3. CASE o \in {"--clients", "--keyspace"}
    <3>1. IsNumber(s, 1)
      BY <1>2, <2>3 DEF IsValid
    <3>2. Number[s] \in Int /\ Number[s] >= 1
      BY <3>1, NumberAssumption DEF IsNumber
    <3>3. v = Number[s]
      BY <1>4, <2>3
    <3>4. v # 0
      BY <3>2, <3>3
    <3> QED
      BY <2>3, <3>4, FitsIf
  <2>4. CASE o \notin {"--port", "--backend", "--clients", "--keyspace"}
    BY Zenon, <2>4, FitsIf
  <2> QED
    BY <2>1, <2>2, <2>3, <2>4
<1> QED
  BY <1>1, <1>3, <1>5, <1>6

\* The loop of the server.
LEMMA ServerParses ==
  ASSUME ParseInv, ParseServer
  PROVE  ParseInv'
<1>1. outcome = "reading" /\ index <= Len(argv)
  BY DEF ParseServer, Reading
<1>2. CASE Finish("help") \/ Finish("refused")
  BY <1>2, FinishKeeps
<1>3. CASE /\ argv[index] = "--repl"
           /\ options' = [options EXCEPT !["--repl"] = TRUE]
           /\ index' = index + 1
           /\ UNCHANGED <<program, argv, outcome>>
  <2>1. MovesTo(index + 1, TRUE)
    BY <1>3 DEF MovesTo
  <2> QED
    BY <1>1, <1>3, <2>1, ReplOptionKeeps
<1>4. CASE HostIsNext /\ TakeNext(argv[index + 1])
  BY <1>1, <1>4, HostKeeps
<1>5. CASE PortIsNext /\ TakeNext(Number[argv[index + 1]])
  BY <1>1, <1>5, PortKeeps
<1> QED
  BY Zenon, <1>2, <1>3, <1>4, <1>5 DEF ParseServer

\* The loop of the client.
LEMMA ClientParses ==
  ASSUME ParseInv, ParseClient
  PROVE  ParseInv'
<1>1. outcome = "reading" /\ index <= Len(argv)
  BY DEF ParseClient, Reading
<1>2. CASE Finish("help") \/ Finish("refused")
  BY <1>2, FinishKeeps
<1>3. CASE HostIsNext /\ TakeNext(argv[index + 1])
  BY <1>1, <1>3, HostKeeps
<1>4. CASE PortIsNext /\ TakeNext(Number[argv[index + 1]])
  BY <1>1, <1>4, PortKeeps
<1> QED
  BY Zenon, <1>2, <1>3, <1>4 DEF ParseClient

\* The loop of the benchmark.
LEMMA BenchmarkParses ==
  ASSUME ParseInv, ParseBenchmark
  PROVE  ParseInv'
<1>1. outcome = "reading" /\ index <= Len(argv)
  BY DEF ParseBenchmark, Reading
<1>2. CASE Finish("help") \/ Finish("refused")
  BY <1>2, FinishKeeps
<1>3. CASE /\ HasNext /\ IsValid(argv[index], argv[index + 1])
           /\ TakeNext(ValueOf(argv[index], argv[index + 1]))
  <2>1. PICK v : v = ValueOf(argv[index], argv[index + 1])
    OBVIOUS
  <2>2. TakeNext(v)
    BY <1>3, <2>1
  <2>3. /\ argv[index] \notin Alone
        /\ v = ValueAt(argv, argv[index], index)
        /\ Fits(argv[index], v)
    BY <1>3, <2>1, ValidFits DEF ParseInv
  <2> QED
    BY <1>1, <1>3, <2>2, <2>3, TakeNextKeeps
<1> QED
  BY Zenon, <1>2, <1>3 DEF ParseBenchmark
\* A count of the benchmark is never zero.
LEMMA CountsFit ==
  ASSUME Usable, outcome = "reading", program = "benchmark"
  PROVE  0 \notin {options["--clients"], options["--keyspace"]}
<1>1. Fits("--clients", options["--clients"]) /\ Fits("--keyspace", options["--keyspace"])
  BY Zenon DEF Usable
<1>2. options["--clients"] # 0 /\ options["--keyspace"] # 0
  BY Zenon, <1>1 DEF Fits
<1> QED
  BY Zenon, <1>2

\* The port is only unset if nobody gave one.
LEMMA UnsetPort ==
  ASSUME Usable, outcome = "reading", options["--port"] = Unset
  PROVE  Below(argv, "--port", index) = {}
<1>1. ~Fits("--port", options["--port"])
  <2>1. Ports \subseteq Int
    BY DEF Ports
  <2>2. Unset \notin Ports
    BY Zenon, <2>1, UnsetAssumption
  <2> QED
    BY Zenon, <2>2 DEF Fits
<1> QED
  BY Zenon, <1>1 DEF Usable

\* Behind the arguments a program that starts does so as told.
LEMMA EndParses ==
  ASSUME ParseInv, EndOfArguments
  PROVE  ParseInv'
<1>1. /\ outcome = "reading" /\ index > Len(argv)
      /\ program' = program /\ argv' = argv /\ index' = index
  BY DEF EndOfArguments
<1>2. outcome' \in {"run", "refused"}
  BY DEF EndOfArguments
<1>3. /\ argv \in Seq(STRING) /\ index \in Nat \ {0} /\ Len(argv) \in Nat
      /\ Positions(argv) \subseteq 1 .. Len(argv)
  BY LenProperties, PositionsAre DEF ParseInv, Parsing
<1>4. Parsing /\ ToldSoFar /\ Usable
  BY DEF ParseInv
<1>5. options' = IF program = "benchmark" /\ options["--port"] = Unset /\ outcome' = "run"
                   THEN [options EXCEPT !["--port"] = DefaultPort(options["--backend"])]
                   ELSE options
  BY Zenon DEF EndOfArguments
<1>6. Parsing'
  BY <1>1, <1>3, <1>4, <1>5 DEF Parsing
<1>7. AtOption' /\ ToldSoFar' /\ Usable'
  <2>1. outcome' # "reading"
    BY <1>2
  <2> QED
    BY Zenon, <2>1 DEF AtOption, ToldSoFar, Usable
<1>8. ASSUME NEW o
      PROVE  Given(o) = Below(argv, o, index)
  <2>1. \A p \in Positions(argv) : p < index
    BY <1>1, <1>3
  <2> QED
    BY <2>1 DEF Given, Below
<1>9. ASSUME NEW o \in DOMAIN options
      PROVE  options[o] = IF Given(o) # {} THEN ValueAt(argv, o, Max(Given(o)))
                          ELSE Defaults(program)[o]
  BY <1>1, <1>4, <1>8 DEF ToldSoFar
<1>10. ASSUME outcome' = "run", program = "benchmark"
       PROVE  options["--backend"] \in {"attokv", "redis"}
  <2>1. options["--backend"] # Unset
    BY <1>10 DEF EndOfArguments
  <2>2. Fits("--backend", options["--backend"])
    BY Zenon, <1>1, <1>4, <1>10, <2>1 DEF Usable
  <2> QED
    BY Zenon, <2>2 DEF Fits
<1>11. ASSUME outcome' = "run", program = "benchmark", options["--port"] = Unset
       PROVE  CanStart' /\ AsTold'
  <2>1. PICK port : port = DefaultPort(options["--backend"])
    OBVIOUS
  <2>2. options' = [options EXCEPT !["--port"] = port]
    BY <1>5, <1>11, <2>1
  <2>3. port = IF options["--backend"] = "redis" THEN 6379 ELSE 6337
    BY <1>10, <1>11, <2>1 DEF DefaultPort
  <2>4. /\ "--port" \in DOMAIN options /\ "--backend" \in DOMAIN options
        /\ "--clients" \in DOMAIN options /\ "--keyspace" \in DOMAIN options
    BY <1>4, <1>11, HasOptions
  <2>5. /\ options'["--port"] = port /\ options'["--backend"] = options["--backend"]
        /\ options'["--clients"] = options["--clients"]
        /\ options'["--keyspace"] = options["--keyspace"]
    BY <2>2, <2>4
  <2>6. port \in Ports
    BY <2>3 DEF Ports
  <2>7. 0 \notin {options["--clients"], options["--keyspace"]}
    BY <1>1, <1>4, <1>11, CountsFit
  <2>8. CanStart'
    BY <2>5, <2>6, <2>7 DEF CanStart
  <2>9. Given("--port") = {}
    <3>1. Below(argv, "--port", index) = {}
      BY <1>1, <1>4, <1>11, UnsetPort
    <3> QED
      BY <1>8, <3>1
  <2>10. ASSUME NEW o \in DOMAIN options
         PROVE  options'[o] = IF Given(o) # {} THEN ValueAt(argv, o, Max(Given(o)))
                              ELSE IF program # "benchmark" \/ o # "--port" THEN Defaults(program)[o]
                              ELSE port
    <3>1. CASE o = "--port"
      BY <1>11, <2>5, <2>9, <3>1
    <3>2. CASE o # "--port"
      <4>1. options'[o] = options[o]
        BY <2>2, <3>2
      <4> QED
        BY <1>9, <3>2, <4>1
    <3> QED
      BY <3>1, <3>2
  <2>11. DOMAIN options' = DOMAIN options
    BY <2>2
  <2>12. port = IF options'["--backend"] = "redis" THEN 6379 ELSE 6337
    BY <2>3, <2>5
  <2>13. AsTold'
    BY <1>1, <2>10, <2>11, <2>12 DEF AsTold, Given, DefaultOf
  <2> QED
    BY <2>8, <2>13
<1>12. ASSUME outcome' = "run", ~(program = "benchmark" /\ options["--port"] = Unset)
       PROVE  CanStart' /\ AsTold'
  <2>1. options' = options
    BY <1>5, <1>12
  <2>2. Fits("--port", options["--port"])
    BY Zenon, <1>1, <1>4, <1>12 DEF Usable
  <2>3. options["--port"] \in Ports
    BY Zenon, <2>2 DEF Fits
  <2>4. program = "benchmark" => 0 \notin {options["--clients"], options["--keyspace"]}
    BY <1>1, <1>4, CountsFit
  <2>5. CanStart'
    BY <1>1, <2>1, <2>3, <2>4 DEF CanStart
  <2>6. ASSUME NEW o \in DOMAIN options, Given(o) = {}
        PROVE  program # "benchmark" \/ o # "--port"
    <3>1. ASSUME program = "benchmark", o = "--port"
          PROVE  FALSE
      <4>1. options["--port"] = Defaults(program)["--port"]
        BY <1>9, <2>6, <3>1
      <4>2. options["--port"] = Unset
        BY <3>1, <4>1 DEF Defaults, BenchmarkDefaults
      <4> QED
        BY <1>12, <3>1, <4>2
    <3> QED
      BY <3>1
  <2>7. ASSUME NEW o \in DOMAIN options
        PROVE  options'[o] = IF Given(o) # {} THEN ValueAt(argv, o, Max(Given(o)))
                             ELSE IF program # "benchmark" \/ o # "--port" THEN Defaults(program)[o]
                             ELSE IF options'["--backend"] = "redis" THEN 6379 ELSE 6337
    BY <1>9, <2>1, <2>6
  <2>8. AsTold'
    BY <1>1, <2>1, <2>7 DEF AsTold, Given, DefaultOf
  <2> QED
    BY <2>5, <2>8
<1>13. StartsAsTold'
  BY Zenon, <1>11, <1>12 DEF StartsAsTold
<1> QED
  BY <1>6, <1>7, <1>13 DEF ParseInv

\* Every step keeps it; nothing follows when the outcome is known.
LEMMA NextParses == ParseInv /\ [ParseNext]_parseVars => ParseInv'
<1> SUFFICES ASSUME ParseInv, [ParseNext]_parseVars
             PROVE  ParseInv'
  OBVIOUS
<1>1. CASE ParseServer
  BY <1>1, ServerParses
<1>2. CASE ParseClient
  BY <1>2, ClientParses
<1>3. CASE ParseBenchmark
  BY <1>3, BenchmarkParses
<1>4. CASE EndOfArguments
  BY <1>4, EndParses
<1>5. CASE UNCHANGED parseVars
  <2>1. /\ program' = program /\ argv' = argv /\ index' = index /\ options' = options
        /\ outcome' = outcome
    BY <1>5 DEF parseVars
  <2>2. Parsing'
    BY <2>1 DEF ParseInv, Parsing
  <2>3. AtOption'
    BY <2>1 DEF ParseInv, AtOption
  <2>4. ToldSoFar'
    BY <2>1 DEF ParseInv, ToldSoFar
  <2>5. Usable'
    BY <2>1 DEF ParseInv, Usable
  <2>6. CanStart /\ AsTold => CanStart' /\ AsTold'
    BY <2>1 DEF CanStart, AsTold, Given, DefaultOf
  <2>7. StartsAsTold'
    BY Zenon, <2>1, <2>6 DEF ParseInv, StartsAsTold
  <2> QED
    BY <2>2, <2>3, <2>4, <2>5, <2>7 DEF ParseInv
<1> QED
  BY Zenon, <1>1, <1>2, <1>3, <1>4, <1>5 DEF ParseNext

\* The invariant of parse_options in all three programs: the loop stands at
\* options and never at a value, and has what was given last of each.
THEOREM ParseInvariance == ParseOptions => []ParseInv
<1>1. ParseInit => ParseInv
  BY InitParses
<1>2. ParseInv /\ [ParseNext]_parseVars => ParseInv'
  BY NextParses
<1> QED
  BY <1>1, <1>2, PTL DEF ParseOptions

\* For every command line, however long and whatever its arguments look like, a
\* program that starts does so with what it was told last, or the defaults.
THEOREM AlwaysStartsAsTold == ParseOptions => []StartsAsTold
<1>1. ParseInv => StartsAsTold
  BY DEF ParseInv
<1> QED
  BY <1>1, ParseInvariance, PTL
=============================================================================
