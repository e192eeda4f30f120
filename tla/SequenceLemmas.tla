--------------------------- MODULE SequenceLemmas ---------------------------
(***************************************************************************)
(* Facts about FlattenSeq, IsPrefix, RemoveAt and FoldLeft, as a sum, of   *)
(* the community modules.  FlattenSeq and FoldLeft are defined by          *)
(* recursion, so their equations need an induction; the induction theorems *)
(* of the library take an operator as a parameter, and the least           *)
(* counterexample (LeastNumber) stands in for them.                        *)
(***************************************************************************)
EXTENDS Integers, Sequences, SequencesExt, SequenceTheorems, WellFoundedInduction, TLAPS

Before == {p \in Nat \X Nat : p[1] < p[2]}

\* A non-empty set of natural numbers has a least element.
LEMMA LeastNumber ==
  ASSUME NEW T, T \subseteq Nat, T # {}
  PROVE  \E n \in T : \A m \in T : n <= m
<1>1. OpToRel(<, Nat) = Before
  BY DEF OpToRel, Before
<1>2. IsWellFoundedOn(Before, Nat)
  BY <1>1, NatLessThanWellFounded
<1>3. PICK n \in T : \A m \in T : <<m, n>> \notin Before
  BY <1>2, WFMin
<1>4. ASSUME NEW m \in T PROVE n <= m
  <2>1. m \in Nat /\ n \in Nat /\ <<m, n>> \notin Before
    BY <1>3
  <2>2. ~(m < n)
    BY <2>1 DEF Before
  <2> QED
    BY <2>1, <2>2
<1> QED
  BY <1>4

-----------------------------------------------------------------------------
(* FlattenSeq.  Joins(f, s) says that f is the recursive function of its   *)
(* definition.                                                             *)

Join(x, y) == x \o y

Joins(f, s) == f = [i \in 1 .. Len(s) |-> IF i = 1 THEN s[i] ELSE Join(f[i - 1], s[i])]

\* The same, without the recursion in it: f[i] joins the first i of s.
JoinsUpTo(f, s, n) ==
  /\ DOMAIN f = 1 .. n
  /\ f = [i \in 1 .. n |-> f[i]]
  /\ \A i \in 1 .. n : f[i] = IF i = 1 THEN s[i] ELSE Join(f[i - 1], s[i])

\* Flattening a sequence of sequences is joining all of it.
LEMMA FlattenDef ==
  ASSUME NEW s, Len(s) # 0
  PROVE  FlattenSeq(s) = (CHOOSE f : Joins(f, s))[Len(s)]
BY DEF FlattenSeq, Joins, Join

\* There is such a function.
LEMMA JoinsExist ==
  ASSUME NEW S, NEW s \in Seq(Seq(S)), NEW n \in Nat, n <= Len(s)
  PROVE  \E f : JoinsUpTo(f, s, n)
<1> DEFINE T == {m \in Nat : m <= Len(s) /\ ~ \E f : JoinsUpTo(f, s, m)}
<1> SUFFICES ASSUME T # {} PROVE FALSE
  OBVIOUS
<1>1. PICK m \in T : \A k \in T : m <= k
  BY LeastNumber
<1>2. m # 0
  <2> DEFINE g == [i \in 1 .. 0 |-> <<>>]
  <2>1. JoinsUpTo(g, s, 0)
    BY DEF JoinsUpTo
  <2> QED
    BY <2>1
<1>3. m - 1 \in Nat /\ m - 1 \notin T
  <2>1. m \in Nat
    OBVIOUS
  <2>2. m - 1 \in T => m <= m - 1
    BY <1>1
  <2> HIDE DEF T
  <2> QED
    BY <1>2, <2>1, <2>2
<1>4. PICK f : JoinsUpTo(f, s, m - 1)
  BY <1>3, LenProperties
<1> DEFINE g == [i \in 1 .. m |-> IF i < m THEN f[i] ELSE IF i = 1 THEN s[i] ELSE Join(f[i - 1], s[i])]
<1>5. JoinsUpTo(g, s, m)
  <2>1. ASSUME NEW i \in 1 .. m
        PROVE  g[i] = IF i = 1 THEN s[i] ELSE Join(g[i - 1], s[i])
    <3>1. CASE i < m
      <4>1. i \in 1 .. m - 1 /\ g[i] = f[i]
        BY <3>1, <1>3
      <4>2. i # 1 => g[i - 1] = f[i - 1]
        BY <4>1, <1>3
      <4> QED
        BY <4>1, <4>2, <1>4 DEF JoinsUpTo
    <3>2. CASE i = m
      BY <3>2, <1>3
    <3> QED
      BY <3>1, <3>2
  <2> QED
    BY <2>1 DEF JoinsUpTo
<1> QED
  BY <1>5, <1>1

\* The function of the definition does what it should.
LEMMA JoinsOf ==
  ASSUME NEW S, NEW s \in Seq(Seq(S))
  PROVE  JoinsUpTo(CHOOSE f : Joins(f, s), s, Len(s))
<1>1. PICK g : JoinsUpTo(g, s, Len(s))
  BY JoinsExist, LenProperties
<1>2. Joins(g, s)
  BY <1>1 DEF JoinsUpTo, Joins
<1> DEFINE f == CHOOSE h : Joins(h, s)
<1>3. Joins(f, s)
  BY <1>2
<1> HIDE DEF f
<1>4. JoinsUpTo(f, s, Len(s))
  BY <1>3 DEF JoinsUpTo, Joins
<1> QED
  BY <1>4 DEF f

\* What is joined is a sequence again.
LEMMA JoinsType ==
  ASSUME NEW S, NEW s \in Seq(Seq(S)), NEW n \in Nat, n <= Len(s),
         NEW f, JoinsUpTo(f, s, n)
  PROVE  \A i \in 1 .. n : f[i] \in Seq(S)
<1> DEFINE T == {i \in 1 .. n : f[i] \notin Seq(S)}
<1> SUFFICES ASSUME T # {} PROVE FALSE
  OBVIOUS
<1>0. T \subseteq Nat
  OBVIOUS
<1>1. PICK m \in T : \A k \in T : m <= k
  BY <1>0, LeastNumber
<1>2. m \in 1 .. n /\ s[m] \in Seq(S)
  BY <1>1, ElementOfSeq, LenProperties
<1>3. m # 1
  BY <1>2, <1>1 DEF JoinsUpTo
<1>4. m - 1 \in 1 .. n /\ m - 1 \notin T
  BY <1>1, <1>2, <1>3
<1>5. f[m] = f[m - 1] \o s[m]
  BY <1>2, <1>3 DEF JoinsUpTo, Join
<1>6. f[m - 1] \in Seq(S)
  BY <1>4
<1>7. f[m] \in Seq(S)
  BY <1>2, <1>5, <1>6, ConcatProperties
<1> QED
  BY <1>1, <1>7

\* Two sequences that agree up to n are joined alike up to n.
LEMMA JoinsAgree ==
  ASSUME NEW s, NEW t, NEW n \in Nat, NEW p \in Nat, NEW q \in Nat, n <= p, n <= q,
         \A i \in 1 .. n : s[i] = t[i],
         NEW f, JoinsUpTo(f, s, p), NEW g, JoinsUpTo(g, t, q)
  PROVE  \A i \in 1 .. n : f[i] = g[i]
<1> DEFINE T == {i \in 1 .. n : f[i] # g[i]}
<1> SUFFICES ASSUME T # {} PROVE FALSE
  OBVIOUS
<1>0. T \subseteq Nat
  OBVIOUS
<1>1. PICK m \in T : \A k \in T : m <= k
  BY <1>0, LeastNumber
<1>2. m \in 1 .. p /\ m \in 1 .. q /\ s[m] = t[m]
  BY <1>1
<1>3. m # 1
  BY <1>2, <1>1 DEF JoinsUpTo
<1>4. m - 1 \in 1 .. n /\ m - 1 \notin T
  BY <1>1, <1>2, <1>3
<1>5. f[m - 1] = g[m - 1]
  BY <1>4
<1>6. f[m] = Join(f[m - 1], s[m]) /\ g[m] = Join(g[m - 1], t[m])
  BY <1>2, <1>3 DEF JoinsUpTo
<1> QED
  BY <1>1, <1>2, <1>5, <1>6

\* Each value is the one before it, extended.
LEMMA JoinsStep ==
  ASSUME NEW f, NEW s, NEW n, JoinsUpTo(f, s, n), NEW i \in 1 .. n, i # 1
  PROVE  f[i] = Join(f[i - 1], s[i])
BY DEF JoinsUpTo

\* A sequence that is one longer only adds its last element.
LEMMA JoinsExtend ==
  ASSUME NEW s, NEW t, NEW n \in Nat, n # 0, \A i \in 1 .. n : t[i] = s[i],
         NEW f, NEW g, JoinsUpTo(f, s, n), JoinsUpTo(g, t, n + 1)
  PROVE  g[n + 1] = Join(f[n], t[n + 1])
<1>1. \A i \in 1 .. n : f[i] = g[i]
  BY JoinsAgree
<1>2. f[n] = g[n] /\ n + 1 \in 1 .. n + 1 /\ n + 1 # 1 /\ n + 1 - 1 = n
  BY <1>1
<1>3. g[n + 1] = Join(g[n + 1 - 1], t[n + 1])
  BY <1>2, JoinsStep
<1> QED
  BY <1>2, <1>3

\* ConcatAssociative, in a form that is easier to cite.
LEMMA Associative ==
  \A S : \A a, b, c \in Seq(S) : Join(Join(a, b), c) = Join(a, Join(b, c))
<1> TAKE S
<1> TAKE a, b, c \in Seq(S)
<1> QED
  BY ConcatAssociative DEF Join

\* Nothing flattens to nothing.
LEMMA FlattenEmpty == FlattenSeq(<<>>) = <<>>
BY EmptySeq DEF FlattenSeq

\* The sequence has the elements of its parts.
LEMMA FlattenType ==
  ASSUME NEW S, NEW s \in Seq(Seq(S))
  PROVE  FlattenSeq(s) \in Seq(S)
<1> DEFINE f == CHOOSE h : Joins(h, s)
<1>0. Len(s) \in Nat
  BY LenProperties
<1>1. CASE Len(s) = 0
  <2>1. s = <<>>
    BY <1>1, EmptySeq
  <2> QED
    BY <2>1, FlattenEmpty, EmptySeq
<1>2. CASE Len(s) # 0
  <2>1. JoinsUpTo(f, s, Len(s))
    BY JoinsOf
  <2>2. \A i \in 1 .. Len(s) : f[i] \in Seq(S)
    <3>1. Len(s) <= Len(s)
      BY <1>0
    <3> HIDE DEF f
    <3> QED
      BY <2>1, <1>0, <3>1, JoinsType
  <2>3. Len(s) \in 1 .. Len(s)
    BY <1>0, <1>2
  <2> QED
    BY <2>2, <2>3, <1>2, FlattenDef
<1> QED
  BY <1>1, <1>2

\* The last sequence comes last.
LEMMA FlattenAppend ==
  ASSUME NEW S, NEW s \in Seq(Seq(S)), NEW x \in Seq(S)
  PROVE  FlattenSeq(Append(s, x)) = FlattenSeq(s) \o x
<1> DEFINE t == Append(s, x)
           n == Len(s)
           f == CHOOSE h : Joins(h, s)
           g == CHOOSE h : Joins(h, t)
<1>0. n \in Nat /\ n + 1 \in Nat /\ n <= n /\ n <= n + 1
  BY LenProperties
<1>1. /\ n \in Nat /\ t \in Seq(Seq(S)) /\ Len(t) = n + 1
      /\ t[n + 1] = x /\ \A i \in 1 .. n : t[i] = s[i]
  BY AppendProperties, LenProperties
<1>2. JoinsUpTo(g, t, n + 1) /\ FlattenSeq(t) = g[n + 1]
  <2>1. Len(t) # 0
    BY <1>1
  <2>2. JoinsUpTo(g, t, Len(t))
    BY <1>1, JoinsOf
  <2>3. FlattenSeq(t) = g[Len(t)]
    BY <2>1, FlattenDef
  <2> QED
    BY <1>1, <2>2, <2>3
<1> HIDE DEF g, t, n, f
<1>3. CASE n = 0
  <2>1. s = <<>>
    BY <1>3, EmptySeq DEF n
  <2>2. g[1] = x
    BY <1>1, <1>2, <1>3 DEF JoinsUpTo
  <2> QED
    BY <2>1, <2>2, <1>2, <1>3, FlattenEmpty, ConcatEmptySeq DEF t
<1>4. CASE n # 0
  <2>1. JoinsUpTo(f, s, n) /\ FlattenSeq(s) = f[n]
    BY <1>4, JoinsOf, FlattenDef DEF n, f
  <2>2. g[n + 1] = Join(f[n], t[n + 1])
    <3>1. n \in Nat /\ (\A i \in 1 .. n : t[i] = s[i])
      BY <1>1
    <3>2. JoinsUpTo(f, s, n) /\ JoinsUpTo(g, t, n + 1)
      BY <1>2, <2>1
    <3> QED
      BY <1>4, <3>1, <3>2, JoinsExtend
  <2> QED
    BY <1>1, <1>2, <2>1, <2>2 DEF t, Join
<1> QED
  BY <1>3, <1>4

\* The first sequence comes first.
LEMMA FlattenHead ==
  ASSUME NEW S, NEW s \in Seq(Seq(S)), s # <<>>
  PROVE  FlattenSeq(s) = Head(s) \o FlattenSeq(Tail(s))
<1> DEFINE Good(r) == FlattenSeq(r) = Head(r) \o FlattenSeq(Tail(r))
           T == {n \in Nat : n # 0 /\ \E r \in Seq(Seq(S)) : Len(r) = n /\ ~Good(r)}
<1> HIDE DEF Good
<1> SUFFICES ASSUME T # {} PROVE FALSE
  BY EmptySeq, LenProperties DEF Good
<1>1. PICK m \in T : \A k \in T : m <= k
  BY LeastNumber
<1>2. PICK r \in Seq(Seq(S)) : Len(r) = m /\ ~Good(r)
  BY <1>1
<1>3. r # <<>>
  BY <1>1, <1>2, EmptySeq
<1>4. PICK q \in Seq(Seq(S)), x \in Seq(S) : r = Append(q, x)
  BY <1>3, SequenceEmptyOrAppend
<1>5. Len(q) = m - 1 /\ FlattenSeq(r) = FlattenSeq(q) \o x
  <2>1. Len(r) = Len(q) + 1
    BY <1>4, AppendProperties
  <2>2. Len(q) \in Nat
    BY LenProperties
  <2>3. FlattenSeq(r) = FlattenSeq(q) \o x
    BY <1>4, FlattenAppend
  <2> QED
    BY <1>2, <2>1, <2>2, <2>3
<1>6. CASE q = <<>>
  <2>1. Head(r) = x /\ Tail(r) = <<>>
    BY <1>4, <1>6, HeadTailAppend
  <2> QED
    BY <1>2, <1>5, <1>6, <2>1, FlattenEmpty, ConcatEmptySeq, ZenonT(30) DEF Good
<1>7. CASE q # <<>>
  <2>1. Head(r) = Head(q) /\ Tail(r) = Append(Tail(q), x)
    BY <1>4, <1>7, HeadTailAppend
  <2>2. Head(q) \in Seq(S) /\ Tail(q) \in Seq(Seq(S))
    BY <1>7, HeadTailProperties
  <2>3. Good(q)
    BY <1>1, <1>5, <1>7, EmptySeq
  <2>4. FlattenSeq(Tail(r)) = FlattenSeq(Tail(q)) \o x
    BY <2>1, <2>2, FlattenAppend
  <2>5. FlattenSeq(Tail(q)) \in Seq(S)
    BY <2>2, FlattenType
  <2>6. FlattenSeq(r) = Head(q) \o (FlattenSeq(Tail(q)) \o x)
    <3>1. Join(Join(Head(q), FlattenSeq(Tail(q))), x) = Join(Head(q), Join(FlattenSeq(Tail(q)), x))
      BY <2>2, <2>5, Associative
    <3> QED
      BY <1>5, <2>3, <3>1, Zenon DEF Good, Join
  <2> QED
    BY <1>2, <2>1, <2>4, <2>6 DEF Good
<1> QED
  BY <1>6, <1>7

-----------------------------------------------------------------------------
(* Cutting and joining.                                                    *)

\* Concatenation, by the elements of each part.
Joined(x, s, t) ==
  /\ Len(x) = Len(s) + Len(t)
  /\ \A i \in 1 .. Len(s) : x[i] = s[i]
  /\ \A i \in 1 .. Len(t) : x[Len(s) + i] = t[i]

\* What \o gives is the concatenation.
LEMMA JoinProperties ==
  ASSUME NEW S, NEW s \in Seq(S), NEW t \in Seq(S)
  PROVE  /\ Join(s, t) \in Seq(S)
         /\ Joined(Join(s, t), s, t)
<1>1. Len(s) \in Nat /\ Len(t) \in Nat
  BY LenProperties
<1>2. \A i \in 1 .. Len(s) + Len(t) : (s \o t)[i] = IF i <= Len(s) THEN s[i] ELSE t[i - Len(s)]
  BY ConcatProperties
<1>3. \A i \in 1 .. Len(s) : (s \o t)[i] = s[i]
  BY <1>1, <1>2
<1>4. ASSUME NEW i \in 1 .. Len(t) PROVE (s \o t)[Len(s) + i] = t[i]
  <2>1. /\ Len(s) + i \in 1 .. Len(s) + Len(t) /\ ~(Len(s) + i <= Len(s))
        /\ Len(s) + i - Len(s) = i
    BY <1>1
  <2> QED
    BY <2>1, <1>2
<1> QED
  BY <1>3, <1>4, ConcatProperties DEF Join, Joined

\* Two ways to cut the same bytes in two, the first one later.
LEMMA CutFront ==
  ASSUME NEW B, NEW s \in Seq(B), NEW t \in Seq(B), NEW u \in Seq(B), NEW v \in Seq(B),
         Join(s, t) = Join(u, v), Len(u) <= Len(s)
  PROVE  /\ SubSeq(s, Len(u) + 1, Len(s)) \in Seq(B)
         /\ Join(SubSeq(s, Len(u) + 1, Len(s)), t) = v
<1> DEFINE w == SubSeq(s, Len(u) + 1, Len(s))
<1>1. Len(s) \in Nat /\ Len(t) \in Nat /\ Len(u) \in Nat /\ Len(v) \in Nat
  BY LenProperties
<1>2. /\ Len(s) + Len(t) = Len(u) + Len(v)
      /\ \A i \in 1 .. Len(s) : Join(s, t)[i] = s[i]
      /\ \A i \in 1 .. Len(t) : Join(s, t)[Len(s) + i] = t[i]
      /\ \A i \in 1 .. Len(v) : Join(s, t)[Len(u) + i] = v[i]
  <2>1. Joined(Join(s, t), s, t) /\ Joined(Join(s, t), u, v)
    BY JoinProperties
  <2> QED
    BY <2>1 DEF Joined
<1>3. \A i \in Len(u) + 1 .. Len(s) : s[i] \in B
  BY <1>1, ElementOfSeq
<1>4. /\ w \in Seq(B) /\ Len(w) = Len(s) - Len(u)
      /\ \A i \in 1 .. Len(s) - Len(u) : w[i] = s[Len(u) + i]
  BY <1>1, <1>3, SubSeqProperties
<1> HIDE DEF w
<1>5. /\ Join(w, t) \in Seq(B) /\ Len(Join(w, t)) = Len(v)
      /\ \A i \in 1 .. Len(w) : Join(w, t)[i] = w[i]
      /\ \A i \in 1 .. Len(t) : Join(w, t)[Len(w) + i] = t[i]
  <2>1. w \in Seq(B)
    BY <1>4
  <2>2. Join(w, t) \in Seq(B) /\ Joined(Join(w, t), w, t)
    BY <2>1, JoinProperties
  <2>3. Len(w) + Len(t) = Len(v)
    BY <1>1, <1>2, <1>4
  <2> QED
    BY <2>2, <2>3 DEF Joined
<1>6. ASSUME NEW i \in 1 .. Len(v) PROVE Join(w, t)[i] = v[i]
  <2>1. CASE i <= Len(w)
    <3>1. i \in 1 .. Len(w) /\ Len(u) + i \in 1 .. Len(s)
      BY <2>1, <1>1, <1>4
    <3>2. Join(w, t)[i] = s[Len(u) + i]
      BY <3>1, <1>4, <1>5
    <3> QED
      BY <3>1, <3>2, <1>2
  <2>2. CASE ~(i <= Len(w))
    <3> DEFINE j == i - Len(w)
    <3>1. j \in 1 .. Len(t) /\ Len(w) + j = i /\ Len(s) + j = Len(u) + i
      BY <2>2, <1>1, <1>2, <1>4
    <3> HIDE DEF j
    <3>2. Join(w, t)[i] = t[j] /\ Join(s, t)[Len(u) + i] = t[j]
      BY <3>1, <1>2, <1>5
    <3> QED
      BY <3>2, <1>2
  <2> QED
    BY <2>1, <2>2
<1> QED
  BY <1>4, <1>5, <1>6, SeqEqual DEF w

\* Cutting a sequence in two and joining it again.
LEMMA SplitJoin ==
  ASSUME NEW B, NEW s \in Seq(B), NEW n \in Nat, n <= Len(s)
  PROVE  /\ SubSeq(s, 1, n) \in Seq(B) /\ Len(SubSeq(s, 1, n)) = n
         /\ \A i \in 1 .. n : SubSeq(s, 1, n)[i] = s[i]
         /\ SubSeq(s, n + 1, Len(s)) \in Seq(B)
         /\ Len(SubSeq(s, n + 1, Len(s))) = Len(s) - n
         /\ \A i \in 1 .. Len(s) - n : SubSeq(s, n + 1, Len(s))[i] = s[n + i]
         /\ Join(SubSeq(s, 1, n), SubSeq(s, n + 1, Len(s))) = s
<1> DEFINE u == SubSeq(s, 1, n)
           v == SubSeq(s, n + 1, Len(s))
<1>1. Len(s) \in Nat /\ \A i \in 1 .. Len(s) : s[i] \in B
  BY LenProperties, ElementOfSeq
<1>2. u \in Seq(B) /\ Len(u) = n /\ \A i \in 1 .. n : u[i] = s[i]
  BY <1>1, SubSeqProperties
<1>3. v \in Seq(B) /\ Len(v) = Len(s) - n /\ \A i \in 1 .. Len(s) - n : v[i] = s[n + i]
  BY <1>1, SubSeqProperties
<1> HIDE DEF u, v
<1>4. Join(u, v) \in Seq(B) /\ Joined(Join(u, v), u, v)
  BY <1>2, <1>3, JoinProperties
<1>5. Len(Join(u, v)) = Len(s)
  BY <1>1, <1>2, <1>3, <1>4 DEF Joined
<1>6. ASSUME NEW i \in 1 .. Len(s) PROVE Join(u, v)[i] = s[i]
  <2>1. CASE i <= n
    BY <2>1, <1>1, <1>2, <1>4 DEF Joined
  <2>2. CASE ~(i <= n)
    <3>1. PICK j \in 1 .. Len(v) : i = n + j
      <4>1. i - n \in 1 .. Len(v) /\ n + (i - n) = i
        BY <2>2, <1>1, <1>3
      <4> QED
        BY <4>1
    <3>2. Join(u, v)[Len(u) + j] = v[j]
      BY <3>1, <1>4 DEF Joined
    <3>3. v[j] = s[n + j]
      BY <3>1, <1>1, <1>3
    <3> QED
      BY <3>1, <3>2, <3>3, <1>2
  <2> QED
    BY <2>1, <2>2
<1>7. Join(u, v) = s
  BY <1>4, <1>5, <1>6, SeqEqual
<1> QED
  BY <1>2, <1>3, <1>7 DEF u, v

\* A prefix is a sequence to which something can be joined.
LEMMA PrefixOfJoin ==
  ASSUME NEW B, NEW s \in Seq(B), NEW r \in Seq(B)
  PROVE  IsPrefix(s, Join(s, r))
<1>1. Len(s) \in Nat /\ Len(r) \in Nat
  BY LenProperties
<1>2. Join(s, r) \in Seq(B) /\ Joined(Join(s, r), s, r)
  BY JoinProperties
<1> DEFINE t == Join(s, r)
<1> HIDE DEF t
<1>3. t \in Seq(B) /\ Len(s) <= Len(t) /\ \A i \in 1 .. Len(s) : t[i] = s[i]
  BY <1>1, <1>2 DEF Joined, t
<1>4. SubSeq(t, 1, Len(s)) = s
  <2>1. /\ SubSeq(t, 1, Len(s)) \in Seq(B) /\ Len(SubSeq(t, 1, Len(s))) = Len(s)
        /\ \A i \in 1 .. Len(s) : SubSeq(t, 1, Len(s))[i] = t[i]
    BY <1>1, <1>3, SplitJoin
  <2> QED
    BY <1>3, <2>1, SeqEqual
<1>5. SubSeq(s, 1, Len(s)) = s
  <2>1. /\ SubSeq(s, 1, Len(s)) \in Seq(B) /\ Len(SubSeq(s, 1, Len(s))) = Len(s)
        /\ \A i \in 1 .. Len(s) : SubSeq(s, 1, Len(s))[i] = s[i]
    BY <1>1, SplitJoin
  <2> QED
    BY <2>1, SeqEqual
<1> QED
  BY <1>3, <1>4, <1>5 DEF IsPrefix, t

\* A prefix is joined with some rest.
LEMMA RestOfPrefix ==
  ASSUME NEW B, NEW s \in Seq(B), NEW t \in Seq(B), IsPrefix(s, t)
  PROVE  \E r \in Seq(B) : Join(s, r) = t
<1>1. Len(s) \in Nat /\ Len(t) \in Nat /\ Len(s) <= Len(t)
  BY LenProperties DEF IsPrefix
<1>2. SubSeq(t, 1, Len(s)) = s
  BY <1>1, SeqEqual DEF IsPrefix
<1>3. /\ SubSeq(t, Len(s) + 1, Len(t)) \in Seq(B)
      /\ Join(SubSeq(t, 1, Len(s)), SubSeq(t, Len(s) + 1, Len(t))) = t
  BY <1>1, SplitJoin
<1> QED
  BY <1>2, <1>3

\* The element at i goes, and those behind it move up.
LEMMA RemoveAtProperties ==
  ASSUME NEW B, NEW s \in Seq(B), NEW i \in 1 .. Len(s), NEW t, t = RemoveAt(s, i)
  PROVE  /\ t \in Seq(B) /\ Len(t) = Len(s) - 1
         /\ \A j \in 1 .. Len(t) : j < i => t[j] = s[j]
         /\ \A j \in 1 .. Len(t) : ~(j < i) => t[j] = s[j + 1]
<1>1. Len(s) \in Nat /\ i \in Nat /\ i # 0 /\ i <= Len(s)
  BY LenProperties
<1> DEFINE u == SubSeq(s, 1, i - 1)
           v == SubSeq(s, i + 1, Len(s))
<1>2. /\ u \in Seq(B) /\ Len(u) = i - 1
      /\ \A j \in 1 .. i - 1 : u[j] = s[j]
  BY <1>1, SplitJoin
<1>3. /\ v \in Seq(B) /\ Len(v) = Len(s) - i
      /\ \A j \in 1 .. Len(s) - i : v[j] = s[i + j]
  BY <1>1, SplitJoin
<1>4. t = Join(u, v)
  BY DEF RemoveAt, Join
<1> HIDE DEF u, v
<1>5. t \in Seq(B) /\ Joined(t, u, v)
  BY <1>2, <1>3, <1>4, JoinProperties
<1>6. Len(t) = Len(s) - 1
  BY <1>1, <1>2, <1>3, <1>5 DEF Joined
<1>7. ASSUME NEW j \in 1 .. Len(t), j < i PROVE t[j] = s[j]
  <2>1. j \in 1 .. i - 1
    BY <1>1, <1>7
  <2> QED
    BY <2>1, <1>2, <1>5 DEF Joined
<1>8. ASSUME NEW j \in 1 .. Len(t), ~(j < i) PROVE t[j] = s[j + 1]
  <2>1. PICK k \in 1 .. Len(v) : j = i - 1 + k
    <3>1. j - i + 1 \in 1 .. Len(v) /\ j = i - 1 + (j - i + 1)
      BY <1>1, <1>3, <1>6, <1>8
    <3> QED
      BY <3>1
  <2>2. t[Len(u) + k] = v[k] /\ v[k] = s[i + k]
    BY <2>1, <1>3, <1>5 DEF Joined
  <2>3. j + 1 = i + k
    BY <2>1, <1>1
  <2> QED
    BY <2>1, <2>2, <2>3, <1>2
<1> QED
  BY <1>5, <1>6, <1>7, <1>8

-----------------------------------------------------------------------------
(* Sums.                                                                   *)

SumOf(s) == FoldLeft(LAMBDA sum, n : sum + n, 0, s)

\* The recursion of that fold: over the sets of positions, the greatest first.
Sums(g, s) ==
  g = [S \in SUBSET DOMAIN s |->
         IF S = {} THEN 0 ELSE g[S \ {Max(S)}] + s[Max(S)]]

\* The same, without the recursion in it, of the positions up to n.
SumsUpTo(g, s, n) ==
  /\ DOMAIN g = SUBSET (1 .. n)
  /\ g = [S \in SUBSET (1 .. n) |-> g[S]]
  /\ \A S \in SUBSET (1 .. n) : g[S] = IF S = {} THEN 0 ELSE g[S \ {Max(S)}] + s[Max(S)]

\* Summing is that recursion on all positions.
LEMMA SumDef ==
  ASSUME NEW s
  PROVE  SumOf(s) = (CHOOSE g : Sums(g, s))[DOMAIN s]
BY DEF SumOf, Sums, FoldLeft, MapThenFoldSet

\* The greatest of numbers up to m + 1 one of which is that.
LEMMA GreatestIsLast ==
  ASSUME NEW m \in Nat, NEW S \in SUBSET (1 .. m + 1), m + 1 \in S
  PROVE  Max(S) = m + 1
<1>1. \A y \in S : m + 1 >= y
  OBVIOUS
<1>2. \A x \in S : (\A y \in S : x >= y) => x = m + 1
  OBVIOUS
<1> QED
  BY <1>1, <1>2 DEF Max

\* There is a function with that recursion.
LEMMA SumsExist ==
  ASSUME NEW s, NEW n \in Nat
  PROVE  \E g : SumsUpTo(g, s, n)
<1> DEFINE T == {m \in Nat : ~ \E g : SumsUpTo(g, s, m)}
<1> SUFFICES ASSUME T # {} PROVE FALSE
  OBVIOUS
<1>1. PICK m \in T : \A k \in T : m <= k
  BY LeastNumber
<1>2. m # 0
  <2> DEFINE g == [S \in SUBSET (1 .. 0) |-> 0]
  <2>1. SumsUpTo(g, s, 0)
    <3>1. \A S \in SUBSET (1 .. 0) : S = {}
      OBVIOUS
    <3> QED
      BY <3>1 DEF SumsUpTo
  <2> QED
    BY <2>1
<1>3. m - 1 \in Nat /\ m - 1 \notin T
  <2>1. m \in Nat
    OBVIOUS
  <2>2. m - 1 \in T => m <= m - 1
    BY <1>1
  <2> HIDE DEF T
  <2> QED
    BY <1>2, <2>1, <2>2
<1>4. PICK h : SumsUpTo(h, s, m - 1)
  BY <1>3
<1>5. PICK k \in Nat : k = m - 1 /\ m = k + 1
  BY <1>3
<1> DEFINE g == [S \in SUBSET (1 .. k + 1) |-> IF k + 1 \in S THEN h[S \ {k + 1}] + s[k + 1] ELSE h[S]]
<1>6. SumsUpTo(g, s, k + 1)
  <2>1. ASSUME NEW S \in SUBSET (1 .. k + 1)
        PROVE  g[S] = IF S = {} THEN 0 ELSE g[S \ {Max(S)}] + s[Max(S)]
    <3>1. CASE k + 1 \in S
      <4>1. Max(S) = k + 1 /\ S # {}
        BY <3>1, GreatestIsLast
      <4>2. S \ {k + 1} \in SUBSET (1 .. k + 1) /\ k + 1 \notin S \ {k + 1}
        OBVIOUS
      <4>3. g[S] = h[S \ {k + 1}] + s[k + 1] /\ g[S \ {k + 1}] = h[S \ {k + 1}]
        BY <3>1, <4>2
      <4> HIDE DEF g
      <4> QED
        BY <4>1, <4>3
    <3>2. CASE k + 1 \notin S
      <4>1. S \in SUBSET (1 .. k)
        BY <3>2
      <4>2. h[S] = IF S = {} THEN 0 ELSE h[S \ {Max(S)}] + s[Max(S)]
        BY <4>1, <1>4, <1>5 DEF SumsUpTo
      <4>3. S \ {Max(S)} \in SUBSET (1 .. k + 1) /\ k + 1 \notin S \ {Max(S)}
        BY <3>2
      <4>4. g[S] = h[S] /\ g[S \ {Max(S)}] = h[S \ {Max(S)}]
        BY <3>2, <4>3
      <4> HIDE DEF g
      <4> QED
        BY <4>2, <4>4
    <3> QED
      BY <3>1, <3>2
  <2>2. DOMAIN g = SUBSET (1 .. k + 1) /\ g = [S \in SUBSET (1 .. k + 1) |-> g[S]]
    OBVIOUS
  <2> HIDE DEF g
  <2> QED
    BY <2>1, <2>2 DEF SumsUpTo
<1> QED
  BY <1>1, <1>5, <1>6

\* The fold has it.
LEMMA SumsOf ==
  ASSUME NEW S, NEW s \in Seq(S)
  PROVE  \E g : SumsUpTo(g, s, Len(s)) /\ SumOf(s) = g[1 .. Len(s)]
<1>1. Len(s) \in Nat /\ DOMAIN s = 1 .. Len(s)
  BY LenProperties
<1>2. PICK g : SumsUpTo(g, s, Len(s))
  BY <1>1, SumsExist
<1>3. Sums(g, s)
  BY <1>1, <1>2 DEF SumsUpTo, Sums
<1> DEFINE f == CHOOSE h : Sums(h, s)
<1>4. Sums(f, s)
  BY <1>3
<1>5. SumOf(s) = f[1 .. Len(s)]
  BY <1>1, SumDef
<1> HIDE DEF f
<1>6. SumsUpTo(f, s, Len(s))
  BY <1>1, <1>4 DEF Sums, SumsUpTo
<1> QED
  BY <1>5, <1>6

\* What the fold has added up at each position.
SumsTo(c, s, n) ==
  /\ c[0] = 0
  /\ \A i \in 1 .. n : c[i] = c[i - 1] + s[i]

\* The sum of a sequence, from its front.
LEMMA SumPrefixes ==
  ASSUME NEW S, NEW s \in Seq(S)
  PROVE  \E c : SumsTo(c, s, Len(s)) /\ SumOf(s) = c[Len(s)]
<1>1. Len(s) \in Nat
  BY LenProperties
<1>2. PICK g : SumsUpTo(g, s, Len(s)) /\ SumOf(s) = g[1 .. Len(s)]
  BY SumsOf
<1> DEFINE c == [i \in 0 .. Len(s) |-> g[1 .. i]]
<1>3. c[0] = 0
  <2>1. 1 .. 0 = {} /\ 0 \in 0 .. Len(s) /\ {} \in SUBSET (1 .. Len(s))
    BY <1>1
  <2> QED
    BY <2>1, <1>2 DEF SumsUpTo
<1>4. ASSUME NEW i \in 1 .. Len(s) PROVE c[i] = c[i - 1] + s[i]
  <2>1. i \in 0 .. Len(s) /\ i - 1 \in 0 .. Len(s) /\ i - 1 \in Nat /\ i - 1 + 1 = i
    BY <1>1
  <2>2. 1 .. i \in SUBSET (1 .. i - 1 + 1) /\ i \in 1 .. i /\ 1 .. i \in SUBSET (1 .. Len(s))
    BY <1>1, <2>1
  <2>3. Max(1 .. i) = i
    BY <2>1, <2>2, GreatestIsLast
  <2>4. (1 .. i) \ {i} = 1 .. i - 1
    BY <2>1
  <2>5. g[1 .. i] = g[(1 .. i) \ {Max(1 .. i)}] + s[Max(1 .. i)]
    BY <2>2, <1>2 DEF SumsUpTo
  <2>6. g[1 .. i] = g[1 .. i - 1] + s[i]
    BY <2>3, <2>4, <2>5
  <2> QED
    BY <2>1, <2>6
<1>5. c[Len(s)] = g[1 .. Len(s)]
  BY <1>1
<1> HIDE DEF c
<1> QED
  BY <1>2, <1>3, <1>4, <1>5 DEF SumsTo

\* The sums of equal numbers are equal.
LEMMA SumsAgree ==
  ASSUME NEW n \in Nat, NEW s, NEW t, NEW c, NEW d, SumsTo(c, s, n), SumsTo(d, t, n),
         \A i \in 1 .. n : s[i] = t[i]
  PROVE  \A i \in 0 .. n : c[i] = d[i]
<1> DEFINE T == {i \in 0 .. n : c[i] # d[i]}
<1> SUFFICES ASSUME T # {} PROVE FALSE
  OBVIOUS
<1>0. T \subseteq Nat
  OBVIOUS
<1>1. PICK m \in T : \A k \in T : m <= k
  BY <1>0, LeastNumber
<1>2. m \in 0 .. n /\ c[m] # d[m]
  OBVIOUS
<1>3. m # 0
  BY <1>2 DEF SumsTo
<1>4. m \in 1 .. n /\ m - 1 \in 0 .. n /\ ~(m <= m - 1)
  BY <1>2, <1>3
<1>5. c[m - 1] = d[m - 1]
  BY <1>1, <1>4
<1>6. c[m] = c[m - 1] + s[m] /\ d[m] = d[m - 1] + t[m]
  BY <1>4 DEF SumsTo
<1> QED
  BY <1>2, <1>4, <1>5, <1>6

\* Sums of natural numbers are natural numbers, and grow.
LEMMA SumsGrow ==
  ASSUME NEW n \in Nat, NEW s, NEW c, SumsTo(c, s, n), \A i \in 1 .. n : s[i] \in Nat
  PROVE  /\ \A i \in 0 .. n : c[i] \in Nat
         /\ \A i, j \in 0 .. n : i <= j => c[i] <= c[j]
<1>1. \A i \in 0 .. n : c[i] \in Nat
  <2> DEFINE T == {i \in 0 .. n : c[i] \notin Nat}
  <2> SUFFICES ASSUME T # {} PROVE FALSE
    OBVIOUS
  <2>0. T \subseteq Nat
    OBVIOUS
  <2>1. PICK m \in T : \A k \in T : m <= k
    BY <2>0, LeastNumber
  <2>2. m \in 0 .. n /\ c[m] \notin Nat
    OBVIOUS
  <2>3. m # 0
    BY <2>2 DEF SumsTo
  <2>4. m \in 1 .. n /\ m - 1 \in 0 .. n /\ ~(m <= m - 1)
    BY <2>2, <2>3
  <2>5. c[m - 1] \in Nat
    BY <2>1, <2>4
  <2>6. c[m] = c[m - 1] + s[m]
    BY <2>4 DEF SumsTo
  <2> QED
    BY <2>2, <2>4, <2>5, <2>6
<1>2. ASSUME NEW i \in 0 .. n PROVE \A j \in 0 .. n : i <= j => c[i] <= c[j]
  <2> DEFINE T == {j \in 0 .. n : i <= j /\ ~(c[i] <= c[j])}
  <2> SUFFICES ASSUME T # {} PROVE FALSE
    OBVIOUS
  <2>0. T \subseteq Nat
    OBVIOUS
  <2>1. PICK m \in T : \A k \in T : m <= k
    BY <2>0, LeastNumber
  <2>2. m \in 0 .. n /\ i <= m /\ ~(c[i] <= c[m])
    OBVIOUS
  <2>3. m # i
    BY <2>2, <1>1
  <2>4. m \in 1 .. n /\ m - 1 \in 0 .. n /\ i <= m - 1 /\ ~(m <= m - 1)
    BY <2>2, <2>3
  <2>5. c[i] <= c[m - 1]
    BY <2>1, <2>4
  <2>6. c[m] = c[m - 1] + s[m] /\ s[m] \in Nat
    BY <2>4 DEF SumsTo
  <2>7. c[i] \in Nat /\ c[m - 1] \in Nat /\ c[m] \in Nat
    BY <1>1, <2>2, <2>4
  <2> HIDE DEF T
  <2> QED
    BY <2>2, <2>5, <2>6, <2>7
<1> QED
  BY <1>1, <1>2

\* The sum of numbers is a number.
LEMMA SumType ==
  ASSUME NEW s \in Seq(Nat)
  PROVE  SumOf(s) \in Nat
<1>1. Len(s) \in Nat /\ \A i \in 1 .. Len(s) : s[i] \in Nat
  BY LenProperties, ElementOfSeq
<1>2. PICK c : SumsTo(c, s, Len(s)) /\ SumOf(s) = c[Len(s)]
  BY SumPrefixes
<1> QED
  BY <1>1, <1>2, SumsGrow

\* More numbers have no smaller sum.
LEMMA SumLonger ==
  ASSUME NEW s \in Seq(Nat), NEW t \in Seq(Nat), Len(s) <= Len(t), \A i \in 1 .. Len(s) : s[i] = t[i]
  PROVE  SumOf(s) <= SumOf(t)
<1>1. Len(s) \in Nat /\ Len(t) \in Nat /\ \A i \in 1 .. Len(t) : t[i] \in Nat
  BY LenProperties, ElementOfSeq
<1>2. PICK c : SumsTo(c, s, Len(s)) /\ SumOf(s) = c[Len(s)]
  BY SumPrefixes
<1>3. PICK d : SumsTo(d, t, Len(t)) /\ SumOf(t) = d[Len(t)]
  BY SumPrefixes
<1>4. SumsTo(d, t, Len(s)) /\ Len(s) \in 0 .. Len(s) /\ Len(s) \in 0 .. Len(t) /\ Len(t) \in 0 .. Len(t)
  BY <1>1, <1>3 DEF SumsTo
<1>5. c[Len(s)] = d[Len(s)]
  BY <1>1, <1>2, <1>4, SumsAgree
<1>6. d[Len(s)] <= d[Len(t)]
  BY <1>1, <1>3, <1>4, SumsGrow
<1> QED
  BY <1>2, <1>3, <1>5, <1>6

\* One number more.
LEMMA SumAppended ==
  ASSUME NEW s \in Seq(Nat), NEW t \in Seq(Nat), Len(t) = Len(s) + 1, \A i \in 1 .. Len(s) : s[i] = t[i]
  PROVE  SumOf(t) = SumOf(s) + t[Len(t)]
<1>1. Len(s) \in Nat /\ Len(t) \in Nat
  BY LenProperties
<1>2. PICK c : SumsTo(c, s, Len(s)) /\ SumOf(s) = c[Len(s)]
  BY SumPrefixes
<1>3. PICK d : SumsTo(d, t, Len(t)) /\ SumOf(t) = d[Len(t)]
  BY SumPrefixes
<1>4. SumsTo(d, t, Len(s)) /\ Len(s) \in 0 .. Len(s) /\ Len(t) \in 1 .. Len(t) /\ Len(t) - 1 = Len(s)
  BY <1>1, <1>3 DEF SumsTo
<1>5. c[Len(s)] = d[Len(s)]
  BY <1>1, <1>2, <1>4, SumsAgree, SMTT(30)
<1>6. d[Len(t)] = d[Len(s)] + t[Len(t)]
  BY <1>3, <1>4 DEF SumsTo
<1> QED
  BY <1>2, <1>3, <1>5, <1>6

\* One number changed.
LEMMA SumChanged ==
  ASSUME NEW s \in Seq(Nat), NEW t \in Seq(Nat), Len(t) = Len(s), NEW k \in 1 .. Len(s),
         \A i \in 1 .. Len(s) : i # k => t[i] = s[i]
  PROVE  SumOf(t) + s[k] = SumOf(s) + t[k]
<1>1. Len(s) \in Nat /\ \A i \in 1 .. Len(s) : s[i] \in Nat /\ t[i] \in Nat
  BY LenProperties, ElementOfSeq
<1>2. PICK n \in Nat : n = Len(s)
  BY <1>1
<1>3. PICK c : SumsTo(c, s, n) /\ SumOf(s) = c[n]
  BY <1>2, SumPrefixes
<1>4. PICK d : SumsTo(d, t, n) /\ SumOf(t) = d[n]
  BY <1>2, SumPrefixes
<1>5. \A i \in 0 .. n : c[i] \in Nat /\ d[i] \in Nat
  <2>1. \A i \in 0 .. n : c[i] \in Nat
    BY <1>1, <1>2, <1>3, SumsGrow
  <2>2. \A i \in 0 .. n : d[i] \in Nat
    BY <1>1, <1>2, <1>4, SumsGrow
  <2> QED
    BY <2>1, <2>2
<1>6. k \in 1 .. n /\ k - 1 \in Nat /\ k \in Nat /\ k - 1 \in 0 .. n /\ k \in 0 .. n
  BY <1>2
<1>7. c[k - 1] = d[k - 1]
  <2>1. SumsTo(c, s, k - 1) /\ SumsTo(d, t, k - 1) /\ k - 1 \in 0 .. k - 1
    BY <1>3, <1>4, <1>6 DEF SumsTo
  <2>2. \A i \in 1 .. k - 1 : s[i] = t[i]
    BY <1>2, <1>6
  <2> QED
    BY <1>6, <2>1, <2>2, SumsAgree
<1>8. d[k] + s[k] = c[k] + t[k]
  <2>1. c[k] = c[k - 1] + s[k] /\ d[k] = d[k - 1] + t[k]
    BY <1>3, <1>4, <1>6 DEF SumsTo
  <2>2. c[k - 1] \in Nat /\ s[k] \in Nat /\ t[k] \in Nat
    BY <1>1, <1>2, <1>5, <1>6
  <2>3. \A x, y, z \in Nat : (x + z) + y = (x + y) + z
    OBVIOUS
  <2> QED
    BY <2>1, <2>2, <2>3, <1>7
<1> DEFINE T == {i \in k .. n : d[i] + s[k] # c[i] + t[k]}
<1>9. T = {}
  <2> SUFFICES ASSUME T # {} PROVE FALSE
    OBVIOUS
  <2>0. T \subseteq Nat
    BY <1>6
  <2>1. PICK m \in T : \A i \in T : m <= i
    BY <2>0, LeastNumber
  <2>2. m \in k .. n /\ d[m] + s[k] # c[m] + t[k]
    OBVIOUS
  <2>3. m # k
    BY <2>2, <1>8
  <2>4. m \in 1 .. n /\ m - 1 \in k .. n /\ m - 1 \in 0 .. n /\ m \in 0 .. n /\ m # k /\ ~(m <= m - 1)
    BY <2>2, <2>3, <1>6
  <2>5. d[m - 1] + s[k] = c[m - 1] + t[k]
    BY <2>1, <2>4
  <2>6. c[m] = c[m - 1] + s[m] /\ d[m] = d[m - 1] + t[m] /\ t[m] = s[m]
    BY <2>4, <1>2, <1>3, <1>4 DEF SumsTo
  <2>7. s[m] \in Nat /\ s[k] \in Nat /\ t[k] \in Nat /\ c[m - 1] \in Nat /\ d[m - 1] \in Nat
    BY <1>1, <1>2, <1>5, <2>4
  <2> DEFINE x == d[m - 1]
             y == c[m - 1]
             u == s[k]
             v == t[k]
             w == s[m]
  <2>8. x \in Nat /\ y \in Nat /\ u \in Nat /\ v \in Nat /\ w \in Nat /\ x + u = y + v
    BY <2>5, <2>7
  <2>9. d[m] = x + w /\ c[m] = y + w
    BY <2>6
  <2> HIDE DEF x, y, u, v, w
  <2>10. (x + w) + u = (y + w) + v
    BY <2>8
  <2>11. d[m] + u = c[m] + v
    BY <2>9, <2>10
  <2> QED
    BY <2>2, <2>11 DEF u, v
<1>10. n \in k .. n
  BY <1>6
<1> QED
  BY <1>2, <1>3, <1>4, <1>9, <1>10

\* Nothing but zeros adds up to zero.
LEMMA SumZero ==
  ASSUME NEW s \in Seq(Nat), \A i \in 1 .. Len(s) : s[i] = 0
  PROVE  SumOf(s) = 0
<1>1. Len(s) \in Nat
  BY LenProperties
<1>2. PICK c : SumsTo(c, s, Len(s)) /\ SumOf(s) = c[Len(s)]
  BY SumPrefixes
<1> DEFINE d == [i \in 0 .. Len(s) |-> 0]
<1>3. SumsTo(d, s, Len(s))
  <2>1. d[0] = 0 /\ \A i \in 1 .. Len(s) : d[i] = 0 /\ d[i - 1] = 0 /\ s[i] = 0
    BY <1>1
  <2> HIDE DEF d
  <2> QED
    BY <2>1 DEF SumsTo
<1>4. Len(s) \in 0 .. Len(s) /\ d[Len(s)] = 0
  BY <1>1
<1> HIDE DEF d
<1>5. c[Len(s)] = d[Len(s)]
  BY <1>1, <1>2, <1>3, <1>4, SumsAgree
<1> QED
  BY <1>2, <1>4, <1>5

\* The sum of one number.
LEMMA SumOne ==
  ASSUME NEW s \in Seq(Nat), Len(s) = 1
  PROVE  SumOf(s) = s[1]
<1>1. PICK c : SumsTo(c, s, 1) /\ SumOf(s) = c[1]
  BY SumPrefixes
<1>2. c[1] = c[0] + s[1] /\ c[0] = 0 /\ s[1] \in Nat
  BY <1>1, ElementOfSeq, SMTT(30) DEF SumsTo
<1> QED
  BY <1>1, <1>2
-----------------------------------------------------------------------------
(* Where the parts are in what they flatten to.                            *)

\* t has the lengths of the first n of s.
LengthsOf(t, s, n) == \A i \in 1 .. n : t[i] = Len(s[i])

\* What joins the first i of s is as long as they are together.
LEMMA JoinLengths ==
  ASSUME NEW S, NEW s \in Seq(Seq(S)), NEW n \in Nat, n <= Len(s),
         NEW f, JoinsUpTo(f, s, n),
         NEW l, LengthsOf(l, s, n), NEW c, SumsTo(c, l, n)
  PROVE  \A i \in 1 .. n : Len(f[i]) = c[i]
<1> DEFINE T == {i \in 1 .. n : Len(f[i]) # c[i]}
<1> SUFFICES ASSUME T # {} PROVE FALSE
  OBVIOUS
<1>0. T \subseteq Nat
  OBVIOUS
<1>1. PICK m \in T : \A k \in T : m <= k
  BY <1>0, LeastNumber
<1>2. m \in 1 .. n /\ Len(f[m]) # c[m] /\ s[m] \in Seq(S)
  BY <1>1, ElementOfSeq, LenProperties
<1>3. c[0] = 0 /\ c[m] = c[m - 1] + Len(s[m]) /\ Len(s[m]) \in Nat
  BY <1>2, LenProperties DEF SumsTo, LengthsOf
<1>4. m # 1
  <2>1. m = 1 => f[m] = s[m]
    BY <1>2 DEF JoinsUpTo
  <2>2. m = 1 => m - 1 = 0
    OBVIOUS
  <2>3. m = 1 => c[m] = 0 + Len(s[m])
    BY <1>3, <2>2
  <2>4. 0 + Len(s[m]) = Len(s[m])
    BY <1>3
  <2> HIDE DEF T
  <2> QED
    BY <1>2, <2>1, <2>3, <2>4
<1>5. m - 1 \in 1 .. n /\ ~(m <= m - 1)
  BY <1>2, <1>4
<1>6. Len(f[m - 1]) = c[m - 1]
  BY <1>1, <1>5
<1>7. f[m - 1] \in Seq(S) /\ f[m] = Join(f[m - 1], s[m])
  BY <1>2, <1>4, <1>5, JoinsType, JoinsStep
<1>8. Len(f[m]) = Len(f[m - 1]) + Len(s[m])
  <2>1. Joined(f[m], f[m - 1], s[m])
    BY <1>2, <1>7, JoinProperties
  <2> QED
    BY <2>1 DEF Joined
<1> QED
  BY <1>2, <1>3, <1>6, <1>8

\* A piece that ends at z or before lies between 1 and z.
LEMMA Inside ==
  \A a, b, d, z \in Nat : b = a + d /\ b <= z => \A j \in 1 .. d : a + j \in 1 .. z
OBVIOUS

\* What is longer reaches as far.
LEMMA Further ==
  \A a, d \in Nat : a <= a + d
OBVIOUS

\* The part k begins where the parts before it end.
LEMMA FlattenPiece ==
  ASSUME NEW S, NEW s \in Seq(Seq(S)), NEW k \in 1 .. Len(s),
         NEW t \in Seq(Nat), Len(t) = k - 1, LengthsOf(t, s, k - 1),
         NEW o, o = SumOf(t)
  PROVE  /\ o \in Nat /\ FlattenSeq(s) \in Seq(S) /\ o + Len(s[k]) <= Len(FlattenSeq(s))
         /\ \A j \in 1 .. Len(s[k]) : FlattenSeq(s)[o + j] = s[k][j]
<1> DEFINE n == Len(s)
           l == [i \in 1 .. n |-> Len(s[i])]
           f == CHOOSE h : Joins(h, s)
<1>1. /\ n \in Nat /\ n # 0 /\ n \in 1 .. n /\ k \in Nat /\ k - 1 \in Nat /\ k - 1 <= n /\ k \in 0 .. n
      /\ k - 1 \in 0 .. n /\ k - 1 \in 0 .. k - 1
  BY LenProperties
<1>2. \A i \in 1 .. n : s[i] \in Seq(S) /\ Len(s[i]) \in Nat
  BY ElementOfSeq, LenProperties
<1>3. l \in Seq(Nat) /\ Len(l) = n
  BY <1>1, <1>2
<1>4. PICK c : SumsTo(c, l, n)
  BY <1>3, SumPrefixes
<1>5. JoinsUpTo(f, s, n) /\ FlattenSeq(s) = f[n]
  BY <1>1, JoinsOf, FlattenDef
<1> HIDE DEF f
<1>6. \A i \in 1 .. n : f[i] \in Seq(S) /\ Len(f[i]) = c[i]
  <2>1. n \in Nat /\ n <= Len(s) /\ SumsTo(c, l, n) /\ LengthsOf(l, s, n)
    BY <1>1, <1>4 DEF LengthsOf
  <2> HIDE DEF n, l
  <2>2. \A i \in 1 .. n : f[i] \in Seq(S)
    BY <2>1, <1>5, JoinsType
  <2>3. \A i \in 1 .. n : Len(f[i]) = c[i]
    BY <2>1, <1>5, JoinLengths
  <2> QED
    BY <2>2, <2>3
<1>7. \A i \in 0 .. n : c[i] \in Nat
  <2>1. \A i \in 1 .. n : l[i] \in Nat
    BY <1>2
  <2> QED
    BY <1>1, <1>4, <2>1, SumsGrow
<1>8. o = c[k - 1]
  <2>1. t \in Seq(Nat) /\ Len(t) = k - 1
    OBVIOUS
  <2>2. \A i \in 1 .. k - 1 : t[i] = l[i]
    BY <1>1 DEF LengthsOf
  <2> HIDE DEF l
  <2>3. PICK d : SumsTo(d, t, k - 1) /\ SumOf(t) = d[k - 1]
    BY <2>1, SumPrefixes
  <2>4. SumsTo(c, l, k - 1)
    BY <1>1, <1>4 DEF SumsTo
  <2>5. \A i \in 0 .. k - 1 : d[i] = c[i]
    <3> DEFINE p == k - 1
    <3>1. p \in Nat /\ SumsTo(d, t, p) /\ SumsTo(c, l, p) /\ \A i \in 1 .. p : t[i] = l[i]
      BY <1>1, <2>2, <2>3, <2>4
    <3> HIDE DEF p
    <3>2. \A i \in 0 .. p : d[i] = c[i]
      BY <3>1, SumsAgree, SMTT(30)
    <3> QED
      BY <3>2 DEF p
  <2> QED
    BY <1>1, <2>3, <2>5
<1>9. c[0] = 0 /\ \A i \in 1 .. n : c[i] = c[i - 1] + Len(s[i])
  BY <1>4 DEF SumsTo
<1> HIDE DEF l
<1> DEFINE Has(i) == /\ c[k] <= Len(f[i])
                     /\ \A j \in 1 .. Len(s[k]) : f[i][c[k - 1] + j] = s[k][j]
           T == {i \in k .. n : ~Has(i)}
<1>10. Has(k)
  <2>1. CASE k = 1
    <3>1. f[k] = s[k]
      BY <1>5, <2>1 DEF JoinsUpTo
    <3>2. c[k - 1] = 0
      <4>1. k - 1 = 0
        BY <2>1
      <4> QED
        BY <4>1, <1>9
    <3>3. c[k] = Len(f[k])
      BY <1>6
    <3>4. Len(f[k]) \in Nat
      BY <1>6, LenProperties
    <3>5. \A j \in 1 .. Len(s[k]) : 0 + j = j
      OBVIOUS
    <3> HIDE DEF n
    <3> QED
      BY <3>1, <3>2, <3>3, <3>4, <3>5
  <2>2. CASE k # 1
    <3>1. f[k] = Join(f[k - 1], s[k]) /\ k - 1 \in 1 .. n
      BY <1>1, <1>5, <2>2, JoinsStep
    <3>2. \A j \in 1 .. Len(s[k]) : f[k][Len(f[k - 1]) + j] = s[k][j]
      <4>1. Joined(f[k], f[k - 1], s[k])
        BY <1>2, <1>6, <3>1, JoinProperties
      <4> QED
        BY <4>1 DEF Joined
    <3>3. Len(f[k - 1]) = c[k - 1] /\ c[k] = Len(f[k]) /\ Len(f[k]) \in Nat
      BY <1>6, <3>1, LenProperties
    <3> HIDE DEF n
    <3> QED
      BY <3>2, <3>3
  <2> QED
    BY <2>1, <2>2
<1>11. ASSUME NEW i \in k .. n, i # k, Has(i - 1)
       PROVE  Has(i)
  <2>1. i \in 1 .. n /\ i # 1 /\ i - 1 \in 1 .. n /\ f[i] = Join(f[i - 1], s[i])
    BY <1>1, <1>5, <1>11, JoinsStep
  <2>2. /\ Len(f[i]) = Len(f[i - 1]) + Len(s[i])
        /\ \A j \in 1 .. Len(f[i - 1]) : f[i][j] = f[i - 1][j]
    <3>1. Joined(f[i], f[i - 1], s[i])
      BY <1>2, <1>6, <2>1, JoinProperties
    <3> QED
      BY <3>1 DEF Joined
  <2>3. /\ c[k - 1] \in Nat /\ c[k] \in Nat /\ c[k] = c[k - 1] + Len(s[k]) /\ Len(s[k]) \in Nat
        /\ Len(f[i - 1]) \in Nat /\ Len(s[i]) \in Nat /\ c[k] <= Len(f[i - 1])
    BY <1>1, <1>2, <1>6, <1>7, <1>9, <1>11, <2>1, LenProperties
  <2>4. \A j \in 1 .. Len(s[k]) : c[k - 1] + j \in 1 .. Len(f[i - 1])
    BY <2>3, Inside
  <2>5. c[k] <= Len(f[i])
    <3>1. Len(f[i]) \in Nat
      BY <1>6, <2>1, LenProperties
    <3>2. Len(f[i - 1]) <= Len(f[i])
      <4>1. Len(f[i - 1]) <= Len(f[i - 1]) + Len(s[i])
        BY <2>3, Further
      <4>2. Len(f[i]) = Len(f[i - 1]) + Len(s[i])
        BY <2>2
      <4> QED
        BY <4>1, <4>2, Zenon
    <3> HIDE DEF n
    <3> QED
      BY <2>3, <3>1, <3>2
  <2> QED
    BY <1>11, <2>2, <2>4, <2>5
<1>12. T = {}
  <2> SUFFICES ASSUME T # {} PROVE FALSE
    OBVIOUS
  <2>0. T \subseteq Nat
    BY <1>1
  <2>1. PICK m \in T : \A i \in T : m <= i
    BY <2>0, LeastNumber
  <2>2. m \in k .. n /\ ~Has(m)
    OBVIOUS
  <2> HIDE DEF Has
  <2>3. m # k
    BY <1>10, <2>2
  <2>4. m - 1 \in k .. n /\ ~(m <= m - 1)
    BY <1>1, <2>2, <2>3
  <2>5. Has(m - 1)
    BY <2>1, <2>4
  <2> QED
    BY <1>11, <2>2, <2>3, <2>5
<1>13. Has(n)
  <2>1. n \in k .. n
    BY <1>1
  <2> HIDE DEF Has
  <2> QED
    BY <1>12, <2>1
<1> QED
  BY <1>1, <1>5, <1>6, <1>7, <1>8, <1>9, <1>13
=============================================================================
