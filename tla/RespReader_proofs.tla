------------------------- MODULE RespReader_proofs -------------------------
(***************************************************************************)
(* Numbers written in digits are read as what they were, requests can be   *)
(* told apart, and the reader takes exactly one reply: for every base,     *)
(* limit, set of bytes and list of arguments.                              *)
(***************************************************************************)
EXTENDS RespReader, SequenceLemmas

(* Reading digits: a fold from the left, whose recursion is over the sets  *)
(* of positions, the greatest first.                                       *)

Shift(v, d) == Base * v + Digit[d]

Number(s) == FoldLeft(LAMBDA sum, d : Base * sum + Digit[d], 0, s)

Reads(g, s) ==
  g = [S \in SUBSET DOMAIN s |->
         IF S = {} THEN 0 ELSE Shift(g[S \ {Max(S)}], s[Max(S)])]

\* The same, without the recursion in it, of the positions up to n.
ReadsUpTo(g, s, n) ==
  /\ DOMAIN g = SUBSET (1 .. n)
  /\ g = [S \in SUBSET (1 .. n) |-> g[S]]
  /\ \A S \in SUBSET (1 .. n) : g[S] = IF S = {} THEN 0 ELSE Shift(g[S \ {Max(S)}], s[Max(S)])

LEMMA NumberDef ==
  ASSUME NEW s
  PROVE  Number(s) = (CHOOSE g : Reads(g, s))[DOMAIN s]
BY DEF Number, Reads, Shift, FoldLeft, MapThenFoldSet

\* There is a function with that recursion.
LEMMA ReadsExist ==
  ASSUME NEW s, NEW n \in Nat
  PROVE  \E g : ReadsUpTo(g, s, n)
<1> DEFINE T == {m \in Nat : ~ \E g : ReadsUpTo(g, s, m)}
<1> SUFFICES ASSUME T # {} PROVE FALSE
  OBVIOUS
<1>1. PICK m \in T : \A k \in T : m <= k
  BY LeastNumber
<1>2. m # 0
  <2> DEFINE g == [S \in SUBSET (1 .. 0) |-> 0]
  <2>1. ReadsUpTo(g, s, 0)
    <3>1. \A S \in SUBSET (1 .. 0) : S = {}
      OBVIOUS
    <3> QED
      BY <3>1 DEF ReadsUpTo
  <2> QED
    BY <2>1
<1>3. m - 1 \in Nat /\ m - 1 \notin T
  <2>1. m \in Nat
    OBVIOUS
  <2>2. m - 1 \in T => m <= m - 1
    BY <1>1
  <2> HIDE DEF T
  <2> QED
    BY <1>2, <2>1, <2>2
<1>4. PICK h : ReadsUpTo(h, s, m - 1)
  BY <1>3
<1>5. PICK k \in Nat : k = m - 1 /\ m = k + 1
  BY <1>3
<1> DEFINE g == [S \in SUBSET (1 .. k + 1) |->
                   IF k + 1 \in S THEN Shift(h[S \ {k + 1}], s[k + 1]) ELSE h[S]]
<1>6. ReadsUpTo(g, s, k + 1)
  <2>1. ASSUME NEW S \in SUBSET (1 .. k + 1)
        PROVE  g[S] = IF S = {} THEN 0 ELSE Shift(g[S \ {Max(S)}], s[Max(S)])
    <3>1. CASE k + 1 \in S
      <4>1. Max(S) = k + 1 /\ S # {}
        BY <3>1, GreatestIsLast
      <4>2. S \ {k + 1} \in SUBSET (1 .. k + 1) /\ k + 1 \notin S \ {k + 1}
        OBVIOUS
      <4>3. g[S] = Shift(h[S \ {k + 1}], s[k + 1]) /\ g[S \ {k + 1}] = h[S \ {k + 1}]
        BY <3>1, <4>2
      <4> HIDE DEF g
      <4> QED
        BY <4>1, <4>3
    <3>2. CASE k + 1 \notin S
      <4>1. S \in SUBSET (1 .. k)
        BY <3>2
      <4>2. h[S] = IF S = {} THEN 0 ELSE Shift(h[S \ {Max(S)}], s[Max(S)])
        BY <4>1, <1>4, <1>5 DEF ReadsUpTo
      <4>3. S \ {Max(S)} \in SUBSET (1 .. k + 1) /\ k + 1 \notin S \ {Max(S)}
        BY <3>2
      <4>4. g[S] = h[S] /\ g[S \ {Max(S)}] = h[S \ {Max(S)}]
        BY <3>2, <4>3
      <4> HIDE DEF g
      <4> QED
        BY <4>2, <4>4
    <3> QED
      BY <3>1, <3>2
  <2>2. DOMAIN g = SUBSET (1 .. k + 1) /\ g = [S \in SUBSET (1 .. k + 1) |-> g[S]]
    OBVIOUS
  <2> HIDE DEF g
  <2> QED
    BY <2>1, <2>2 DEF ReadsUpTo
<1> QED
  BY <1>1, <1>5, <1>6

\* What has been read at each position.
ReadTo(c, s, n) ==
  /\ c[0] = 0
  /\ \A i \in 1 .. n : c[i] = Shift(c[i - 1], s[i])

\* The number that digits spell, from the first one.
LEMMA NumberPrefixes ==
  ASSUME NEW S, NEW s \in Seq(S)
  PROVE  \E c : ReadTo(c, s, Len(s)) /\ Number(s) = c[Len(s)]
<1>1. Len(s) \in Nat /\ DOMAIN s = 1 .. Len(s)
  BY LenProperties
<1> DEFINE f == CHOOSE h : Reads(h, s)
<1>2. Reads(f, s)
  <2>1. PICK h : ReadsUpTo(h, s, Len(s))
    BY <1>1, ReadsExist
  <2>2. Reads(h, s)
    BY <1>1, <2>1 DEF ReadsUpTo, Reads
  <2> QED
    BY <2>2
<1>3. Number(s) = f[1 .. Len(s)]
  BY <1>1, NumberDef
<1> HIDE DEF f
<1>4. ReadsUpTo(f, s, Len(s))
  BY <1>1, <1>2 DEF Reads, ReadsUpTo
<1> DEFINE c == [i \in 0 .. Len(s) |-> f[1 .. i]]
<1>5. c[0] = 0
  <2>1. 1 .. 0 = {} /\ 0 \in 0 .. Len(s) /\ {} \in SUBSET (1 .. Len(s))
    BY <1>1
  <2> QED
    BY <2>1, <1>4 DEF ReadsUpTo
<1>6. ASSUME NEW i \in 1 .. Len(s) PROVE c[i] = Shift(c[i - 1], s[i])
  <2>1. i \in 0 .. Len(s) /\ i - 1 \in 0 .. Len(s) /\ i - 1 \in Nat /\ i - 1 + 1 = i
    BY <1>1
  <2>2. 1 .. i \in SUBSET (1 .. i - 1 + 1) /\ i \in 1 .. i /\ 1 .. i \in SUBSET (1 .. Len(s))
    BY <1>1, <2>1
  <2>3. Max(1 .. i) = i
    BY <2>1, <2>2, GreatestIsLast
  <2>4. (1 .. i) \ {i} = 1 .. i - 1
    BY <2>1
  <2>5. f[1 .. i] = Shift(f[(1 .. i) \ {Max(1 .. i)}], s[Max(1 .. i)])
    BY <2>2, <1>4 DEF ReadsUpTo
  <2>6. f[1 .. i] = Shift(f[1 .. i - 1], s[i])
    BY <2>3, <2>4, <2>5
  <2> QED
    BY <2>1, <2>6
<1>7. c[Len(s)] = f[1 .. Len(s)]
  BY <1>1
<1> HIDE DEF c
<1> QED
  BY <1>3, <1>5, <1>6, <1>7 DEF ReadTo

\* The same digits are read the same way.
LEMMA ReadsAgree ==
  ASSUME NEW n \in Nat, NEW s, NEW t, NEW c, NEW d, ReadTo(c, s, n), ReadTo(d, t, n),
         \A i \in 1 .. n : s[i] = t[i]
  PROVE  \A i \in 0 .. n : c[i] = d[i]
<1> DEFINE T == {i \in 0 .. n : c[i] # d[i]}
<1> SUFFICES ASSUME T # {} PROVE FALSE
  OBVIOUS
<1>0. T \subseteq Nat
  OBVIOUS
<1>1. PICK m \in T : \A k \in T : m <= k
  BY <1>0, LeastNumber
<1>2. m \in 0 .. n /\ c[m] # d[m]
  OBVIOUS
<1>3. m # 0
  BY <1>2 DEF ReadTo
<1>4. m \in 1 .. n /\ m - 1 \in 0 .. n /\ ~(m <= m - 1)
  BY <1>2, <1>3
<1>5. c[m - 1] = d[m - 1]
  BY <1>1, <1>4
<1>6. c[m] = Shift(c[m - 1], s[m]) /\ d[m] = Shift(d[m - 1], t[m])
  BY <1>4 DEF ReadTo
<1>7. s[m] = t[m]
  BY <1>4
<1> HIDE DEF T
<1> QED
  BY <1>2, <1>5, <1>6, <1>7

\* One digit more.
LEMMA NumberAppended ==
  ASSUME NEW S, NEW s \in Seq(S), NEW d \in S
  PROVE  Number(Append(s, d)) = Shift(Number(s), d)
<1>1. PICK t : t = Append(s, d)
  OBVIOUS
<1>2. /\ t \in Seq(S) /\ Len(t) = Len(s) + 1 /\ Len(s) \in Nat /\ t[Len(t)] = d
      /\ \A i \in 1 .. Len(s) : s[i] = t[i]
  BY <1>1, LenProperties, AppendProperties
<1>3. PICK b : ReadTo(b, s, Len(s)) /\ Number(s) = b[Len(s)]
  BY NumberPrefixes
<1>4. PICK c : ReadTo(c, t, Len(t)) /\ Number(t) = c[Len(t)]
  BY <1>2, NumberPrefixes
<1>5. PICK n \in Nat : n = Len(s) /\ n + 1 = Len(t)
  BY <1>2
<1>6. ReadTo(c, t, n) /\ ReadTo(b, s, n) /\ \A i \in 1 .. n : s[i] = t[i]
  BY <1>2, <1>3, <1>4, <1>5 DEF ReadTo
<1>7. b[n] = c[n]
  <2>1. \A i \in 0 .. n : b[i] = c[i]
    BY <1>6, ReadsAgree
  <2> QED
    BY <2>1
<1>8. c[n + 1] = Shift(c[n], t[n + 1])
  <2>1. n + 1 \in 1 .. Len(t) /\ (n + 1) - 1 = n
    BY <1>5
  <2> QED
    BY <1>4, <2>1 DEF ReadTo
<1> QED
  BY <1>1, <1>2, <1>3, <1>4, <1>5, <1>7, <1>8

\* No digit is zero.
LEMMA NumberEmpty == Number(<<>>) = 0
<1>1. <<>> \in Seq({}) /\ Len(<<>>) = 0
  OBVIOUS
<1>2. PICK c : ReadTo(c, <<>>, 0) /\ Number(<<>>) = c[0]
  BY <1>1, NumberPrefixes
<1> QED
  BY <1>2 DEF ReadTo

-----------------------------------------------------------------------------
(* Writing digits.                                                         *)

\* The last digit, and what is before it.
LEMMA LastDigit ==
  \A b \in Nat \ {0, 1}, m \in Nat :
    /\ m \div b \in Nat /\ m % b \in 0 .. b - 1
    /\ b * (m \div b) + (m % b) = m
    /\ b <= m => m \div b < m
<1> TAKE b \in Nat \ {0, 1}, m \in Nat
<1>1. PICK q : q = m \div b
  OBVIOUS
<1>2. PICK r : r = m % b
  OBVIOUS
<1>3. q \in Nat /\ r \in 0 .. b - 1 /\ b * q + r = m
  BY <1>1, <1>2
<1>4. ASSUME b <= m PROVE q < m
  <2>1. CASE q = 0
    BY <1>4, <2>1
  <2>2. CASE q # 0
    <3>1. b * q >= 2 * q
      BY <1>3
    <3> QED
      BY <1>3, <2>2, <3>1
  <2> QED
    BY <2>1, <2>2
<1> QED
  BY <1>1, <1>2, <1>3, <1>4

\* The digits of m, when f holds those of smaller numbers.
DigitsFrom(m, f) ==
  IF m < Base THEN <<DigitFor(m)>> ELSE Append(f[m \div Base], DigitFor(m % Base))

Spells(f, n) == f = [m \in 0 .. n |-> DigitsFrom(m, f)]

\* The same, without the recursion in it.
SpellsUpTo(f, n) ==
  /\ f = [m \in 0 .. n |-> f[m]]
  /\ \A m \in 0 .. n : f[m] = DigitsFrom(m, f)

LEMMA SpellDef ==
  ASSUME NEW n
  PROVE  SpellUnsigned(n) = (CHOOSE f : Spells(f, n))[n]
BY DEF SpellUnsigned, Spells, DigitsFrom

\* There is a function with that recursion.
LEMMA SpellsExist ==
  ASSUME NEW n \in Nat
  PROVE  \E f : SpellsUpTo(f, n)
<1> DEFINE T == {k \in Nat : ~ \E f : SpellsUpTo(f, k)}
<1> SUFFICES ASSUME T # {} PROVE FALSE
  OBVIOUS
<1>1. PICK k \in T : \A i \in T : k <= i
  BY LeastNumber
<1>2. k \in Nat /\ k \notin {} /\ \A m \in 0 .. k - 1 : m \in Nat
  OBVIOUS
<1>3. PICK h : k # 0 => SpellsUpTo(h, k - 1)
  <2>1. CASE k = 0
    BY <2>1
  <2>2. CASE k # 0
    <3>1. k - 1 \in T => k <= k - 1
      BY <1>1
    <3>2. k - 1 \in Nat /\ ~(k <= k - 1)
      BY <1>2, <2>2
    <3> QED
      BY <3>1, <3>2
  <2> QED
    BY <2>1, <2>2
<1> DEFINE g == [m \in 0 .. k |-> IF m = k THEN DigitsFrom(k, h) ELSE h[m]]
<1>4. ASSUME NEW m \in 0 .. k PROVE g[m] = DigitsFrom(m, g)
  <2>1. DigitsFrom(m, g) = DigitsFrom(m, h)
    <3>1. CASE m < Base
      BY <3>1 DEF DigitsFrom
    <3>2. CASE ~(m < Base)
      <4>1. PICK q : q = m \div Base
        OBVIOUS
      <4>2. Base \in Nat \ {0, 1} /\ m \in Nat /\ Base <= m
        BY <1>2, <3>2, DigitsAssumption
      <4>3. q \in Nat /\ q < m
        BY <4>1, <4>2, LastDigit
      <4>4. q \in 0 .. k /\ q # k
        BY <1>2, <4>3
      <4>5. g[q] = h[q]
        BY <4>4
      <4> HIDE DEF g
      <4> QED
        BY <3>2, <4>1, <4>5 DEF DigitsFrom
    <3> QED
      BY <3>1, <3>2
  <2>2. CASE m = k
    BY <2>1, <2>2
  <2>3. CASE m # k
    <3>1. k # 0 /\ m \in 0 .. k - 1
      BY <1>2, <2>3
    <3>2. h[m] = DigitsFrom(m, h)
      BY <1>3, <3>1 DEF SpellsUpTo
    <3>3. g[m] = h[m]
      BY <2>3
    <3> HIDE DEF g
    <3> QED
      BY <2>1, <3>2, <3>3
  <2> QED
    BY <2>2, <2>3
<1>5. g = [m \in 0 .. k |-> g[m]]
  OBVIOUS
<1>6. SpellsUpTo(g, k)
  <2> HIDE DEF g
  <2> QED
    BY <1>4, <1>5 DEF SpellsUpTo
<1> QED
  BY <1>1, <1>6

\* The digits of a number spell it.
SpellsNumber(s, n) ==
  /\ s \in Seq(DOMAIN Digit) /\ s # <<>>
  /\ Number(s) = n

LEMMA DigitForProperties ==
  ASSUME NEW d \in 0 .. Base - 1
  PROVE  DigitFor(d) \in DOMAIN Digit /\ Digit[DigitFor(d)] = d
BY DigitsAssumption DEF DigitFor

LEMMA SpellUnsignedProperties ==
  ASSUME NEW n \in Nat
  PROVE  SpellsNumber(SpellUnsigned(n), n)
<1> DEFINE f == CHOOSE h : Spells(h, n)
<1>1. Spells(f, n)
  <2>1. PICK h : SpellsUpTo(h, n)
    BY SpellsExist
  <2>2. Spells(h, n)
    BY <2>1 DEF SpellsUpTo, Spells
  <2> QED
    BY <2>2
<1>2. SpellUnsigned(n) = f[n]
  BY SpellDef
<1> HIDE DEF f
<1>3. SpellsUpTo(f, n)
  BY <1>1 DEF Spells, SpellsUpTo
<1> DEFINE T == {m \in Nat : m <= n /\ ~SpellsNumber(f[m], m)}
<1>4. T = {}
  <2> SUFFICES ASSUME T # {} PROVE FALSE
    OBVIOUS
  <2>1. PICK m \in T : \A i \in T : m <= i
    BY LeastNumber
  <2>2. m \in 0 .. n /\ m \in Nat /\ ~SpellsNumber(f[m], m)
    OBVIOUS
  <2>3. f[m] = DigitsFrom(m, f)
    BY <1>3, <2>2 DEF SpellsUpTo
  <2>4. Base \in Nat \ {0, 1}
    BY DigitsAssumption
  <2>5. CASE m < Base
    <3>1. PICK d : d = DigitFor(m)
      OBVIOUS
    <3>2. d \in DOMAIN Digit /\ Digit[d] = m
      <4>1. m \in 0 .. Base - 1
        BY <2>2, <2>4, <2>5
      <4> QED
        BY <3>1, <4>1, DigitForProperties
    <3>3. f[m] = <<d>> /\ <<d>> = Append(<<>>, d) /\ <<>> \in Seq(DOMAIN Digit)
      BY <2>3, <2>5, <3>1 DEF DigitsFrom
    <3>4. Number(f[m]) = Shift(0, d)
      BY <3>2, <3>3, NumberAppended, NumberEmpty
    <3>5. Shift(0, d) = m
      BY <2>2, <2>4, <3>2 DEF Shift
    <3>6. f[m] \in Seq(DOMAIN Digit) /\ f[m] # <<>>
      BY <3>2, <3>3
    <3> QED
      BY <2>2, <3>4, <3>5, <3>6 DEF SpellsNumber
  <2>6. CASE ~(m < Base)
    <3>1. PICK q : q = m \div Base
      OBVIOUS
    <3>2. PICK r : r = m % Base
      OBVIOUS
    <3>3. q \in Nat /\ r \in 0 .. Base - 1 /\ Base * q + r = m /\ q < m
      <4>1. Base <= m
        BY <2>2, <2>4, <2>6
      <4> QED
        BY <2>2, <2>4, <3>1, <3>2, <4>1, LastDigit
    <3>4. PICK d : d = DigitFor(r)
      OBVIOUS
    <3>5. d \in DOMAIN Digit /\ Digit[d] = r
      BY <3>3, <3>4, DigitForProperties
    <3>6. SpellsNumber(f[q], q)
      <4>1. q <= n /\ ~(m <= q)
        BY <2>2, <3>3
      <4>2. q \notin T
        BY <2>1, <4>1
      <4> QED
        BY <3>3, <4>1, <4>2
    <3>7. f[m] = Append(f[q], d)
      BY <2>3, <2>6, <3>1, <3>2, <3>4 DEF DigitsFrom
    <3>8. PICK s \in Seq(DOMAIN Digit) : s = f[q] /\ Number(s) = q
      BY <3>6 DEF SpellsNumber
    <3>9. Number(f[m]) = Shift(q, d)
      BY <3>5, <3>7, <3>8, NumberAppended
    <3>10. Shift(q, d) = m
      BY <3>3, <3>5 DEF Shift
    <3>11. f[m] \in Seq(DOMAIN Digit) /\ f[m] # <<>>
      <4>1. Append(s, d) \in Seq(DOMAIN Digit) /\ Len(Append(s, d)) = Len(s) + 1 /\ Len(s) \in Nat
        BY <3>5, LenProperties, AppendProperties
      <4>2. Len(Append(s, d)) # 0
        BY <4>1
      <4> QED
        BY <3>7, <3>8, <4>1, <4>2, EmptySeq
    <3> QED
      BY <2>2, <3>9, <3>10, <3>11 DEF SpellsNumber
  <2> QED
    BY <2>5, <2>6
<1>5. n \notin T
  BY <1>4
<1>6. SpellsNumber(f[n], n)
  <2>1. n <= n
    OBVIOUS
  <2> QED
    BY <1>5, <2>1
<1> QED
  BY <1>2, <1>6

-----------------------------------------------------------------------------
(* Numbers in a line.                                                      *)

\* All that may be sent in one direction or the other.
Symbols == Bytes \cup DOMAIN Digit \cup {"+", "-", ":", "$", "*", "CR", "LF"}

NoReturn(s) == \A i \in 1 .. Len(s) : s[i] # "CR"

LEMMA ValueOfDef ==
  ASSUME NEW s
  PROVE  ValueOf(s) = IF Unsigned(s) = s THEN Number(Unsigned(s)) ELSE -Number(Unsigned(s))
BY DEF ValueOf, Number

\* A number is read as what was written, and nothing in it ends a line.
Spelled(s, n) ==
  /\ s \in Seq(Symbols) /\ NoReturn(s) /\ OneLine(s)
  /\ ValueOf(s) = n
  /\ n \in Integral => IsInteger(s)

LEMMA SpellProperties ==
  ASSUME NEW n \in Int
  PROVE  Spelled(Spell(n), n)
<1> DEFINE m == IF n < 0 THEN -n ELSE n
<1>1. m \in Nat
  OBVIOUS
<1>2. PICK t \in Seq(DOMAIN Digit) : t = SpellUnsigned(m) /\ t # <<>> /\ Number(t) = m
  BY <1>1, SpellUnsignedProperties DEF SpellsNumber
<1>3. /\ DOMAIN t = 1 .. Len(t) /\ Len(t) \in Nat /\ t \in Seq(Symbols)
      /\ \A i \in 1 .. Len(t) : t[i] \in DOMAIN Digit
  <2>1. DOMAIN Digit \subseteq Symbols
    BY DEF Symbols
  <2> QED
    BY <2>1, LenProperties, ElementOfSeq, SeqMonotonic
<1>4. \A i \in 1 .. Len(t) : t[i] \notin {"-", "CR", "LF"}
  BY <1>3, DigitsAssumption
<1>5. Len(t) # 0
  BY <1>2, EmptySeq
<1>6. CASE n < 0
  <2>1. PICK s : s = <<"-">> \o t
    OBVIOUS
  <2>2. Spell(n) = s /\ m = -n
    BY <1>2, <1>6, <2>1 DEF Spell
  <2>3. <<"-">> \in Seq(Symbols) /\ Len(<<"-">>) = 1 /\ <<"-">>[1] = "-"
    BY DEF Symbols
  <2>4. /\ s \in Seq(Symbols) /\ Len(s) = 1 + Len(t)
        /\ \A i \in 1 .. 1 + Len(t) : s[i] = IF i <= 1 THEN <<"-">>[i] ELSE t[i - 1]
    BY <1>3, <2>1, <2>3, ConcatProperties
  <2>5. s[1] = "-" /\ \A i \in 2 .. Len(s) : i - 1 \in 1 .. Len(t) /\ s[i] = t[i - 1]
    BY <1>3, <2>3, <2>4
  <2>6. s # <<>> /\ Head(s) = "-" /\ Tail(s) = t
    <3>1. Len(s) # 0
      BY <1>3, <2>4
    <3>2. s # <<>>
      BY <2>4, <3>1
    <3>3. Head(s) = s[1] /\ Tail(s) \in Seq(Symbols) /\ Len(Tail(s)) = Len(s) - 1
      BY <2>4, <3>2, HeadTailProperties
    <3>4. ASSUME NEW i \in 1 .. Len(t) PROVE Tail(s)[i] = t[i]
      <4>1. i + 1 \in 2 .. Len(s) /\ (i + 1) - 1 = i /\ i \in 1 .. Len(Tail(s))
        BY <1>3, <2>4, <3>3
      <4>2. Tail(s)[i] = s[i + 1]
        BY <2>4, <3>2, <4>1, HeadTailProperties
      <4> QED
        BY <2>5, <4>1, <4>2
    <3>5. Len(Tail(s)) = Len(t)
      BY <1>3, <2>4, <3>3
    <3>6. Tail(s) = t
      BY <1>3, <3>3, <3>4, <3>5, SeqEqual
    <3> QED
      BY <2>5, <3>2, <3>3, <3>6
  <2>7. Unsigned(s) = t /\ t # s
    <3>1. t # s
      BY <1>3, <2>4
    <3> QED
      BY <2>6, <3>1 DEF Unsigned
  <2>8. ValueOf(s) = -m
    BY <1>2, <2>7, ValueOfDef
  <2>9. ValueOf(s) = n
    BY <2>2, <2>8
  <2>10. \A i \in 1 .. Len(s) : s[i] \notin {"CR", "LF"}
    <3>1. ASSUME NEW i \in 1 .. Len(s) PROVE s[i] \notin {"CR", "LF"}
      <4>1. CASE i = 1
        BY <2>5, <4>1
      <4>2. CASE i # 1
        <5>1. i \in 2 .. Len(s)
          BY <1>3, <2>4, <4>2
        <5> QED
          BY <1>4, <2>5, <5>1
      <4> QED
        BY <4>1, <4>2
    <3> QED
      BY <3>1
  <2>11. DOMAIN s = 1 .. Len(s)
    BY <2>4, LenProperties
  <2>12. NoReturn(s) /\ OneLine(s)
    BY <2>10, <2>11 DEF NoReturn, OneLine
  <2>13. n \in Integral => IsInteger(s)
    BY <1>2, <1>3, <2>7, <2>9 DEF IsInteger
  <2> QED
    BY <2>2, <2>4, <2>9, <2>12, <2>13 DEF Spelled
<1>7. CASE ~(n < 0)
  <2>1. Spell(n) = t /\ m = n
    BY <1>2, <1>7 DEF Spell
  <2>2. Head(t) = t[1] /\ t[1] # "-"
    <3>1. 1 \in 1 .. Len(t)
      BY <1>3, <1>5
    <3> QED
      BY <1>2, <1>4, <3>1, HeadTailProperties
  <2>3. Unsigned(t) = t
    BY <2>2 DEF Unsigned
  <2>4. ValueOf(t) = n
    BY <1>2, <2>1, <2>3, ValueOfDef
  <2>5. NoReturn(t) /\ OneLine(t)
    BY <1>3, <1>4 DEF NoReturn, OneLine
  <2>6. n \in Integral => IsInteger(t)
    BY <1>2, <1>3, <2>3, <2>4 DEF IsInteger
  <2> QED
    BY <1>3, <2>1, <2>4, <2>5, <2>6 DEF Spelled
<1> QED
  BY <1>6, <1>7

\* So two numbers are never written the same way.
LEMMA SpellDiffers ==
  ASSUME NEW m \in Int, NEW n \in Int, Spell(m) = Spell(n)
  PROVE  m = n
<1>1. Spelled(Spell(m), m) /\ Spelled(Spell(n), n)
  BY SpellProperties
<1> QED
  BY <1>1 DEF Spelled

-----------------------------------------------------------------------------
(* Lines with something behind them.                                       *)

\* The bytes e are p, the line, its end, and the rest.
Framed(e, p, line1, rest) ==
  /\ Len(e) = Len(line1) + 3 + Len(rest)
  /\ e[1] = p
  /\ \A i \in 1 .. Len(line1) : e[1 + i] = line1[i]
  /\ e[Len(line1) + 2] = "CR" /\ e[Len(line1) + 3] = "LF"
  /\ \A j \in 1 .. Len(rest) : e[Len(line1) + 3 + j] = rest[j]

LEMMA CrlfIs == Crlf \in Seq(Symbols) /\ Len(Crlf) = 2 /\ Crlf[1] = "CR" /\ Crlf[2] = "LF"
BY DEF Crlf, Symbols

\* Where the elements of a concatenation are.
Concatenates(u, s, t) ==
  /\ Len(u) = Len(s) + Len(t)
  /\ \A i \in 1 .. Len(s) : u[i] = s[i]
  /\ \A i \in 1 .. Len(t) : u[Len(s) + i] = t[i]

LEMMA JoinIndex ==
  ASSUME NEW S, NEW s \in Seq(S), NEW t \in Seq(S)
  PROVE  s \o t \in Seq(S) /\ Concatenates(s \o t, s, t)
BY JoinProperties DEF Join, Joined, Concatenates

LEMMA FrameIs ==
  ASSUME NEW p \in Symbols, NEW l \in Seq(Symbols), NEW r \in Seq(Symbols),
         NEW e, e = <<p>> \o l \o Crlf \o r
  PROVE  e \in Seq(Symbols) /\ Framed(e, p, l, r)
<1>1. <<p>> \in Seq(Symbols) /\ Len(<<p>>) = 1 /\ <<p>>[1] = p
  OBVIOUS
<1>2. PICK x : x = <<p>> \o l
  OBVIOUS
<1>3. PICK y : y = x \o Crlf
  OBVIOUS
<1>4. PICK n \in Nat : n = Len(l)
  BY LenProperties
<1>5. /\ x \in Seq(Symbols) /\ Len(x) = 1 + n /\ x[1] = p
      /\ \A i \in 1 .. n : x[1 + i] = l[i]
  <2>1. /\ x \in Seq(Symbols) /\ Len(x) = 1 + n
        /\ \A i \in 1 .. 1 : x[i] = <<p>>[i]
        /\ \A i \in 1 .. n : x[1 + i] = l[i]
    <3>1. x \in Seq(Symbols) /\ Concatenates(x, <<p>>, l)
      BY <1>1, <1>2, JoinIndex
    <3> QED
      BY <1>1, <1>4, <3>1 DEF Concatenates
  <2>2. 1 \in 1 .. 1
    OBVIOUS
  <2> QED
    BY <1>1, <2>1, <2>2
<1>6. /\ y \in Seq(Symbols) /\ Len(y) = n + 3
      /\ \A i \in 1 .. 1 + n : y[i] = x[i]
      /\ y[n + 2] = "CR" /\ y[n + 3] = "LF"
  <2>1. /\ y \in Seq(Symbols) /\ Len(y) = (1 + n) + 2
        /\ \A i \in 1 .. 1 + n : y[i] = x[i]
        /\ \A i \in 1 .. 2 : y[(1 + n) + i] = Crlf[i]
    <3>1. x \in Seq(Symbols) /\ Crlf \in Seq(Symbols)
      BY <1>5, CrlfIs
    <3>2. y \in Seq(Symbols) /\ Concatenates(y, x, Crlf)
      BY <1>3, <3>1, JoinIndex
    <3> QED
      BY <1>5, <3>2, CrlfIs DEF Concatenates
  <2>2. 1 \in 1 .. 2 /\ 2 \in 1 .. 2 /\ (1 + n) + 1 = n + 2 /\ (1 + n) + 2 = n + 3
    OBVIOUS
  <2> QED
    BY <2>1, <2>2, CrlfIs
<1>7. /\ e \in Seq(Symbols) /\ Len(e) = n + 3 + Len(r)
      /\ \A i \in 1 .. n + 3 : e[i] = y[i]
      /\ \A i \in 1 .. Len(r) : e[n + 3 + i] = r[i]
  <2>1. e = y \o r
    BY <1>2, <1>3
  <2>2. y \in Seq(Symbols)
    BY <1>6
  <2>3. e \in Seq(Symbols) /\ Concatenates(e, y, r)
    BY <2>1, <2>2, JoinIndex
  <2> QED
    BY <1>6, <2>3 DEF Concatenates
<1>8. e[1] = p /\ e[n + 2] = "CR" /\ e[n + 3] = "LF" /\ \A i \in 1 .. n : e[1 + i] = l[i]
  <2>1. /\ 1 \in 1 .. n + 3 /\ n + 2 \in 1 .. n + 3 /\ n + 3 \in 1 .. n + 3 /\ 1 \in 1 .. 1 + n
        /\ \A i \in 1 .. n : 1 + i \in 1 .. n + 3 /\ 1 + i \in 1 .. 1 + n
    OBVIOUS
  <2> QED
    BY <1>5, <1>6, <1>7, <2>1
<1> QED
  BY <1>4, <1>7, <1>8 DEF Framed

\* As far as both go they are the same.
Agrees(e, f) == \A i \in 1 .. Len(e) : i <= Len(f) => e[i] = f[i]

LEMMA AgreesBack ==
  ASSUME NEW S, NEW e \in Seq(S), NEW f \in Seq(S), Agrees(e, f)
  PROVE  Agrees(f, e)
<1>1. Len(e) \in Nat /\ Len(f) \in Nat
  BY LenProperties
<1> QED
  BY <1>1 DEF Agrees

\* No line is the beginning of another, each with its end.
LEMMA LineNotLonger ==
  ASSUME NEW l \in Seq(Symbols), NEW k \in Seq(Symbols), NEW r \in Seq(Symbols), NEW s \in Seq(Symbols),
         NEW p, NEW q, NEW e, NEW f, Framed(e, p, l, r), Framed(f, q, k, s),
         NoReturn(k), Agrees(e, f)
  PROVE  ~(Len(l) < Len(k))
<1> SUFFICES ASSUME Len(l) < Len(k) PROVE FALSE
  OBVIOUS
<1>1. PICK m \in Nat : m = Len(l)
  BY LenProperties
<1>2. PICK n \in Nat : n = Len(k)
  BY LenProperties
<1>3. Len(e) = m + 3 + Len(r) /\ Len(f) = n + 3 + Len(s) /\ Len(r) \in Nat /\ Len(s) \in Nat
  BY <1>1, <1>2, LenProperties DEF Framed
<1>4. m < n /\ m + 1 \in 1 .. n /\ 1 + (m + 1) = m + 2 /\ m + 2 \in 1 .. Len(e) /\ m + 2 <= Len(f)
  BY <1>1, <1>2, <1>3
<1>5. e[m + 2] = "CR"
  BY <1>1 DEF Framed
<1>6. f[1 + (m + 1)] = k[m + 1]
  BY <1>2, <1>4 DEF Framed
<1>7. k[m + 1] # "CR"
  BY <1>2, <1>4 DEF NoReturn
<1>8. e[m + 2] = f[m + 2]
  BY <1>4 DEF Agrees
<1> QED
  BY <1>4, <1>5, <1>6, <1>7, <1>8

LEMMA FramesAgree ==
  ASSUME NEW l \in Seq(Symbols), NEW k \in Seq(Symbols), NEW r \in Seq(Symbols), NEW s \in Seq(Symbols),
         NEW p, NEW q, NEW e \in Seq(Symbols), NEW f \in Seq(Symbols),
         Framed(e, p, l, r), Framed(f, q, k, s),
         NoReturn(l), NoReturn(k), Agrees(e, f)
  PROVE  l = k /\ Agrees(r, s)
<1>1. Agrees(f, e)
  BY AgreesBack
<1>2. PICK m \in Nat : m = Len(l)
  BY LenProperties
<1>3. m = Len(k)
  <2>1. ~(Len(l) < Len(k)) /\ ~(Len(k) < Len(l))
    BY <1>1, LineNotLonger
  <2>2. Len(k) \in Nat
    BY LenProperties
  <2> QED
    BY <1>2, <2>1, <2>2
<1>4. Len(e) = m + 3 + Len(r) /\ Len(f) = m + 3 + Len(s) /\ Len(r) \in Nat /\ Len(s) \in Nat
  BY <1>2, <1>3, LenProperties DEF Framed
<1>5. ASSUME NEW i \in 1 .. m PROVE l[i] = k[i]
  <2>1. 1 + i \in 1 .. Len(e) /\ 1 + i <= Len(f)
    BY <1>4
  <2>2. e[1 + i] = f[1 + i]
    BY <2>1 DEF Agrees
  <2>3. e[1 + i] = l[i] /\ f[1 + i] = k[i]
    BY <1>2, <1>3 DEF Framed
  <2> QED
    BY <2>2, <2>3
<1>6. l = k
  BY <1>2, <1>3, <1>5, SeqEqual
<1>7. ASSUME NEW j \in 1 .. Len(r), j <= Len(s) PROVE r[j] = s[j]
  <2>1. m + 3 + j \in 1 .. Len(e) /\ m + 3 + j <= Len(f) /\ j \in 1 .. Len(s)
    BY <1>4, <1>7
  <2>2. e[m + 3 + j] = f[m + 3 + j]
    BY <2>1 DEF Agrees
  <2>3. e[m + 3 + j] = r[j]
    BY <1>2 DEF Framed
  <2>4. f[m + 3 + j] = s[j]
    BY <1>3, <2>1 DEF Framed
  <2> QED
    BY <2>2, <2>3, <2>4
<1> QED
  BY <1>6, <1>7 DEF Agrees

-----------------------------------------------------------------------------
(* Requests.                                                               *)

LEMMA BulkIs ==
  ASSUME NEW a \in Seq(Symbols)
  PROVE  /\ Bulk(a) \in Seq(Symbols) /\ a \o Crlf \in Seq(Symbols)
         /\ Framed(Bulk(a), "$", Spell(Len(a)), a \o Crlf)
         /\ Spelled(Spell(Len(a)), Len(a))
<1>1. Len(a) \in Int
  BY LenProperties
<1>2. PICK l : l = Spell(Len(a))
  OBVIOUS
<1>3. Spelled(l, Len(a))
  BY <1>1, <1>2, SpellProperties
<1>4. l \in Seq(Symbols)
  BY <1>3 DEF Spelled
<1>5. "$" \in Symbols
  BY DEF Symbols
<1>6. <<"$">> \in Seq(Symbols) /\ Crlf \in Seq(Symbols)
  BY <1>5, CrlfIs
<1>7. a \o Crlf \in Seq(Symbols)
  BY <1>6, ConcatProperties
<1>8. PICK x : x = <<"$">> \o l \o Crlf
  OBVIOUS
<1>9. x \in Seq(Symbols)
  BY <1>4, <1>6, <1>8, ConcatProperties
<1>10. Bulk(a) = (x \o a) \o Crlf
  BY <1>2, <1>8 DEF Bulk
<1>11. Bulk(a) = x \o (a \o Crlf)
  BY <1>6, <1>9, <1>10, ConcatAssociative
<1>12. Bulk(a) = <<"$">> \o l \o Crlf \o (a \o Crlf)
  BY <1>8, <1>11
<1>13. Bulk(a) \in Seq(Symbols) /\ Framed(Bulk(a), "$", l, a \o Crlf)
  BY <1>4, <1>5, <1>7, <1>12, FrameIs
<1> QED
  BY <1>2, <1>3, <1>7, <1>13

\* A string with its size is not the beginning of another.
LEMMA BulksAgree ==
  ASSUME NEW a \in Seq(Symbols), NEW b \in Seq(Symbols), Agrees(Bulk(a), Bulk(b))
  PROVE  a = b
<1>1. PICK k \in Seq(Symbols) : k = Spell(Len(a)) /\ NoReturn(k) /\ Framed(Bulk(a), "$", k, a \o Crlf)
  BY BulkIs DEF Spelled
<1>2. PICK l \in Seq(Symbols) : l = Spell(Len(b)) /\ NoReturn(l) /\ Framed(Bulk(b), "$", l, b \o Crlf)
  BY BulkIs DEF Spelled
<1>3. /\ Bulk(a) \in Seq(Symbols) /\ Bulk(b) \in Seq(Symbols)
      /\ a \o Crlf \in Seq(Symbols) /\ b \o Crlf \in Seq(Symbols)
  BY BulkIs
<1>4. k = l /\ Agrees(a \o Crlf, b \o Crlf)
  BY <1>1, <1>2, <1>3, FramesAgree
<1>5. PICK n \in Nat : n = Len(a)
  BY LenProperties
<1>6. n = Len(b)
  <2>1. Len(a) \in Int /\ Len(b) \in Int /\ Spell(Len(a)) = Spell(Len(b))
    BY <1>1, <1>2, <1>4, LenProperties
  <2> QED
    BY <1>5, <2>1, SpellDiffers
<1>7. Concatenates(a \o Crlf, a, Crlf) /\ Concatenates(b \o Crlf, b, Crlf)
  BY CrlfIs, JoinIndex
<1>8. ASSUME NEW i \in 1 .. n PROVE a[i] = b[i]
  <2>1. i \in 1 .. Len(a \o Crlf) /\ i <= Len(b \o Crlf)
    BY <1>5, <1>6, <1>7, CrlfIs DEF Concatenates
  <2>2. (a \o Crlf)[i] = (b \o Crlf)[i]
    BY <1>4, <2>1 DEF Agrees
  <2> QED
    BY <1>5, <1>6, <1>7, <2>2 DEF Concatenates
<1> QED
  BY <1>5, <1>6, <1>8, SeqEqual

\* Of what agrees the beginnings agree, and behind the same beginning the rest.
LEMMA JoinsAgreeing ==
  ASSUME NEW S, NEW a \in Seq(S), NEW b \in Seq(S), NEW u \in Seq(S), NEW v \in Seq(S),
         Agrees(a \o u, b \o v)
  PROVE  Agrees(a, b) /\ (a = b => Agrees(u, v))
<1>1. PICK x : x = a \o u
  OBVIOUS
<1>2. PICK y : y = b \o v
  OBVIOUS
<1>3. Concatenates(x, a, u) /\ Concatenates(y, b, v) /\ Agrees(x, y)
  BY <1>1, <1>2, JoinIndex
<1>4. Len(a) \in Nat /\ Len(b) \in Nat /\ Len(u) \in Nat /\ Len(v) \in Nat
  BY LenProperties
<1>5. Len(x) = Len(a) + Len(u) /\ Len(y) = Len(b) + Len(v)
  BY <1>3 DEF Concatenates
<1>6. ASSUME NEW i \in 1 .. Len(a), i <= Len(b) PROVE a[i] = b[i]
  <2>1. i \in 1 .. Len(x) /\ i <= Len(y) /\ i \in 1 .. Len(b)
    BY <1>4, <1>5, <1>6
  <2>2. x[i] = y[i]
    BY <1>3, <2>1 DEF Agrees
  <2>3. x[i] = a[i] /\ y[i] = b[i]
    BY <1>3, <2>1 DEF Concatenates
  <2> QED
    BY <2>2, <2>3
<1>7. ASSUME a = b, NEW i \in 1 .. Len(u), i <= Len(v) PROVE u[i] = v[i]
  <2>1. Len(a) + i \in 1 .. Len(x) /\ Len(a) + i <= Len(y) /\ i \in 1 .. Len(v) /\ Len(a) = Len(b)
    BY <1>4, <1>5, <1>7
  <2>2. x[Len(a) + i] = y[Len(a) + i]
    BY <1>3, <2>1 DEF Agrees
  <2>3. x[Len(a) + i] = u[i] /\ y[Len(b) + i] = v[i]
    BY <1>3, <2>1 DEF Concatenates
  <2> QED
    BY <2>1, <2>2, <2>3
<1> QED
  BY <1>6, <1>7 DEF Agrees

\* As many parts, of which none is the beginning of another, are the same if
\* one sequence of them is the beginning of the other.
LEMMA PartsAgree ==
  ASSUME NEW S, NEW P, P \subseteq Seq(S), \A x, y \in P : Agrees(x, y) => x = y,
         NEW n \in Nat, NEW s \in Seq(P), NEW t \in Seq(P), Len(s) = n, Len(t) = n,
         Agrees(FlattenSeq(s), FlattenSeq(t))
  PROVE  s = t
<1> DEFINE Bad(m) == \E x, y \in Seq(P) : /\ Len(x) = m /\ Len(y) = m /\ x # y
                                         /\ Agrees(FlattenSeq(x), FlattenSeq(y))
           T == {m \in Nat : Bad(m)}
<1>1. T = {}
  <2> SUFFICES ASSUME T # {} PROVE FALSE
    OBVIOUS
  <2>1. PICK m \in T : \A k \in T : m <= k
    BY LeastNumber
  <2>2. m \in Nat
    BY <2>1
  <2>3. PICK x \in Seq(P), y \in Seq(P) : /\ Len(x) = m /\ Len(y) = m /\ x # y
                                         /\ Agrees(FlattenSeq(x), FlattenSeq(y))
    BY <2>1
  <2>4. \A k \in Nat : k < m => ~Bad(k)
    BY <2>1
  <2> HIDE DEF T, Bad
  <2>5. m # 0
    <3>1. m = 0 => x = <<>> /\ y = <<>>
      BY <2>3, EmptySeq
    <3> QED
      BY <2>3, <3>1
  <2>6. x # <<>> /\ y # <<>>
    BY <2>3, <2>5
  <2>7. /\ Head(x) \in P /\ Tail(x) \in Seq(P) /\ Len(Tail(x)) = m - 1
        /\ Head(y) \in P /\ Tail(y) \in Seq(P) /\ Len(Tail(y)) = m - 1
    BY <2>3, <2>6, HeadTailProperties
  <2>8. /\ x \in Seq(Seq(S)) /\ y \in Seq(Seq(S)) /\ Tail(x) \in Seq(Seq(S)) /\ Tail(y) \in Seq(Seq(S))
    BY <2>7, SeqMonotonic
  <2>9. FlattenSeq(x) = Head(x) \o FlattenSeq(Tail(x)) /\ FlattenSeq(y) = Head(y) \o FlattenSeq(Tail(y))
    BY <2>6, <2>8, FlattenHead
  <2>10. PICK u \in Seq(S) : u = FlattenSeq(Tail(x))
    BY <2>8, FlattenType
  <2>11. PICK v \in Seq(S) : v = FlattenSeq(Tail(y))
    BY <2>8, FlattenType
  <2>12. PICK a \in Seq(S) : a = Head(x) /\ a \in P
    BY <2>7
  <2>13. PICK b \in Seq(S) : b = Head(y) /\ b \in P
    BY <2>7
  <2>14. Agrees(a \o u, b \o v)
    BY <2>3, <2>9, <2>10, <2>11, <2>12, <2>13
  <2>15. Agrees(a, b) /\ (a = b => Agrees(u, v))
    BY <2>14, JoinsAgreeing
  <2>16. a = b /\ Agrees(u, v)
    BY <2>12, <2>13, <2>15
  <2>17. Tail(x) = Tail(y)
    <3>1. m - 1 \in Nat /\ m - 1 < m
      BY <2>2, <2>5
    <3>2. ~Bad(m - 1)
      BY <2>4, <3>1
    <3> QED
      BY <2>7, <2>10, <2>11, <2>16, <3>2 DEF Bad
  <2>18. \A i \in 1 .. m : x[i] = y[i]
    <3> SUFFICES ASSUME NEW i \in 1 .. m PROVE x[i] = y[i]
      OBVIOUS
    <3>1. CASE i = 1
      <4>1. Head(x) = x[1] /\ Head(y) = y[1]
        OBVIOUS
      <4> QED
        BY <2>12, <2>13, <2>16, <3>1, <4>1
    <3>2. CASE i # 1
      <4>1. i - 1 \in 1 .. m - 1 /\ (i - 1) + 1 = i
        BY <2>2, <3>2
      <4>2. Tail(x)[i - 1] = x[(i - 1) + 1]
        BY <2>3, <2>6, <2>7, <4>1, HeadTailProperties
      <4>3. Tail(y)[i - 1] = y[(i - 1) + 1]
        BY <2>3, <2>6, <2>7, <4>1, HeadTailProperties
      <4> QED
        BY <2>17, <4>1, <4>2, <4>3
    <3> QED
      BY <3>1, <3>2
  <2>19. x = y
    BY <2>3, <2>18, SeqEqual
  <2> QED
    BY <2>3, <2>19
<1>2. n \notin T
  BY <1>1
<1>3. ~Bad(n)
  <2> HIDE DEF Bad
  <2> QED
    BY <1>2
<1> QED
  BY <1>3

Bulks == {Bulk(a) : a \in Seq(Symbols)}

\* A request is a frame, too.
LEMMA RequestIs ==
  ASSUME NEW r \in Seq(Seq(Symbols)), NEW parts1, parts1 = [i \in DOMAIN r |-> Bulk(r[i])]
  PROVE  /\ EncodeRequest(r) \in Seq(Symbols)
         /\ parts1 \in Seq(Bulks) /\ Len(parts1) = Len(r) /\ \A i \in 1 .. Len(r) : parts1[i] = Bulk(r[i])
         /\ FlattenSeq(parts1) \in Seq(Symbols)
         /\ Framed(EncodeRequest(r), "*", Spell(Len(r)), FlattenSeq(parts1))
         /\ Spelled(Spell(Len(r)), Len(r))
<1>1. Len(r) \in Nat /\ DOMAIN r = 1 .. Len(r) /\ \A i \in 1 .. Len(r) : r[i] \in Seq(Symbols)
  BY LenProperties, ElementOfSeq
<1>2. \A i \in 1 .. Len(r) : Bulk(r[i]) \in Bulks
  BY <1>1 DEF Bulks
<1>3. /\ parts1 \in Seq(Bulks) /\ Len(parts1) = Len(r) /\ \A i \in 1 .. Len(r) : parts1[i] = Bulk(r[i])
  BY <1>1, <1>2
<1>4. Bulks \subseteq Seq(Symbols)
  BY BulkIs DEF Bulks
<1>5. parts1 \in Seq(Seq(Symbols))
  BY <1>3, <1>4, SeqMonotonic
<1>6. FlattenSeq(parts1) \in Seq(Symbols)
  BY <1>5, FlattenType
<1>7. PICK l : l = Spell(Len(r))
  OBVIOUS
<1>8. Spelled(l, Len(r))
  BY <1>1, <1>7, SpellProperties
<1>9. l \in Seq(Symbols) /\ "*" \in Symbols
  BY <1>8 DEF Spelled, Symbols
<1>10. EncodeRequest(r) = <<"*">> \o l \o Crlf \o FlattenSeq(parts1)
  BY <1>7 DEF EncodeRequest
<1>11. EncodeRequest(r) \in Seq(Symbols) /\ Framed(EncodeRequest(r), "*", l, FlattenSeq(parts1))
  BY <1>6, <1>9, <1>10, FrameIs
<1> QED
  BY <1>3, <1>6, <1>7, <1>8, <1>11

\* A request is not the beginning of another.
LEMMA RequestsAgree ==
  ASSUME NEW r \in Seq(Seq(Symbols)), NEW s \in Seq(Seq(Symbols)),
         Agrees(EncodeRequest(r), EncodeRequest(s))
  PROVE  r = s
<1>1. PICK x : x = [i \in DOMAIN r |-> Bulk(r[i])]
  OBVIOUS
<1>2. PICK y : y = [i \in DOMAIN s |-> Bulk(s[i])]
  OBVIOUS
<1>3. PICK k : k = Spell(Len(r))
  OBVIOUS
<1>4. PICK l : l = Spell(Len(s))
  OBVIOUS
<1>5. /\ EncodeRequest(r) \in Seq(Symbols) /\ FlattenSeq(x) \in Seq(Symbols)
      /\ Framed(EncodeRequest(r), "*", k, FlattenSeq(x)) /\ Spelled(k, Len(r))
      /\ x \in Seq(Bulks) /\ Len(x) = Len(r) /\ \A i \in 1 .. Len(r) : x[i] = Bulk(r[i])
  BY <1>1, <1>3, RequestIs
<1>6. /\ EncodeRequest(s) \in Seq(Symbols) /\ FlattenSeq(y) \in Seq(Symbols)
      /\ Framed(EncodeRequest(s), "*", l, FlattenSeq(y)) /\ Spelled(l, Len(s))
      /\ y \in Seq(Bulks) /\ Len(y) = Len(s) /\ \A i \in 1 .. Len(s) : y[i] = Bulk(s[i])
  BY <1>2, <1>4, RequestIs
<1>7. k \in Seq(Symbols) /\ NoReturn(k) /\ l \in Seq(Symbols) /\ NoReturn(l)
  BY <1>5, <1>6 DEF Spelled
<1>8. k = l /\ Agrees(FlattenSeq(x), FlattenSeq(y))
  BY <1>5, <1>6, <1>7, FramesAgree
<1>9. Len(r) = Len(s) /\ Len(r) \in Nat
  BY <1>5, <1>6, <1>8, LenProperties DEF Spelled
<1>10. \A p, q \in Bulks : Agrees(p, q) => p = q
  BY BulksAgree DEF Bulks
<1>11. Bulks \subseteq Seq(Symbols)
  BY BulkIs DEF Bulks
<1>12. x = y
  BY <1>5, <1>6, <1>8, <1>9, <1>10, <1>11, PartsAgree
<1>13. ASSUME NEW i \in 1 .. Len(r) PROVE r[i] = s[i]
  <2>1. Bulk(r[i]) = Bulk(s[i])
    BY <1>5, <1>6, <1>9, <1>12
  <2>2. Agrees(Bulk(r[i]), Bulk(s[i]))
    BY <2>1 DEF Agrees
  <2>3. r[i] \in Seq(Symbols) /\ s[i] \in Seq(Symbols)
    BY <1>9, ElementOfSeq
  <2> QED
    BY <2>2, <2>3, BulksAgree
<1> QED
  BY <1>9, <1>13, SeqEqual

LEMMA RequestsAreStrings == Requests \subseteq Seq(Seq(Symbols))
<1>1. Seq(Bytes) \subseteq Seq(Symbols)
  <2>1. Bytes \subseteq Symbols
    BY DEF Symbols
  <2> QED
    BY <2>1, SeqMonotonic
<1>2. \A r \in Requests : r \in Seq(Seq(Symbols))
  BY <1>1, RequestsAssumption, SeqMonotonic
<1> QED
  BY <1>2

-----------------------------------------------------------------------------
(* Sending.                                                                *)

\* What has been sent is the beginning of the request, and all of it before
\* the reply is waited for.
Sending ==
  LET request == EncodeRequest(arguments) IN
  /\ place = "write" => /\ arguments \in Requests
                        /\ \E n \in Nat : /\ n < Len(request) /\ Len(wire) = n
                                          /\ wire = SubSeq(request, 1, n)
  /\ place = "prefix" => arguments \in Requests /\ wire = request
  /\ arguments \in Requests \cup {<<>>}

LEMMA InitSending == Init => Sending
<1> SUFFICES ASSUME Init PROVE Sending
  OBVIOUS
<1>1. arguments \in Requests /\ wire = <<>> /\ place = "write"
  BY Zenon DEF Init
<1>2. arguments \in Seq(Seq(Symbols))
  BY <1>1, RequestsAreStrings
<1>3. PICK e \in Seq(Symbols) : e = EncodeRequest(arguments) /\ e[1] = "*" /\ \E l, r : Framed(e, "*", l, r)
                               /\ l \in Seq(Symbols) /\ r \in Seq(Symbols)
  <2>1. PICK x : x = [i \in DOMAIN arguments |-> Bulk(arguments[i])]
    OBVIOUS
  <2>2. PICK l : l = Spell(Len(arguments))
    OBVIOUS
  <2>3. PICK r : r = FlattenSeq(x)
    OBVIOUS
  <2>4. /\ EncodeRequest(arguments) \in Seq(Symbols) /\ r \in Seq(Symbols)
        /\ Framed(EncodeRequest(arguments), "*", l, r) /\ Spelled(l, Len(arguments))
    BY <1>2, <2>1, <2>2, <2>3, RequestIs
  <2>5. l \in Seq(Symbols)
    BY <2>4 DEF Spelled
  <2>6. EncodeRequest(arguments)[1] = "*"
    BY <2>4 DEF Framed
  <2> QED
    BY <2>4, <2>5, <2>6
<1>4. 0 < Len(e)
  <2>1. PICK l \in Seq(Symbols), r \in Seq(Symbols) : Framed(e, "*", l, r)
    BY <1>3
  <2>2. Len(e) = Len(l) + 3 + Len(r) /\ Len(l) \in Nat /\ Len(r) \in Nat
    BY <2>1, LenProperties DEF Framed
  <2> QED
    BY <2>2
<1>5. Len(wire) = 0 /\ wire = SubSeq(e, 1, 0)
  BY <1>1, SubSeqEmpty
<1> QED
  BY <1>1, <1>3, <1>4, <1>5 DEF Sending

LEMMA WriteSending ==
  ASSUME Sending, WriteSome
  PROVE  Sending'
<1>1. PICK e : e = EncodeRequest(arguments)
  OBVIOUS
<1>2. place = "write" /\ arguments \in Requests /\ arguments' = arguments
  BY DEF WriteSome, Sending
<1>3. PICK k \in Nat : k < Len(e) /\ Len(wire) = k /\ wire = SubSeq(e, 1, k)
  BY <1>1, <1>2 DEF Sending
<1>4. PICK n \in 1 .. Len(e) - k : /\ wire' = wire \o SubSeq(e, k + 1, k + n)
                                  /\ place' = IF n = Len(e) - k THEN "prefix" ELSE "write"
  BY <1>1, <1>3 DEF WriteSome
<1>5. e \in Seq(Symbols) /\ Len(e) \in Nat
  <2>1. arguments \in Seq(Seq(Symbols))
    BY <1>2, RequestsAreStrings
  <2>2. e \in Seq(Symbols)
    BY <1>1, <2>1, RequestIs
  <2> QED
    BY <2>2, LenProperties
<1>6. PICK m \in Nat : m = k + n /\ m <= Len(e) /\ k <= m
  BY <1>3, <1>4, <1>5
<1>7. wire' = SubSeq(e, 1, m)
  <2>1. 1 \in 1 .. Len(e) + 1 /\ k \in 1 - 1 .. Len(e) /\ m \in k .. Len(e)
    BY <1>3, <1>5, <1>6
  <2>2. SubSeq(e, 1, k) \o SubSeq(e, k + 1, m) = SubSeq(e, 1, m)
    BY <1>5, <2>1, ConcatAdjacentSubSeq
  <2> QED
    BY <1>3, <1>4, <1>6, <2>2
<1>8. Len(wire') = m
  BY <1>5, <1>6, <1>7, SplitJoin
<1>9. CASE n = Len(e) - k
  <2>1. m = Len(e) /\ place' = "prefix"
    BY <1>3, <1>4, <1>5, <1>6, <1>9
  <2>2. wire' = e
    BY <1>5, <1>7, <2>1, SubSeqFull
  <2> QED
    BY <1>1, <1>2, <2>1, <2>2 DEF Sending
<1>10. CASE n # Len(e) - k
  <2>1. m < Len(e) /\ place' = "write"
    BY <1>3, <1>4, <1>5, <1>6, <1>10
  <2> QED
    BY <1>1, <1>2, <1>6, <1>7, <1>8, <2>1 DEF Sending
<1> QED
  BY <1>9, <1>10

\* Then nobody can take it for another request.
LEMMA SentUnambiguous == Sending => RequestUnambiguous
<1> SUFFICES ASSUME Sending, place = "prefix"
             PROVE  {r \in Requests : IsPrefix(EncodeRequest(r), wire)} = {arguments}
  BY DEF RequestUnambiguous
<1>1. arguments \in Requests /\ wire = EncodeRequest(arguments)
  BY DEF Sending
<1>2. ASSUME NEW r \in Requests, IsPrefix(EncodeRequest(r), wire) PROVE r = arguments
  <2>1. r \in Seq(Seq(Symbols)) /\ arguments \in Seq(Seq(Symbols))
    BY <1>1, RequestsAreStrings
  <2>2. PICK e \in Seq(Symbols) : e = EncodeRequest(r)
    BY <2>1, RequestIs
  <2>3. wire \in Seq(Symbols)
    BY <1>1, <2>1, RequestIs
  <2>4. PICK x \in Seq(Symbols) : Join(e, x) = wire
    BY <1>2, <2>2, <2>3, RestOfPrefix
  <2>5. Joined(wire, e, x)
    BY <2>2, <2>4, JoinProperties
  <2>6. Agrees(e, wire)
    BY <2>5 DEF Joined, Agrees
  <2> QED
    BY <1>1, <2>1, <2>2, <2>6, RequestsAgree
<1>3. IsPrefix(EncodeRequest(arguments), wire)
  <2>1. EncodeRequest(arguments) \in Seq(Symbols)
    BY <1>1, RequestsAreStrings, RequestIs
  <2>2. wire \in Seq(Symbols) /\ Len(wire) \in Nat
    BY <1>1, <2>1, LenProperties
  <2> QED
    BY <1>1, <2>2 DEF IsPrefix
<1> QED
  BY <1>1, <1>2, <1>3
\* A command that is answered has been forgotten.
LEMMA NextSending ==
  ASSUME Sending, [Next]_vars
  PROVE  Sending'
<1>1. CASE WriteSome
  BY <1>1, WriteSending
<1>2. CASE ConnectionEnds
  <2>1. place' = "done" /\ arguments' = arguments
    BY <1>2 DEF ConnectionEnds, Return
  <2> QED
    BY <2>1 DEF Sending
<1>3. ASSUME NEW b \in Bytes, ReadPrefix(b) PROVE Sending'
  <2>1. place' = "line" /\ arguments' = <<>>
    BY <1>3 DEF ReadPrefix, GoTo
  <2> QED
    BY <2>1 DEF Sending
<1>4. ASSUME NEW b \in Bytes,
             ReadLine(b) \/ ReadNewline(b) \/ ReadBulkSize(b) \/ ReadPayload(b) \/ ReadEnding(b)
      PROVE  Sending'
  <2>1. arguments' = arguments
    BY <1>4 DEF ReadLine, ReadNewline, ReadBulkSize, ReadPayload, ReadEnding, Receive
  <2>2. place' \notin {"write", "prefix"}
    BY <1>4 DEF ReadLine, ReadNewline, ReadBulkSize, ReadPayload, ReadEnding, GoTo, Return
  <2> QED
    BY <2>1, <2>2 DEF Sending
<1>5. CASE UNCHANGED vars
  BY <1>5 DEF vars, Sending
<1> QED
  BY <1>1, <1>2, <1>3, <1>4, <1>5 DEF Next

-----------------------------------------------------------------------------
(* What the reader holds.                                                  *)

Places == {"write", "prefix", "line", "newline", "payload", "ending", "done"}

NoResult == [type |-> "none"]

\* What each variable holds where, and that nothing is there before it is read.
Holds ==
  /\ place \in Places
  /\ input \in Seq(Bytes) /\ line \in Seq(Bytes) /\ text \in Seq(Bytes) /\ ending \in Seq(Bytes)
  /\ place \notin {"write", "prefix", "done"} => prefix \in Bytes
  /\ Len(line) <= MaxReply + 1 /\ (place # "done" => Len(line) <= MaxReply)
  /\ size \in 0 .. MaxReply
  /\ Len(text) <= size /\ (place = "payload" => Len(text) < size)
  /\ Len(ending) <= 2 /\ (place = "ending" => Len(ending) < 2)
  /\ place \in {"write", "prefix"} => input = <<>> /\ line = <<>>
  /\ place \in {"write", "prefix", "line", "newline"} => text = <<>>
  /\ place \in {"write", "prefix", "line", "newline", "payload"} => ending = <<>>
  /\ place # "done" => result = NoResult

LEMMA InitHolds == Init => Holds
<1>1. <<>> \in Seq(Bytes) /\ Len(<<>>) = 0
  OBVIOUS
<1> SUFFICES ASSUME Init PROVE Holds
  OBVIOUS
<1>2. /\ place = "write" /\ input = <<>> /\ line = <<>> /\ text = <<>> /\ ending = <<>>
      /\ size = 0 /\ result = NoResult
  BY Zenon DEF Init, NoResult
<1>3. 0 <= MaxReply /\ 0 <= MaxReply + 1 /\ 0 \in 0 .. MaxReply
  BY LimitsAssumption
<1> QED
  BY <1>1, <1>2, <1>3 DEF Holds, Places

LEMMA PrefixHolds ==
  ASSUME Holds, NEW b \in Bytes, ReadPrefix(b)
  PROVE  Holds'
<1>1. input' \in Seq(Bytes)
  BY AppendProperties DEF ReadPrefix, Holds
<1>2. /\ place = "prefix" /\ place' = "line" /\ prefix' = b /\ result' = result
      /\ line' = line /\ size' = size /\ text' = text /\ ending' = ending
  BY DEF ReadPrefix, GoTo
<1> QED
  BY <1>1, <1>2 DEF Holds, Places

LEMMA LineHolds ==
  ASSUME Holds, NEW b \in Bytes, ReadLine(b)
  PROVE  Holds'
<1>1. input' \in Seq(Bytes)
  BY AppendProperties DEF ReadLine, Receive, Holds
<1>2. place = "line" /\ prefix' = prefix /\ size' = size /\ text' = text /\ ending' = ending
  BY DEF ReadLine
<1>3. CASE b = "CR"
  <2>1. place' = "newline" /\ result' = result /\ line' = line
    BY <1>3 DEF ReadLine, GoTo
  <2> QED
    BY <1>1, <1>2, <2>1 DEF Holds, Places
<1>4. CASE b # "CR"
  <2>1. line' = Append(line, b) /\ line \in Seq(Bytes) /\ Len(line) <= MaxReply
    BY <1>2, <1>4 DEF ReadLine, Holds
  <2>2. line' \in Seq(Bytes) /\ Len(line') = Len(line) + 1 /\ Len(line) \in Nat
    BY <2>1, AppendProperties, LenProperties
  <2>3. Len(line') <= MaxReply + 1
    BY <2>1, <2>2, LimitsAssumption
  <2>4. CASE TooLong(line')
    <3>1. place' = "done"
      BY <1>4, <2>4 DEF ReadLine, Return
    <3> QED
      BY <1>1, <1>2, <2>2, <2>3, <3>1 DEF Holds, Places
  <2>5. CASE ~TooLong(line')
    <3>1. place' = "line" /\ result' = result
      BY <1>4, <2>5 DEF ReadLine, GoTo
    <3>2. Len(line') <= MaxReply
      BY <2>2, <2>5, LimitsAssumption DEF TooLong
    <3> QED
      BY <1>1, <1>2, <2>2, <2>3, <3>1, <3>2 DEF Holds, Places
  <2> QED
    BY <2>4, <2>5
<1> QED
  BY <1>3, <1>4

LEMMA NewlineHolds ==
  ASSUME Holds, NEW b \in Bytes, ReadNewline(b)
  PROVE  Holds'
<1>1. input' \in Seq(Bytes)
  BY AppendProperties DEF ReadNewline, Receive, Holds
<1>2. /\ place' = "done" /\ prefix' = prefix /\ line' = line /\ size' = size
      /\ text' = text /\ ending' = ending
  BY DEF ReadNewline, Return, parts
<1> QED
  BY <1>1, <1>2 DEF Holds, Places

LEMMA BulkSizeHolds ==
  ASSUME Holds, NEW b \in Bytes, ReadBulkSize(b)
  PROVE  Holds'
<1>1. input' \in Seq(Bytes)
  BY AppendProperties DEF ReadBulkSize, Receive, Holds
<1>2. /\ place = "newline" /\ prefix' = prefix /\ line' = line
      /\ text' = text /\ ending' = ending /\ text = <<>> /\ ending = <<>>
  BY DEF ReadBulkSize, Holds
<1>3. CASE IsInteger(line) /\ SizeAllowed(ValueOf(line))
  <2>1. /\ size' = ValueOf(line) /\ result' = result
        /\ place' = IF size' = 0 THEN "ending" ELSE "payload"
    BY <1>3 DEF ReadBulkSize, GoTo
  <2>2. size' \in 0 .. MaxReply
    BY <1>3, <2>1 DEF SizeAllowed
  <2>3. Len(<<>>) = 0
    OBVIOUS
  <2>4. Len(text') <= size' /\ (place' = "payload" => Len(text') < size')
    BY <1>2, <2>1, <2>2, <2>3
  <2> QED
    BY <1>1, <1>2, <2>1, <2>2, <2>3, <2>4 DEF Holds, Places
<1>4. CASE ~(IsInteger(line) /\ SizeAllowed(ValueOf(line)))
  <2>1. place' = "done" /\ size' = size
    BY <1>4 DEF ReadBulkSize, Return
  <2> QED
    BY <1>1, <1>2, <2>1 DEF Holds, Places
<1> QED
  BY <1>3, <1>4

LEMMA PayloadHolds ==
  ASSUME Holds, NEW b \in Bytes, ReadPayload(b)
  PROVE  Holds'
<1>1. input' \in Seq(Bytes)
  BY AppendProperties DEF ReadPayload, Receive, Holds
<1>2. /\ place = "payload" /\ prefix' = prefix /\ line' = line /\ size' = size
      /\ ending' = ending /\ result' = result /\ text' = Append(text, b)
      /\ place' = IF Len(text') = size THEN "ending" ELSE "payload"
  BY DEF ReadPayload, GoTo
<1>3. text \in Seq(Bytes) /\ Len(text) < size /\ size \in Nat /\ ending = <<>>
  BY <1>2, LimitsAssumption DEF Holds
<1>4. text' \in Seq(Bytes) /\ Len(text') = Len(text) + 1 /\ Len(text) \in Nat
  BY <1>2, <1>3, AppendProperties, LenProperties
<1>5. Len(text') <= size' /\ (place' = "payload" => Len(text') < size') /\ Len(<<>>) = 0
  BY <1>2, <1>3, <1>4
<1>6. place' \in {"ending", "payload"}
  BY <1>2
<1> QED
  BY <1>1, <1>2, <1>3, <1>4, <1>5, <1>6 DEF Holds, Places

LEMMA EndingHolds ==
  ASSUME Holds, NEW b \in Bytes, ReadEnding(b)
  PROVE  Holds'
<1>1. input' \in Seq(Bytes)
  BY AppendProperties DEF ReadEnding, Receive, Holds
<1>2. /\ place = "ending" /\ prefix' = prefix /\ line' = line /\ size' = size
      /\ text' = text /\ ending' = Append(ending, b)
  BY DEF ReadEnding
<1>3. ending \in Seq(Bytes) /\ Len(ending) < 2
  BY <1>2 DEF Holds
<1>4. ending' \in Seq(Bytes) /\ Len(ending') = Len(ending) + 1 /\ Len(ending) \in Nat
  BY <1>2, <1>3, AppendProperties, LenProperties
<1>5. Len(ending') <= 2
  BY <1>3, <1>4
<1>6. \/ place' = "ending" /\ result' = result /\ Len(ending') < 2
      \/ place' = "done"
  BY DEF ReadEnding, GoTo, Return
<1> QED
  BY <1>1, <1>2, <1>4, <1>5, <1>6 DEF Holds, Places

LEMMA NextHolds ==
  ASSUME Holds, [Next]_vars
  PROVE  Holds'
<1>1. CASE WriteSome
  <2>1. /\ place = "write" /\ place' \in {"write", "prefix"}
        /\ input' = input /\ parts' = parts /\ result' = result
    BY <1>1 DEF WriteSome
  <2> QED
    BY <2>1 DEF Holds, Places, parts
<1>2. CASE ConnectionEnds
  <2>1. place # "done" /\ place' = "done" /\ input' = input /\ parts' = parts
    BY <1>2 DEF ConnectionEnds, Return
  <2> QED
    BY <2>1 DEF Holds, Places, parts
<1>3. CASE UNCHANGED vars
  BY <1>3 DEF vars, parts, Holds
<1> QED
  BY <1>1, <1>2, <1>3, PrefixHolds, LineHolds, NewlineHolds, BulkSizeHolds, PayloadHolds,
     EndingHolds DEF Next
LEMMA HoldsType == Holds /\ Sending => TypeOK
BY DEF Holds, Places, Sending, TypeOK

-----------------------------------------------------------------------------
(* Nothing that was received is lost before the reply is complete.         *)

\* The first byte of the reply and what there is of its line.
Opening == <<prefix>> \o line

\* What has been kept is what was received, and all of it.
Heard ==
  /\ place = "line" => input = Opening
  /\ place = "newline" => input = Opening \o <<"CR">>
  /\ place \in {"payload", "ending"} =>
       /\ prefix = "$" /\ ValueOf(line) = size
       /\ input = ((Opening \o Crlf) \o text) \o ending
  /\ place = "ending" => Len(text) = size

\* What is returned is what was received.
Returned ==
  place = "done" =>
    \/ result.type \in {"broken", "closed"}
    \/ /\ Len(line) <= MaxReply /\ input = Opening \o Crlf
       /\ \/ prefix = "+" /\ result = [type |-> "string", text |-> line]
          \/ prefix = "-" /\ result = [type |-> "error", text |-> line]
          \/ prefix = ":" /\ IsInteger(line) /\ result = [type |-> "integer", integer |-> ValueOf(line)]
          \/ prefix = "$" /\ ValueOf(line) = -1 /\ result = [type |-> "nil"]
    \/ /\ prefix = "$" /\ ValueOf(line) = Len(text) /\ Len(text) <= MaxReply
       /\ input = ((Opening \o Crlf) \o text) \o Crlf
       /\ result = [type |-> "bulk", text |-> text]

\* What is added behind a sequence is added behind its last part.
LEMMA AppendBehind ==
  ASSUME NEW s \in Seq(Symbols), NEW t \in Seq(Symbols), NEW b \in Symbols
  PROVE  Append(s \o t, b) = s \o Append(t, b)
<1>1. s \o t \in Seq(Symbols) /\ <<b>> \in Seq(Symbols)
  BY ConcatProperties
<1>2. Append(s \o t, b) = (s \o t) \o <<b>>
  BY <1>1, AppendIsConcat
<1>3. Append(t, b) = t \o <<b>>
  BY AppendIsConcat
<1>4. (s \o t) \o <<b>> = s \o (t \o <<b>>)
  BY <1>1, ConcatAssociative
<1> QED
  BY <1>2, <1>3, <1>4

\* The end of a line, byte by byte.
LEMMA EndOfLine ==
  ASSUME NEW s \in Seq(Symbols)
  PROVE  /\ Append(s, "CR") = s \o <<"CR">>
         /\ Append(s \o <<"CR">>, "LF") = s \o Crlf
         /\ (s \o <<>>) \o <<>> = s
<1>1. "CR" \in Symbols /\ "LF" \in Symbols /\ <<"CR">> \in Seq(Symbols)
  BY DEF Symbols
<1>2. Append(s, "CR") = s \o <<"CR">>
  BY <1>1, AppendIsConcat
<1>3. Append(s \o <<"CR">>, "LF") = s \o Append(<<"CR">>, "LF")
  BY <1>1, AppendBehind
<1>4. Append(<<"CR">>, "LF") = Crlf
  <2>1. PICK t : t = Append(<<"CR">>, "LF")
    OBVIOUS
  <2>2. Len(<<"CR">>) = 1 /\ <<"CR">>[1] = "CR"
    OBVIOUS
  <2>3. /\ t \in Seq(Symbols) /\ Len(t) = Len(<<"CR">>) + 1 /\ t[Len(<<"CR">>) + 1] = "LF"
        /\ \A i \in 1 .. Len(<<"CR">>) : t[i] = <<"CR">>[i]
    BY <1>1, <2>1, AppendProperties
  <2>4. 1 \in 1 .. 1 /\ 1 + 1 = 2 /\ 1 .. 2 = {1, 2}
    OBVIOUS
  <2>5. Len(t) = 2 /\ t[1] = "CR" /\ t[2] = "LF"
    BY <2>2, <2>3, <2>4
  <2>6. \A i \in 1 .. Len(t) : t[i] = Crlf[i]
    BY <2>4, <2>5, CrlfIs
  <2>7. t = Crlf
    BY <2>3, <2>5, <2>6, CrlfIs, SeqEqual
  <2> QED
    BY <2>1, <2>7
<1>5. s \o <<>> = s
  BY ConcatEmptySeq
<1> QED
  BY <1>2, <1>3, <1>4, <1>5

LEMMA HeldSymbols ==
  ASSUME Holds, place \notin {"write", "prefix", "done"}
  PROVE  /\ prefix \in Symbols /\ <<prefix>> \in Seq(Symbols) /\ line \in Seq(Symbols)
         /\ text \in Seq(Symbols) /\ ending \in Seq(Symbols)
         /\ Opening \in Seq(Symbols) /\ Opening \o Crlf \in Seq(Symbols)
         /\ (Opening \o Crlf) \o text \in Seq(Symbols)
<1>1. Bytes \subseteq Symbols
  BY DEF Symbols
<1>2. line \in Seq(Bytes) /\ text \in Seq(Bytes) /\ ending \in Seq(Bytes) /\ prefix \in Bytes
  BY DEF Holds
<1>3. line \in Seq(Symbols) /\ text \in Seq(Symbols) /\ ending \in Seq(Symbols)
  BY <1>1, <1>2, SeqMonotonic
<1>4. prefix \in Symbols /\ <<prefix>> \in Seq(Symbols)
  BY <1>1, <1>2
<1>5. Opening \in Seq(Symbols)
  BY <1>3, <1>4, ConcatProperties DEF Opening
<1>6. Opening \o Crlf \in Seq(Symbols)
  BY <1>5, CrlfIs, ConcatProperties
<1>7. (Opening \o Crlf) \o text \in Seq(Symbols)
  BY <1>3, <1>6, ConcatProperties
<1> QED
  BY <1>3, <1>4, <1>5, <1>6, <1>7

Hears == Heard /\ Returned

LEMMA InitHears == Init => Hears
<1> SUFFICES ASSUME Init PROVE Hears
  OBVIOUS
<1>1. place = "write"
  BY Zenon DEF Init
<1> QED
  BY <1>1 DEF Hears, Heard, Returned

LEMMA PrefixHears ==
  ASSUME Holds, Hears, NEW b \in Bytes, ReadPrefix(b)
  PROVE  Hears'
<1>1. place = "prefix" /\ place' = "line" /\ input' = Append(input, b) /\ prefix' = b /\ line' = line
  BY DEF ReadPrefix, GoTo
<1>2. input = <<>> /\ line = <<>>
  BY <1>1 DEF Holds
<1>3. input' = <<b>> \o <<>>
  BY <1>1, <1>2
<1>4. input' = Opening'
  BY <1>1, <1>2, <1>3 DEF Opening
<1> QED
  BY <1>1, <1>4 DEF Hears, Heard, Returned

LEMMA LineHears ==
  ASSUME Holds, Hears, NEW b \in Bytes, ReadLine(b)
  PROVE  Hears'
<1>1. place = "line" /\ input' = Append(input, b) /\ prefix' = prefix /\ text' = text /\ ending' = ending
  BY DEF ReadLine, Receive
<1>2. input = Opening
  BY <1>1 DEF Hears, Heard
<1>3. /\ Opening \in Seq(Symbols) /\ <<prefix>> \in Seq(Symbols) /\ line \in Seq(Symbols)
      /\ b \in Symbols
  BY <1>1, HeldSymbols DEF Symbols
<1>4. CASE b = "CR"
  <2>1. place' = "newline" /\ line' = line
    BY <1>4 DEF ReadLine, GoTo
  <2>2. input' = Opening \o <<"CR">>
    BY <1>1, <1>2, <1>3, <1>4, EndOfLine
  <2>3. Opening' = Opening
    BY <1>1, <2>1 DEF Opening
  <2> QED
    BY <2>1, <2>2, <2>3 DEF Hears, Heard, Returned
<1>5. CASE b # "CR"
  <2>1. line' = Append(line, b)
    BY <1>5 DEF ReadLine
  <2>2. input' = Opening'
    BY <1>1, <1>2, <1>3, <2>1, AppendBehind DEF Opening
  <2>3. place' = "line" \/ (place' = "done" /\ result' = Broken)
    BY <1>5 DEF ReadLine, GoTo, Return
  <2> QED
    BY <2>2, <2>3 DEF Hears, Heard, Returned, Broken
<1> QED
  BY <1>4, <1>5

\* Where a line has ended it is there to its last byte.
LEMMA LineHeard ==
  ASSUME Holds, Hears, place = "newline", input' = Append(input, "LF")
  PROVE  input' = Opening \o Crlf /\ Len(line) <= MaxReply
<1>1. Opening \in Seq(Symbols)
  BY HeldSymbols
<1>2. input = Opening \o <<"CR">>
  BY DEF Hears, Heard
<1>3. Append(Opening \o <<"CR">>, "LF") = Opening \o Crlf
  BY <1>1, EndOfLine
<1> QED
  BY <1>2, <1>3 DEF Holds

LEMMA NewlineHears ==
  ASSUME Holds, Hears, NEW b \in Bytes, ReadNewline(b)
  PROVE  Hears'
<1>1. /\ place = "newline" /\ input' = Append(input, b) /\ place' = "done"
      /\ prefix' = prefix /\ line' = line
  BY DEF ReadNewline, Receive, Return, parts
<1>2. Opening' = Opening
  BY <1>1 DEF Opening
<1>3. CASE b # "LF"
  <2>1. result' = Broken
    BY <1>3 DEF ReadNewline, Return
  <2> QED
    BY <1>1, <2>1 DEF Hears, Heard, Returned, Broken
<1>4. CASE b = "LF"
  <2>1. input' = Opening' \o Crlf /\ Len(line') <= MaxReply
    BY <1>1, <1>2, <1>4, LineHeard
  <2>2. result' = CASE prefix = "-"                    -> [type |-> "error", text |-> line]
                    [] prefix = "+"                    -> [type |-> "string", text |-> line]
                    [] prefix = ":" /\ IsInteger(line) -> [type |-> "integer", integer |-> ValueOf(line)]
                    [] OTHER                           -> Broken
    BY <1>4 DEF ReadNewline, Return
  <2>3. CASE prefix = "-"
    <3>1. result' = [type |-> "error", text |-> line']
      BY <1>1, <2>2, <2>3
    <3> QED
      BY <1>1, <2>1, <2>3, <3>1 DEF Hears, Heard, Returned
  <2>4. CASE prefix = "+"
    <3>1. result' = [type |-> "string", text |-> line']
      BY <1>1, <2>2, <2>4
    <3> QED
      BY <1>1, <2>1, <2>4, <3>1 DEF Hears, Heard, Returned
  <2>5. CASE prefix = ":" /\ IsInteger(line)
    <3>1. result' = [type |-> "integer", integer |-> ValueOf(line')] /\ IsInteger(line')
      BY <1>1, <2>2, <2>5
    <3> QED
      BY <1>1, <2>1, <2>5, <3>1 DEF Hears, Heard, Returned
  <2>6. CASE prefix \notin {"-", "+"} /\ ~(prefix = ":" /\ IsInteger(line))
    <3>1. result' = Broken
      BY <2>2, <2>6
    <3> QED
      BY <1>1, <3>1 DEF Hears, Heard, Returned, Broken
  <2> QED
    BY <2>3, <2>4, <2>5, <2>6
<1> QED
  BY <1>3, <1>4

LEMMA BulkSizeHears ==
  ASSUME Holds, Hears, NEW b \in Bytes, ReadBulkSize(b)
  PROVE  Hears'
<1>1. /\ place = "newline" /\ b = "LF" /\ prefix = "$" /\ input' = Append(input, "LF")
      /\ prefix' = prefix /\ line' = line /\ text' = text /\ ending' = ending
  BY DEF ReadBulkSize, Receive
<1>2. Opening' = Opening /\ text = <<>> /\ ending = <<>>
  BY <1>1 DEF Opening, Holds
<1>3. input' = Opening' \o Crlf /\ Len(line') <= MaxReply
  BY <1>1, <1>2, LineHeard
<1>4. CASE IsInteger(line) /\ SizeAllowed(ValueOf(line))
  <2>1. /\ size' = ValueOf(line')
        /\ place' = IF size' = 0 THEN "ending" ELSE "payload"
    BY <1>1, <1>4 DEF ReadBulkSize, GoTo
  <2>2. input' = ((Opening' \o Crlf) \o text') \o ending'
    <3>1. Opening \o Crlf \in Seq(Symbols)
      BY <1>1, HeldSymbols
    <3>2. ((Opening \o Crlf) \o <<>>) \o <<>> = Opening \o Crlf
      BY <3>1, EndOfLine
    <3> QED
      BY <1>1, <1>2, <1>3, <3>2
  <2>3. place' = "ending" => Len(text') = size'
    <3>1. Len(<<>>) = 0
      OBVIOUS
    <3> QED
      BY <1>1, <1>2, <2>1, <3>1
  <2>4. place' \in {"ending", "payload"} /\ prefix' = "$"
    BY <1>1, <2>1
  <2> QED
    BY <2>1, <2>2, <2>3, <2>4 DEF Hears, Heard, Returned
<1>5. CASE ~(IsInteger(line) /\ SizeAllowed(ValueOf(line)))
  <2>1. /\ place' = "done"
        /\ result' = IF IsInteger(line) /\ ValueOf(line) = -1 THEN [type |-> "nil"] ELSE Broken
    BY <1>5 DEF ReadBulkSize, Return
  <2>2. CASE IsInteger(line) /\ ValueOf(line) = -1
    <3>1. result' = [type |-> "nil"] /\ ValueOf(line') = -1 /\ prefix' = "$"
      BY <1>1, <2>1, <2>2
    <3> QED
      BY <1>3, <2>1, <3>1 DEF Hears, Heard, Returned
  <2>3. CASE ~(IsInteger(line) /\ ValueOf(line) = -1)
    <3>1. result' = Broken
      BY <2>1, <2>3
    <3> QED
      BY <2>1, <3>1 DEF Hears, Heard, Returned, Broken
  <2> QED
    BY <2>2, <2>3
<1> QED
  BY <1>4, <1>5

LEMMA PayloadHears ==
  ASSUME Holds, Hears, NEW b \in Bytes, ReadPayload(b)
  PROVE  Hears'
<1>1. /\ place = "payload" /\ input' = Append(input, b) /\ text' = Append(text, b)
      /\ place' = IF Len(text') = size THEN "ending" ELSE "payload"
      /\ prefix' = prefix /\ line' = line /\ size' = size /\ ending' = ending
  BY DEF ReadPayload, Receive, GoTo
<1>2. PICK s : s = Opening \o Crlf
  OBVIOUS
<1>3. ending = <<>> /\ input = (s \o text) \o ending /\ prefix = "$" /\ ValueOf(line) = size
  BY <1>1, <1>2 DEF Holds, Hears, Heard
<1>4. s \in Seq(Symbols) /\ text \in Seq(Symbols) /\ s \o text \in Seq(Symbols) /\ b \in Symbols
  BY <1>1, <1>2, HeldSymbols DEF Symbols
<1>5. input = s \o text
  BY <1>3, <1>4, ConcatEmptySeq
<1>6. input' = s \o Append(text, b)
  BY <1>1, <1>4, <1>5, AppendBehind
<1>7. s \o Append(text, b) \in Seq(Symbols)
  BY <1>4, AppendProperties, ConcatProperties
<1>8. input' = (s \o text') \o ending'
  BY <1>1, <1>3, <1>6, <1>7, ConcatEmptySeq
<1>9. s = Opening' \o Crlf
  BY <1>1, <1>2 DEF Opening
<1>10. place' \in {"ending", "payload"} /\ prefix' = "$" /\ ValueOf(line') = size'
  BY <1>1, <1>3
<1>11. place' = "ending" => Len(text') = size'
  BY <1>1
<1> QED
  BY <1>8, <1>9, <1>10, <1>11 DEF Hears, Heard, Returned

LEMMA EndingHears ==
  ASSUME Holds, Hears, NEW b \in Bytes, ReadEnding(b)
  PROVE  Hears'
<1>1. /\ place = "ending" /\ input' = Append(input, b) /\ ending' = Append(ending, b)
      /\ prefix' = prefix /\ line' = line /\ size' = size /\ text' = text
  BY DEF ReadEnding, Receive
<1>2. PICK s : s = (Opening \o Crlf) \o text
  OBVIOUS
<1>3. input = s \o ending /\ prefix = "$" /\ ValueOf(line) = size /\ Len(text) = size
  BY <1>1, <1>2 DEF Hears, Heard
<1>4. s \in Seq(Symbols) /\ ending \in Seq(Symbols) /\ b \in Symbols
  BY <1>1, <1>2, HeldSymbols DEF Symbols
<1>5. input' = s \o ending'
  <2>1. PICK t \in Seq(Symbols) : t = ending
    BY <1>4
  <2>2. s \in Seq(Symbols)
    BY <1>4
  <2>3. b \in Symbols
    BY <1>4
  <2>4. Append(s \o t, b) = s \o Append(t, b)
    BY <2>2, <2>3, AppendBehind
  <2> QED
    BY <1>1, <1>3, <2>1, <2>4
<1>6. s = (Opening' \o Crlf) \o text'
  BY <1>1, <1>2 DEF Opening
<1>7. size <= MaxReply
  BY LimitsAssumption DEF Holds
<1>8. \/ place' = "ending"
      \/ /\ place' = "done"
         /\ result' = IF ending' = Crlf THEN [type |-> "bulk", text |-> text] ELSE Broken
  BY DEF ReadEnding, GoTo, Return, EndsWell
<1>9. CASE place' = "ending"
  BY <1>1, <1>3, <1>5, <1>6, <1>9 DEF Hears, Heard, Returned
<1>10. CASE place' = "done" /\ ending' = Crlf /\ result' = [type |-> "bulk", text |-> text]
  <2>1. result' = [type |-> "bulk", text |-> text'] /\ prefix' = "$" /\ ValueOf(line') = Len(text')
    BY <1>1, <1>3, <1>10
  <2>2. Len(text') <= MaxReply /\ input' = ((Opening' \o Crlf) \o text') \o Crlf
    BY <1>1, <1>3, <1>5, <1>6, <1>7, <1>10
  <2> QED
    BY <1>10, <2>1, <2>2 DEF Hears, Heard, Returned
<1>11. CASE place' = "done" /\ result' = Broken
  BY <1>11 DEF Hears, Heard, Returned, Broken
<1> QED
  BY <1>8, <1>9, <1>10, <1>11

LEMMA NextHears ==
  ASSUME Holds, Hears, [Next]_vars
  PROVE  Hears'
<1>1. CASE WriteSome
  <2>1. place' \in {"write", "prefix"}
    BY <1>1 DEF WriteSome
  <2> QED
    BY <2>1 DEF Hears, Heard, Returned
<1>2. CASE ConnectionEnds
  <2>1. place' = "done" /\ result' = [type |-> "closed"]
    BY <1>2 DEF ConnectionEnds, Return
  <2> QED
    BY <2>1 DEF Hears, Heard, Returned
<1>3. CASE UNCHANGED vars
  <2>1. /\ place' = place /\ input' = input /\ prefix' = prefix /\ line' = line /\ size' = size
        /\ text' = text /\ ending' = ending /\ result' = result
    BY <1>3 DEF vars, parts
  <2>2. Opening' = Opening
    BY <2>1 DEF Opening
  <2> QED
    BY <2>1, <2>2 DEF Hears, Heard, Returned
<1> QED
  BY <1>1, <1>2, <1>3, PrefixHears, LineHears, NewlineHears, BulkSizeHears, PayloadHears,
     EndingHears DEF Next

\* So a reply that is returned has been sent.
LEMMA HeardReplies == Holds /\ Hears => ReturnsOnlyReplies
<1> SUFFICES ASSUME Holds, Hears, place = "done", result.type \notin {"broken", "closed"},
                    IF prefix \in {"$", ":"} THEN Spell(ValueOf(line)) = line ELSE OneLine(line)
             PROVE  \E reply \in Replies : input = Encode(reply)
  BY DEF ReturnsOnlyReplies, Encodings
<1>1. line \in Seq(Bytes) /\ text \in Seq(Bytes)
  BY DEF Holds
<1>2. \A s \in Seq(Bytes) : Len(s) <= MaxReply => s \in Texts
  <2> SUFFICES ASSUME NEW s \in Seq(Bytes), Len(s) <= MaxReply PROVE s \in Texts
    OBVIOUS
  <2>1. Len(s) \in 0 .. MaxReply /\ s \in [1 .. Len(s) -> Bytes]
    BY LenProperties, LimitsAssumption
  <2> QED
    BY <2>1 DEF Texts, BoundedSeq, SeqOf
<1>3. CASE /\ Len(line) <= MaxReply /\ input = Opening \o Crlf
           /\ \/ prefix = "+" /\ result = [type |-> "string", text |-> line]
              \/ prefix = "-" /\ result = [type |-> "error", text |-> line]
              \/ prefix = ":" /\ IsInteger(line)
              \/ prefix = "$" /\ ValueOf(line) = -1
  <2>1. line \in Texts /\ input = <<prefix>> \o line \o Crlf
    BY <1>1, <1>2, <1>3 DEF Opening
  <2>2. CASE prefix = "+" /\ result = [type |-> "string", text |-> line]
    <3>1. PICK r : r = [type |-> "string", text |-> line]
      OBVIOUS
    <3>2. r \in Replies /\ r.type = "string" /\ r.text = line
      BY <2>1, <2>2, <3>1 DEF Replies
    <3>3. Encode(r) = input
      BY <2>1, <2>2, <3>2 DEF Encode
    <3> QED
      BY <3>2, <3>3
  <2>3. CASE prefix = "-" /\ result = [type |-> "error", text |-> line]
    <3>1. PICK r : r = [type |-> "error", text |-> line]
      OBVIOUS
    <3>2. r \in Replies /\ r.type = "error" /\ r.text = line
      BY <2>1, <2>3, <3>1 DEF Replies
    <3>3. Encode(r) = input
      BY <2>1, <2>3, <3>2 DEF Encode
    <3> QED
      BY <3>2, <3>3
  <2>4. CASE prefix = ":" /\ IsInteger(line)
    <3>1. PICK r : r = [type |-> "integer", integer |-> ValueOf(line)]
      OBVIOUS
    <3>2. ValueOf(line) \in Integral /\ Spell(ValueOf(line)) = line
      BY <2>4 DEF IsInteger
    <3>3. r \in Replies /\ r.type = "integer" /\ r.integer = ValueOf(line)
      BY <3>1, <3>2 DEF Replies
    <3>4. Encode(r) = input
      BY <2>1, <2>4, <3>2, <3>3 DEF Encode
    <3> QED
      BY <3>3, <3>4
  <2>5. CASE prefix = "$" /\ ValueOf(line) = -1
    <3>1. PICK r : r = [type |-> "nil"]
      OBVIOUS
    <3>2. r \in Replies /\ r.type = "nil" /\ Spell(-1) = line
      BY <2>5, <3>1 DEF Replies
    <3>3. Encode(r) = input
      BY <2>1, <2>5, <3>2 DEF Encode
    <3> QED
      BY <3>2, <3>3
  <2> QED
    BY <2>2, <2>3, <2>4, <2>5, <1>3
<1>4. CASE /\ prefix = "$" /\ ValueOf(line) = Len(text) /\ Len(text) <= MaxReply
           /\ input = ((Opening \o Crlf) \o text) \o Crlf
  <2>1. PICK r : r = [type |-> "bulk", text |-> text]
    OBVIOUS
  <2>2. r \in Replies /\ r.type = "bulk" /\ r.text = text
    BY <1>1, <1>2, <1>4, <2>1 DEF Replies
  <2>3. Spell(Len(text)) = line
    BY <1>4
  <2>4. Bulk(text) = input
    BY <1>4, <2>3 DEF Bulk, Opening
  <2>5. Encode(r) = input
    BY <2>2, <2>4 DEF Encode
  <2> QED
    BY <2>2, <2>5
<1> QED
  BY <1>3, <1>4 DEF Hears, Returned
-----------------------------------------------------------------------------
(* The replies.                                                            *)

\* The first byte of a reply, its line, and what is behind.
FirstOf(reply) ==
  CASE reply.type = "string" -> "+"
    [] reply.type = "error" -> "-"
    [] reply.type = "integer" -> ":"
    [] reply.type \in {"nil", "bulk"} -> "$"

LineOf(reply) ==
  CASE reply.type \in {"string", "error"} -> reply.text
    [] reply.type = "integer" -> Spell(reply.integer)
    [] reply.type = "nil" -> Spell(-1)
    [] reply.type = "bulk" -> Spell(Len(reply.text))

RestOf(reply) == IF reply.type = "bulk" THEN reply.text \o Crlf ELSE <<>>

LEMMA TextsAre ==
  ASSUME NEW s \in Texts
  PROVE  s \in Seq(Symbols) /\ Len(s) \in Nat /\ Len(s) <= MaxReply
<1>1. PICK n \in 0 .. MaxReply : s \in [1 .. n -> Bytes]
  BY DEF Texts, BoundedSeq, SeqOf
<1>2. s \in Seq(Bytes) /\ Len(s) = n
  BY <1>1, LimitsAssumption
<1>3. Bytes \subseteq Symbols
  BY DEF Symbols
<1>4. s \in Seq(Symbols)
  BY <1>2, <1>3, SeqMonotonic
<1> QED
  BY <1>1, <1>2, <1>4, LimitsAssumption

KindOf(reply) ==
  \/ \E t \in {"string", "error"}, s \in Texts : OneLine(s) /\ reply = [type |-> t, text |-> s]
  \/ \E s \in Texts : reply = [type |-> "bulk", text |-> s]
  \/ \E n \in Integral : reply = [type |-> "integer", integer |-> n]
  \/ reply = [type |-> "nil"]

LEMMA KindsOfReplies ==
  ASSUME NEW reply \in Replies
  PROVE  KindOf(reply)
BY DEF Replies, KindOf

\* A line that fits, with its end.
FitsLine(l) == l \in Seq(Symbols) /\ NoReturn(l) /\ Len(l) <= MaxReply

LEMMA NumbersFit ==
  ASSUME NEW n \in Integral
  PROVE  FitsLine(Spell(n))
<1>1. n \in Int
  BY LimitsAssumption DEF Integral
<1>2. Spelled(Spell(n), n)
  BY <1>1, SpellProperties
<1>3. Len(Spell(n)) <= MaxReply
  BY IntegersFit
<1> QED
  BY <1>2, <1>3 DEF Spelled, FitsLine

\* How a reply is sent.
Sent(reply, e) ==
  /\ e \in Seq(Symbols) /\ RestOf(reply) \in Seq(Symbols) /\ FitsLine(LineOf(reply))
  /\ Framed(e, FirstOf(reply), LineOf(reply), RestOf(reply))

LEMMA LineSent ==
  ASSUME NEW p \in Symbols, NEW l, FitsLine(l), NEW e, e = <<p>> \o l \o Crlf
  PROVE  e \in Seq(Symbols) /\ Framed(e, p, l, <<>>)
<1>1. l \in Seq(Symbols)
  BY DEF FitsLine
<1>2. <<>> \in Seq(Symbols) /\ <<p>> \in Seq(Symbols)
  OBVIOUS
<1>3. <<p>> \o l \o Crlf \in Seq(Symbols)
  BY <1>1, <1>2, CrlfIs, ConcatProperties
<1>4. e = <<p>> \o l \o Crlf \o <<>>
  BY <1>3, ConcatEmptySeq
<1> QED
  BY <1>1, <1>2, <1>4, FrameIs

LEMMA RepliesSent ==
  ASSUME NEW reply \in Replies
  PROVE  Sent(reply, Encode(reply))
<1>0. /\ "+" \in Symbols /\ "-" \in Symbols /\ ":" \in Symbols /\ "$" \in Symbols
      /\ <<>> \in Seq(Symbols)
  BY DEF Symbols
<1>1. ASSUME NEW t \in {"string", "error"}, NEW s \in Texts, OneLine(s),
             reply = [type |-> t, text |-> s]
      PROVE  Sent(reply, Encode(reply))
  <2>1. FitsLine(s)
    <3>1. s \in Seq(Symbols) /\ Len(s) <= MaxReply
      BY TextsAre
    <3>2. DOMAIN s = 1 .. Len(s)
      BY <3>1, LenProperties
    <3> QED
      BY <1>1, <3>1, <3>2 DEF FitsLine, NoReturn, OneLine
  <2>2. reply.type = t /\ reply.text = s
    BY <1>1
  <2>3. PICK p \in Symbols : p = FirstOf(reply) /\ Encode(reply) = <<p>> \o s \o Crlf
    <3>1. CASE t = "string"
      <4>1. FirstOf(reply) = "+" /\ Encode(reply) = <<"+">> \o s \o Crlf
        BY <2>2, <3>1 DEF FirstOf, Encode
      <4> QED
        BY <1>0, <4>1
    <3>2. CASE t = "error"
      <4>1. FirstOf(reply) = "-" /\ Encode(reply) = <<"-">> \o s \o Crlf
        BY <2>2, <3>2 DEF FirstOf, Encode
      <4> QED
        BY <1>0, <4>1
    <3> QED
      BY <3>1, <3>2
  <2>4. LineOf(reply) = s /\ RestOf(reply) = <<>>
    BY <2>2 DEF LineOf, RestOf
  <2>5. Encode(reply) \in Seq(Symbols) /\ Framed(Encode(reply), p, s, <<>>)
    BY <2>1, <2>3, LineSent
  <2> QED
    BY <1>0, <2>1, <2>3, <2>4, <2>5 DEF Sent
<1>2. ASSUME NEW s \in Texts, reply = [type |-> "bulk", text |-> s]
      PROVE  Sent(reply, Encode(reply))
  <2>1. s \in Seq(Symbols) /\ Len(s) \in Nat /\ Len(s) <= MaxReply
    BY TextsAre
  <2>2. Len(s) \in Integral
    BY <2>1, LimitsAssumption DEF Integral
  <2>3. FitsLine(Spell(Len(s)))
    BY <2>2, NumbersFit
  <2>4. reply.type = "bulk" /\ reply.text = s
    BY <1>2
  <2>5. /\ FirstOf(reply) = "$" /\ LineOf(reply) = Spell(Len(s)) /\ RestOf(reply) = s \o Crlf
        /\ Encode(reply) = Bulk(s)
    BY <2>4 DEF FirstOf, LineOf, RestOf, Encode
  <2>6. /\ Bulk(s) \in Seq(Symbols) /\ s \o Crlf \in Seq(Symbols)
        /\ Framed(Bulk(s), "$", Spell(Len(s)), s \o Crlf)
    BY <2>1, BulkIs
  <2> QED
    BY <2>3, <2>5, <2>6 DEF Sent
<1>3. ASSUME NEW n \in Integral, reply = [type |-> "integer", integer |-> n]
      PROVE  Sent(reply, Encode(reply))
  <2>1. FitsLine(Spell(n))
    BY NumbersFit
  <2>2. reply.type = "integer" /\ reply.integer = n
    BY <1>3
  <2>3. /\ FirstOf(reply) = ":" /\ LineOf(reply) = Spell(n) /\ RestOf(reply) = <<>>
        /\ Encode(reply) = <<":">> \o Spell(n) \o Crlf
    BY <2>2 DEF FirstOf, LineOf, RestOf, Encode
  <2>4. Encode(reply) \in Seq(Symbols) /\ Framed(Encode(reply), ":", Spell(n), <<>>)
    BY <1>0, <2>1, <2>3, LineSent
  <2> QED
    BY <1>0, <2>1, <2>3, <2>4 DEF Sent
<1>4. ASSUME reply = [type |-> "nil"]
      PROVE  Sent(reply, Encode(reply))
  <2>1. FitsLine(Spell(-1))
    <3>1. -1 \in Integral
      BY LimitsAssumption DEF Integral
    <3> QED
      BY <3>1, NumbersFit
  <2>2. reply.type = "nil"
    BY <1>4
  <2>3. /\ FirstOf(reply) = "$" /\ LineOf(reply) = Spell(-1) /\ RestOf(reply) = <<>>
        /\ Encode(reply) = <<"$">> \o Spell(-1) \o Crlf
    BY <2>2 DEF FirstOf, LineOf, RestOf, Encode
  <2>4. Encode(reply) \in Seq(Symbols) /\ Framed(Encode(reply), "$", Spell(-1), <<>>)
    BY <1>0, <2>1, <2>3, LineSent
  <2> QED
    BY <1>0, <2>1, <2>3, <2>4 DEF Sent
<1> QED
  BY <1>1, <1>2, <1>3, <1>4, KindsOfReplies DEF KindOf
-----------------------------------------------------------------------------
(* Where the reader is when it has heard the beginning of a reply.         *)

Begins(s, e) == Len(s) <= Len(e) /\ \A i \in 1 .. Len(s) : s[i] = e[i]

Follows(reply) ==
  /\ place \notin {"write", "prefix", "done"} => prefix = FirstOf(reply)
  /\ place = "line" => Len(input) = 1 + Len(line) /\ Begins(line, LineOf(reply))
  /\ place = "newline" => Len(input) = 2 + Len(line) /\ line = LineOf(reply)
  /\ place \in {"payload", "ending"} =>
       /\ reply.type = "bulk" /\ line = LineOf(reply) /\ size = Len(reply.text)
       /\ Len(input) = 3 + Len(line) + Len(text) + Len(ending)
  /\ place = "payload" => Begins(text, reply.text)
  /\ place = "ending" => text = reply.text /\ Begins(ending, Crlf)
  /\ place = "done" =>
       \/ result = reply /\ Len(input) = Len(Encode(reply))
       \/ result = [type |-> "closed"] /\ Len(input) < Len(Encode(reply))

\* Whatever reply it is that the input begins, the reader is where that requires.
Tracks == \A reply \in Replies : Begins(input, Encode(reply)) => Follows(reply)

\* One element more.
LEMMA BeginsLonger ==
  ASSUME NEW S, NEW s \in Seq(S), NEW e, Len(e) \in Nat, NEW b \in S, Begins(Append(s, b), e)
  PROVE  Begins(s, e) /\ Len(s) + 1 <= Len(e) /\ Len(s) + 1 \in 1 .. Len(e) /\ e[Len(s) + 1] = b
<1>1. PICK t : t = Append(s, b)
  OBVIOUS
<1>2. /\ Len(t) = Len(s) + 1 /\ Len(s) \in Nat /\ t[Len(s) + 1] = b
      /\ \A i \in 1 .. Len(s) : t[i] = s[i]
  BY <1>1, AppendProperties, LenProperties
<1>3. Len(t) <= Len(e) /\ \A i \in 1 .. Len(t) : t[i] = e[i]
  BY <1>1 DEF Begins
<1>4. Len(s) + 1 \in 1 .. Len(t) /\ \A i \in 1 .. Len(s) : i \in 1 .. Len(t)
  BY <1>2
<1> QED
  BY <1>2, <1>3, <1>4 DEF Begins

LEMMA BeginsAppended ==
  ASSUME NEW S, NEW s \in Seq(S), NEW e, Len(e) \in Nat, NEW b \in S, Begins(s, e),
         Len(s) < Len(e), e[Len(s) + 1] = b
  PROVE  Begins(Append(s, b), e)
<1>1. PICK t : t = Append(s, b)
  OBVIOUS
<1>2. /\ Len(t) = Len(s) + 1 /\ Len(s) \in Nat /\ t[Len(s) + 1] = b
      /\ \A i \in 1 .. Len(s) : t[i] = s[i]
  BY <1>1, AppendProperties, LenProperties
<1>3. ASSUME NEW i \in 1 .. Len(t) PROVE t[i] = e[i]
  <2>1. i \in 1 .. Len(s) \/ i = Len(s) + 1
    BY <1>2
  <2> QED
    BY <1>2, <2>1 DEF Begins
<1>4. Len(t) <= Len(e)
  BY <1>2
<1> QED
  BY <1>1, <1>3, <1>4 DEF Begins

\* A beginning as long as the whole is the whole.
LEMMA BeginsWhole ==
  ASSUME NEW S, NEW s \in Seq(S), NEW e \in Seq(S), Begins(s, e), Len(s) = Len(e)
  PROVE  s = e
BY SeqEqual DEF Begins

\* What is known of a reply, and where its parts are.
LEMMA PartsOf ==
  ASSUME NEW reply \in Replies, NEW e, e = Encode(reply),
         NEW l, l = LineOf(reply), NEW r, r = RestOf(reply)
  PROVE  /\ e \in Seq(Symbols) /\ l \in Seq(Symbols) /\ r \in Seq(Symbols)
         /\ Len(e) \in Nat /\ Len(l) \in Nat /\ Len(r) \in Nat
         /\ Len(e) = Len(l) + 3 + Len(r) /\ Len(l) <= MaxReply /\ NoReturn(l)
         /\ Framed(e, FirstOf(reply), l, r)
<1>1. Sent(reply, e)
  BY RepliesSent
<1>2. e \in Seq(Symbols) /\ l \in Seq(Symbols) /\ r \in Seq(Symbols)
  BY <1>1 DEF Sent, FitsLine
<1>3. Len(e) \in Nat /\ Len(l) \in Nat /\ Len(r) \in Nat
  BY <1>2, LenProperties
<1>4. Framed(e, FirstOf(reply), l, r) /\ Len(l) <= MaxReply /\ NoReturn(l)
  BY <1>1 DEF Sent, FitsLine
<1>5. Len(e) = Len(l) + 3 + Len(r)
  BY <1>4 DEF Framed
<1> QED
  BY <1>2, <1>3, <1>4, <1>5

LEMMA BulkReply ==
  ASSUME NEW reply \in Replies, reply.type = "bulk"
  PROVE  /\ reply = [type |-> "bulk", text |-> reply.text]
         /\ reply.text \in Seq(Symbols) /\ Len(reply.text) \in 0 .. MaxReply
         /\ FirstOf(reply) = "$" /\ LineOf(reply) = Spell(Len(reply.text))
         /\ Concatenates(RestOf(reply), reply.text, Crlf)
<1>1. PICK s \in Texts : reply = [type |-> "bulk", text |-> s]
  BY KindsOfReplies DEF KindOf
<1>2. reply.text = s
  BY <1>1
<1>3. s \in Seq(Symbols) /\ Len(s) \in Nat /\ Len(s) <= MaxReply
  BY TextsAre
<1>4. Len(s) \in 0 .. MaxReply
  BY <1>3, LimitsAssumption
<1>5. FirstOf(reply) = "$" /\ LineOf(reply) = Spell(Len(s)) /\ RestOf(reply) = s \o Crlf
  BY <1>2 DEF FirstOf, LineOf, RestOf
<1>6. Concatenates(s \o Crlf, s, Crlf)
  BY <1>3, CrlfIs, JoinIndex
<1> QED
  BY <1>1, <1>2, <1>3, <1>4, <1>5, <1>6

\* Before the reader is done, something of the reply is still to come.
LEMMA MoreToCome ==
  ASSUME Holds, Hears, NEW reply \in Replies, Follows(reply), place # "done"
  PROVE  Len(input) < Len(Encode(reply))
<1>1. PICK e : e = Encode(reply)
  OBVIOUS
<1>2. PICK l : l = LineOf(reply)
  OBVIOUS
<1>3. PICK r : r = RestOf(reply)
  OBVIOUS
<1>4. Len(l) \in Nat /\ Len(r) \in Nat /\ Len(e) = Len(l) + 3 + Len(r)
  BY <1>1, <1>2, <1>3, PartsOf
<1>5. Len(line) \in Nat /\ Len(text) \in Nat /\ Len(ending) \in Nat
  BY LenProperties DEF Holds
<1>6. CASE place \in {"write", "prefix"}
  <2>1. input = <<>> /\ Len(<<>>) = 0
    BY <1>6 DEF Holds
  <2> QED
    BY <1>1, <1>4, <2>1
<1>7. CASE place = "line"
  <2>1. Len(input) = 1 + Len(line) /\ Len(line) <= Len(l)
    BY <1>2, <1>7 DEF Follows, Begins
  <2> QED
    BY <1>1, <1>4, <1>5, <2>1
<1>8. CASE place = "newline"
  <2>1. Len(input) = 2 + Len(line) /\ line = l
    BY <1>2, <1>8 DEF Follows
  <2> QED
    BY <1>1, <1>4, <2>1
<1>9. CASE place \in {"payload", "ending"}
  <2>1. /\ reply.type = "bulk" /\ line = l /\ size = Len(reply.text)
        /\ Len(input) = 3 + Len(line) + Len(text) + Len(ending)
    BY <1>2, <1>9 DEF Follows
  <2>2. PICK m \in Nat : m = Len(reply.text)
    BY <2>1, BulkReply, LimitsAssumption
  <2>3. Len(r) = m + 2
    BY <1>3, <2>1, <2>2, BulkReply, CrlfIs DEF Concatenates
  <2>4. Len(text) <= m /\ Len(ending) < 2
    <3>1. Len(<<>>) = 0
      OBVIOUS
    <3>2. Len(text) <= size /\ (Len(ending) < 2 \/ ending = <<>>)
      BY <1>9 DEF Holds
    <3> QED
      BY <2>1, <2>2, <3>1, <3>2
  <2>5. Len(input) = 3 + Len(l) + Len(text) + Len(ending)
    BY <2>1
  <2> QED
    BY <1>1, <1>4, <1>5, <2>3, <2>4, <2>5
<1> QED
  BY <1>6, <1>7, <1>8, <1>9 DEF Holds, Places

LEMMA InitTracks == Init => Tracks
<1> SUFFICES ASSUME Init, NEW reply \in Replies PROVE Follows(reply)
  BY DEF Tracks
<1>1. place = "write"
  BY Zenon DEF Init
<1> QED
  BY <1>1 DEF Follows

LEMMA PrefixFollows ==
  ASSUME Holds, NEW b \in Bytes, ReadPrefix(b), NEW reply \in Replies,
         Begins(input', Encode(reply))
  PROVE  Follows(reply)'
<1>1. PICK e : e = Encode(reply)
  OBVIOUS
<1>2. PICK l : l = LineOf(reply)
  OBVIOUS
<1>3. PICK r : r = RestOf(reply)
  OBVIOUS
<1>4. Len(e) \in Nat /\ Len(l) \in Nat /\ Framed(e, FirstOf(reply), l, r)
  BY <1>1, <1>2, <1>3, PartsOf
<1>5. place = "prefix" /\ place' = "line" /\ input' = Append(input, b) /\ prefix' = b /\ line' = line
  BY DEF ReadPrefix, GoTo
<1>6. input = <<>> /\ line = <<>> /\ input \in Seq(Bytes) /\ Len(<<>>) = 0
  BY <1>5 DEF Holds
<1>7. Begins(Append(input, b), e)
  BY <1>1, <1>5
<1>8. e[Len(input) + 1] = b
  BY <1>4, <1>6, <1>7, BeginsLonger
<1>9. b = FirstOf(reply)
  BY <1>4, <1>6, <1>8 DEF Framed
<1>10. Len(input') = 1
  BY <1>5, <1>6, AppendProperties
<1>11. Begins(line', l)
  BY <1>4, <1>5, <1>6 DEF Begins
<1> QED
  BY <1>2, <1>5, <1>6, <1>9, <1>10, <1>11 DEF Follows

LEMMA LineFollows ==
  ASSUME Holds, NEW b \in Bytes, ReadLine(b), NEW reply \in Replies,
         Begins(input', Encode(reply)), Follows(reply)
  PROVE  Follows(reply)'
<1>1. PICK e : e = Encode(reply)
  OBVIOUS
<1>2. PICK l : l = LineOf(reply)
  OBVIOUS
<1>3. PICK r : r = RestOf(reply)
  OBVIOUS
<1>4. /\ Len(e) \in Nat /\ Len(l) \in Nat /\ Framed(e, FirstOf(reply), l, r)
      /\ l \in Seq(Symbols) /\ NoReturn(l) /\ Len(l) <= MaxReply
  BY <1>1, <1>2, <1>3, PartsOf
<1>5. place = "line" /\ input' = Append(input, b) /\ prefix' = prefix
  BY DEF ReadLine, Receive
<1>6. Len(input) = 1 + Len(line) /\ Begins(line, l) /\ prefix = FirstOf(reply)
  BY <1>2, <1>5 DEF Follows
<1>7. input \in Seq(Bytes) /\ line \in Seq(Bytes)
  BY DEF Holds
<1>8. PICK n \in Nat : n = Len(line)
  BY <1>7, LenProperties
<1>9. Begins(Append(input, b), e)
  BY <1>1, <1>5
<1>10. e[Len(input) + 1] = b
  BY <1>4, <1>7, <1>9, BeginsLonger
<1>11. e[n + 2] = b /\ n <= Len(l)
  <2>1. (1 + n) + 1 = n + 2
    OBVIOUS
  <2> QED
    BY <1>6, <1>8, <1>10, <2>1 DEF Begins
<1>12. Len(input') = n + 2
  BY <1>5, <1>6, <1>7, <1>8, AppendProperties
<1>13. CASE n = Len(l)
  <2>1. b = "CR"
    BY <1>4, <1>11, <1>13 DEF Framed
  <2>2. place' = "newline" /\ line' = line
    BY <2>1 DEF ReadLine, GoTo
  <2>3. line = l
    <3>1. line \in Seq(Symbols)
      <4>1. Bytes \subseteq Symbols
        BY DEF Symbols
      <4> QED
        BY <1>7, <4>1, SeqMonotonic
    <3>2. Len(line) = Len(l)
      BY <1>8, <1>13
    <3> QED
      BY <1>4, <1>6, <3>1, <3>2, BeginsWhole
  <2> QED
    BY <1>2, <1>5, <1>6, <1>8, <1>12, <2>2, <2>3 DEF Follows
<1>14. CASE n # Len(l)
  <2>1. n + 1 \in 1 .. Len(l) /\ n < Len(l) /\ 1 + (n + 1) = n + 2
    BY <1>4, <1>11, <1>14
  <2>2. e[1 + (n + 1)] = l[n + 1]
    BY <1>4, <2>1 DEF Framed
  <2>3. l[n + 1] = b
    BY <1>11, <2>1, <2>2
  <2>4. b # "CR"
    BY <1>4, <2>1, <2>3 DEF NoReturn
  <2>5. line' = Append(line, b)
    BY <2>4 DEF ReadLine
  <2>6. Begins(line', l)
    BY <1>4, <1>6, <1>7, <1>8, <2>1, <2>3, <2>5, BeginsAppended
  <2>7. Len(line') = n + 1
    BY <1>7, <1>8, <2>5, AppendProperties
  <2>8. ~TooLong(line')
    BY <1>4, <2>1, <2>7, LimitsAssumption DEF TooLong
  <2>9. place' = "line"
    BY <2>4, <2>8 DEF ReadLine, GoTo
  <2>10. Len(input') = 1 + Len(line')
    BY <1>12, <2>7
  <2> QED
    BY <1>2, <1>5, <1>6, <2>6, <2>9, <2>10 DEF Follows
<1> QED
  BY <1>13, <1>14
LEMMA NewlineFollows ==
  ASSUME Holds, NEW b \in Bytes, ReadNewline(b), NEW reply \in Replies,
         Begins(input', Encode(reply)), Follows(reply)
  PROVE  Follows(reply)'
<1>1. PICK e : e = Encode(reply)
  OBVIOUS
<1>2. PICK l : l = LineOf(reply)
  OBVIOUS
<1>3. PICK r : r = RestOf(reply)
  OBVIOUS
<1>4. /\ Len(e) \in Nat /\ Len(l) \in Nat /\ Framed(e, FirstOf(reply), l, r)
      /\ Len(e) = Len(l) + 3 + Len(r)
  BY <1>1, <1>2, <1>3, PartsOf
<1>5. place = "newline" /\ input' = Append(input, b) /\ place' = "done"
  BY DEF ReadNewline, Receive, Return
<1>6. Len(input) = 2 + Len(l) /\ line = l /\ prefix = FirstOf(reply)
  BY <1>2, <1>5 DEF Follows
<1>7. input \in Seq(Bytes)
  BY DEF Holds
<1>8. e[Len(input) + 1] = b
  <2>1. Begins(Append(input, b), e)
    BY <1>1, <1>5
  <2> QED
    BY <1>4, <1>7, <2>1, BeginsLonger
<1>9. b = "LF"
  <2>1. Len(input) + 1 = Len(l) + 3
    BY <1>4, <1>6
  <2> QED
    BY <1>4, <1>8, <2>1 DEF Framed
<1>10. Len(input') = Len(l) + 3
  BY <1>4, <1>5, <1>6, <1>7, AppendProperties
<1>11. /\ prefix # "$"
       /\ result' = CASE prefix = "-"                    -> [type |-> "error", text |-> line]
                      [] prefix = "+"                    -> [type |-> "string", text |-> line]
                      [] prefix = ":" /\ IsInteger(line) -> [type |-> "integer", integer |-> ValueOf(line)]
                      [] OTHER                           -> Broken
  BY <1>9 DEF ReadNewline, Return
<1>12. reply.type # "bulk"
  BY <1>6, <1>11, BulkReply
<1>13. Len(input') = Len(e)
  <2>1. r = <<>> /\ Len(<<>>) = 0
    BY <1>3, <1>12 DEF RestOf
  <2> QED
    BY <1>4, <1>10, <2>1
<1>14. result' = reply
  <2>1. ASSUME NEW s \in Texts, reply = [type |-> "string", text |-> s] PROVE result' = reply
    <3>1. reply.type = "string" /\ reply.text = s
      BY <2>1
    <3>2. prefix = "+" /\ line = s
      BY <1>2, <1>6, <3>1 DEF FirstOf, LineOf
    <3>3. result' = [type |-> "string", text |-> line]
      BY <1>11, <3>2
    <3> QED
      BY <2>1, <3>2, <3>3
  <2>2. ASSUME NEW s \in Texts, reply = [type |-> "error", text |-> s] PROVE result' = reply
    <3>1. reply.type = "error" /\ reply.text = s
      BY <2>2
    <3>2. prefix = "-" /\ line = s
      BY <1>2, <1>6, <3>1 DEF FirstOf, LineOf
    <3>3. result' = [type |-> "error", text |-> line]
      BY <1>11, <3>2
    <3> QED
      BY <2>2, <3>2, <3>3
  <2>3. ASSUME NEW n \in Integral, reply = [type |-> "integer", integer |-> n] PROVE result' = reply
    <3>1. reply.type = "integer" /\ reply.integer = n
      BY <2>3
    <3>2. prefix = ":" /\ line = Spell(n)
      BY <1>2, <1>6, <3>1 DEF FirstOf, LineOf
    <3>3. Spelled(Spell(n), n)
      <4>1. n \in Int
        BY LimitsAssumption DEF Integral
      <4> QED
        BY <4>1, SpellProperties
    <3>4. IsInteger(line) /\ ValueOf(line) = n
      BY <3>2, <3>3 DEF Spelled
    <3>5. result' = [type |-> "integer", integer |-> ValueOf(line)]
      BY <1>11, <3>2, <3>4
    <3> QED
      BY <2>3, <3>4, <3>5
  <2>4. reply # [type |-> "nil"]
    <3>1. ASSUME reply = [type |-> "nil"] PROVE FirstOf(reply) = "$"
      <4>1. reply.type = "nil"
        BY <3>1
      <4> QED
        BY <4>1 DEF FirstOf
    <3> QED
      BY <1>6, <1>11, <3>1
  <2>5. \A s \in Texts : reply # [type |-> "bulk", text |-> s]
    BY <1>12
  <2> QED
    BY <2>1, <2>2, <2>3, <2>4, <2>5, KindsOfReplies DEF KindOf
<1> QED
  BY <1>1, <1>5, <1>13, <1>14 DEF Follows

LEMMA BulkSizeFollows ==
  ASSUME Holds, NEW b \in Bytes, ReadBulkSize(b), NEW reply \in Replies,
         Begins(input', Encode(reply)), Follows(reply)
  PROVE  Follows(reply)'
<1>1. PICK e : e = Encode(reply)
  OBVIOUS
<1>2. PICK l : l = LineOf(reply)
  OBVIOUS
<1>3. PICK r : r = RestOf(reply)
  OBVIOUS
<1>4. Len(e) \in Nat /\ Len(l) \in Nat /\ Len(e) = Len(l) + 3 + Len(r)
  BY <1>1, <1>2, <1>3, PartsOf
<1>5. /\ place = "newline" /\ input' = Append(input, b) /\ prefix = "$"
      /\ prefix' = prefix /\ line' = line /\ text' = text /\ ending' = ending
  BY DEF ReadBulkSize, Receive
<1>6. Len(input) = 2 + Len(l) /\ line = l /\ prefix = FirstOf(reply)
  BY <1>2, <1>5 DEF Follows
<1>7. input \in Seq(Bytes) /\ text = <<>> /\ ending = <<>> /\ Len(<<>>) = 0
  BY <1>5 DEF Holds
<1>8. Len(input') = Len(l) + 3
  BY <1>4, <1>5, <1>6, <1>7, AppendProperties
<1>9. CASE reply.type = "bulk"
  <2>1. PICK m \in 0 .. MaxReply : m = Len(reply.text)
    BY <1>9, BulkReply
  <2>2. m \in Int /\ m \in Nat /\ m \in Integral
    BY LimitsAssumption DEF Integral
  <2>3. line = Spell(m)
    BY <1>2, <1>6, <1>9, <2>1, BulkReply
  <2>4. Spelled(Spell(m), m)
    BY <2>2, SpellProperties
  <2>5. IsInteger(line) /\ ValueOf(line) = m /\ SizeAllowed(ValueOf(line))
    BY <2>2, <2>3, <2>4 DEF Spelled, SizeAllowed
  <2>6. size' = m /\ place' = IF m = 0 THEN "ending" ELSE "payload"
    BY <2>5 DEF ReadBulkSize, GoTo
  <2>7. Len(input') = 3 + Len(line') + Len(text') + Len(ending')
    BY <1>4, <1>5, <1>6, <1>7, <1>8
  <2>8. Begins(text', reply.text) /\ Begins(ending', Crlf)
    BY <1>5, <1>7, <2>1, <2>2, CrlfIs DEF Begins
  <2>9. m = 0 => text' = reply.text
    <3>1. reply.text \in Seq(Symbols)
      BY <1>9, BulkReply
    <3>2. Len(reply.text) = 0 => reply.text = <<>>
      BY <3>1, EmptySeq
    <3> QED
      BY <1>5, <1>7, <2>1, <3>2
  <2>10. place' \in {"ending", "payload"} /\ (place' = "ending" => m = 0)
    BY <2>6
  <2> QED
    BY <1>2, <1>5, <1>6, <1>9, <2>1, <2>6, <2>7, <2>8, <2>9, <2>10 DEF Follows
<1>10. CASE reply.type # "bulk"
  <2>1. reply = [type |-> "nil"]
    <3>1. ASSUME NEW t \in {"string", "error"}, NEW s \in Texts, reply = [type |-> t, text |-> s]
          PROVE  FirstOf(reply) # "$"
      <4>1. reply.type = t
        BY <3>1
      <4> QED
        BY <4>1 DEF FirstOf
    <3>2. ASSUME NEW n \in Integral, reply = [type |-> "integer", integer |-> n]
          PROVE  FirstOf(reply) # "$"
      <4>1. reply.type = "integer"
        BY <3>2
      <4> QED
        BY <4>1 DEF FirstOf
    <3>3. \A s \in Texts : reply # [type |-> "bulk", text |-> s]
      BY <1>10
    <3>4. FirstOf(reply) = "$"
      BY <1>5, <1>6
    <3> QED
      BY <3>1, <3>2, <3>3, <3>4, KindsOfReplies DEF KindOf
  <2>2. line = Spell(-1)
    <3>1. reply.type = "nil"
      BY <2>1
    <3>2. LineOf(reply) = Spell(-1)
      BY <3>1 DEF LineOf
    <3> QED
      BY <1>2, <1>6, <3>2
  <2>3. Spelled(Spell(-1), -1) /\ -1 \in Integral
    BY SpellProperties, LimitsAssumption DEF Integral
  <2>4. IsInteger(line) /\ ValueOf(line) = -1
    BY <2>2, <2>3 DEF Spelled
  <2>5. ~SizeAllowed(ValueOf(line))
    BY <2>4, LimitsAssumption DEF SizeAllowed
  <2>6. place' = "done" /\ result' = reply
    BY <2>1, <2>4, <2>5 DEF ReadBulkSize, Return
  <2>7. Len(input') = Len(e)
    <3>1. r = <<>>
      BY <1>3, <1>10 DEF RestOf
    <3> QED
      BY <1>4, <1>7, <1>8, <3>1
  <2> QED
    BY <1>1, <2>6, <2>7 DEF Follows
<1> QED
  BY <1>9, <1>10

\* Bytes behind the line of a bulk string.
LEMMA BehindLine ==
  ASSUME NEW reply \in Replies, reply.type = "bulk", NEW k \in Nat, NEW b,
         k + 1 <= Len(RestOf(reply)), NEW n, n = 3 + Len(LineOf(reply)) + k + 1, Encode(reply)[n] = b
  PROVE  /\ k < Len(reply.text) => reply.text[k + 1] = b
         /\ k = Len(reply.text) => b = "CR"
         /\ k = Len(reply.text) + 1 => b = "LF"
<1>1. PICK e : e = Encode(reply)
  OBVIOUS
<1>2. PICK l : l = LineOf(reply)
  OBVIOUS
<1>3. PICK r : r = RestOf(reply)
  OBVIOUS
<1>4. Len(l) \in Nat /\ Len(r) \in Nat /\ Framed(e, FirstOf(reply), l, r)
  BY <1>1, <1>2, <1>3, PartsOf
<1>5. k + 1 \in 1 .. Len(r) /\ n = Len(l) + 3 + (k + 1)
  BY <1>2, <1>3, <1>4
<1>6. r[k + 1] = b
  BY <1>1, <1>4, <1>5 DEF Framed
<1>7. PICK m \in Nat : m = Len(reply.text)
  BY BulkReply, LimitsAssumption
<1>8. Concatenates(r, reply.text, Crlf)
  BY <1>3, BulkReply
<1>9. CASE k < m
  <2>1. k + 1 \in 1 .. m
    BY <1>9
  <2>2. r[k + 1] = reply.text[k + 1]
    BY <1>7, <1>8, <2>1 DEF Concatenates
  <2> QED
    BY <1>6, <1>7, <1>9, <2>2
<1>10. CASE k = m
  <2>1. r[m + 1] = Crlf[1]
    BY <1>7, <1>8, CrlfIs DEF Concatenates
  <2> QED
    BY <1>6, <1>7, <1>10, <2>1, CrlfIs
<1>11. CASE k = m + 1
  <2>1. r[m + 2] = Crlf[2] /\ k + 1 = m + 2
    BY <1>7, <1>8, <1>11, CrlfIs DEF Concatenates
  <2> QED
    BY <1>6, <1>7, <1>11, <2>1, CrlfIs
<1> QED
  BY <1>7, <1>9, <1>10, <1>11

LEMMA PayloadFollows ==
  ASSUME Holds, NEW b \in Bytes, ReadPayload(b), NEW reply \in Replies,
         Begins(input', Encode(reply)), Follows(reply)
  PROVE  Follows(reply)'
<1>1. PICK e : e = Encode(reply)
  OBVIOUS
<1>2. PICK l : l = LineOf(reply)
  OBVIOUS
<1>3. PICK r : r = RestOf(reply)
  OBVIOUS
<1>4. Len(e) \in Nat /\ Len(l) \in Nat /\ Len(e) = Len(l) + 3 + Len(r)
  BY <1>1, <1>2, <1>3, PartsOf
<1>5. /\ place = "payload" /\ input' = Append(input, b) /\ text' = Append(text, b)
      /\ place' = IF Len(text') = size THEN "ending" ELSE "payload"
      /\ prefix' = prefix /\ line' = line /\ size' = size /\ ending' = ending
  BY DEF ReadPayload, Receive, GoTo
<1>6. /\ reply.type = "bulk" /\ line = l /\ size = Len(reply.text) /\ Begins(text, reply.text)
      /\ Len(input) = 3 + Len(line) + Len(text) + Len(ending) /\ prefix = FirstOf(reply)
  BY <1>2, <1>5 DEF Follows
<1>7. /\ input \in Seq(Bytes) /\ text \in Seq(Bytes) /\ ending = <<>> /\ Len(<<>>) = 0
      /\ Len(text) < size
  BY <1>5 DEF Holds
<1>8. PICK n \in Nat : n = Len(text)
  BY <1>7, LenProperties
<1>9. PICK m \in Nat : m = Len(reply.text)
  BY <1>6, BulkReply, LimitsAssumption
<1>10. n < m /\ size = m /\ Len(input) = 3 + Len(l) + n
  BY <1>4, <1>6, <1>7, <1>8, <1>9
<1>11. e[3 + Len(l) + n + 1] = b /\ 3 + Len(l) + n + 1 <= Len(e)
  <2>1. Begins(Append(input, b), e)
    BY <1>1, <1>5
  <2>2. e[Len(input) + 1] = b /\ Len(input) + 1 <= Len(e)
    BY <1>4, <1>7, <2>1, BeginsLonger
  <2> QED
    BY <1>10, <2>2
<1>12. reply.text[n + 1] = b
  <2>1. n + 1 <= Len(r)
    BY <1>3, <1>6, <1>9, <1>10, BulkReply, CrlfIs DEF Concatenates
  <2> QED
    BY <1>1, <1>2, <1>3, <1>6, <1>9, <1>10, <1>11, <2>1, BehindLine
<1>13. Begins(text', reply.text)
  <2>1. Len(reply.text) \in Nat /\ Len(text) < Len(reply.text) /\ reply.text[Len(text) + 1] = b
    BY <1>8, <1>9, <1>10, <1>12
  <2> QED
    BY <1>5, <1>6, <1>7, <2>1, BeginsAppended
<1>14. Len(text') = n + 1 /\ Len(input') = Len(input) + 1
  BY <1>5, <1>7, <1>8, AppendProperties
<1>15. Len(input') = 3 + Len(line') + Len(text') + Len(ending')
  BY <1>4, <1>5, <1>6, <1>7, <1>10, <1>14
<1>16. ASSUME place' = "ending" PROVE text' = reply.text /\ Begins(ending', Crlf)
  <2>1. Len(text') = Len(reply.text)
    BY <1>5, <1>6, <1>16
  <2>2. text' \in Seq(Symbols)
    <3>1. Bytes \subseteq Symbols
      BY DEF Symbols
    <3>2. text' \in Seq(Bytes)
      BY <1>5, <1>7, AppendProperties
    <3> QED
      BY <3>1, <3>2, SeqMonotonic
  <2>3. reply.text \in Seq(Symbols)
    BY <1>6, BulkReply
  <2>4. text' = reply.text
    BY <1>13, <2>1, <2>2, <2>3, BeginsWhole
  <2>5. Begins(ending', Crlf)
    BY <1>5, <1>7, CrlfIs DEF Begins
  <2> QED
    BY <2>4, <2>5
<1>17. place' \in {"ending", "payload"}
  BY <1>5
<1> QED
  BY <1>2, <1>5, <1>6, <1>13, <1>15, <1>16, <1>17 DEF Follows

LEMMA EndingFollows ==
  ASSUME Holds, NEW b \in Bytes, ReadEnding(b), NEW reply \in Replies,
         Begins(input', Encode(reply)), Follows(reply)
  PROVE  Follows(reply)'
<1>1. PICK e : e = Encode(reply)
  OBVIOUS
<1>2. PICK l : l = LineOf(reply)
  OBVIOUS
<1>3. PICK r : r = RestOf(reply)
  OBVIOUS
<1>4. Len(e) \in Nat /\ Len(l) \in Nat /\ Len(e) = Len(l) + 3 + Len(r)
  BY <1>1, <1>2, <1>3, PartsOf
<1>5. /\ place = "ending" /\ input' = Append(input, b) /\ ending' = Append(ending, b)
      /\ prefix' = prefix /\ line' = line /\ size' = size /\ text' = text
  BY DEF ReadEnding, Receive
<1>6. /\ reply.type = "bulk" /\ line = l /\ size = Len(reply.text) /\ text = reply.text
      /\ Len(input) = 3 + Len(line) + Len(text) + Len(ending) /\ prefix = FirstOf(reply)
      /\ Begins(ending, Crlf)
  BY <1>2, <1>5 DEF Follows
<1>7. input \in Seq(Bytes) /\ ending \in Seq(Bytes) /\ Len(ending) < 2
  BY <1>5 DEF Holds
<1>8. PICK n \in Nat : n = Len(ending)
  BY <1>7, LenProperties
<1>9. PICK m \in Nat : m = Len(reply.text)
  BY <1>6, BulkReply, LimitsAssumption
<1>10. n < 2 /\ Len(input) = 3 + Len(l) + (m + n)
  <2>1. Len(line) = Len(l) /\ Len(text) = m /\ Len(ending) = n
    BY <1>6, <1>8, <1>9
  <2>2. Len(input) = 3 + Len(l) + m + n
    BY <1>6, <2>1
  <2> QED
    BY <1>4, <1>7, <1>8, <2>2
<1>11. e[3 + Len(l) + (m + n) + 1] = b
  <2>1. Begins(Append(input, b), e)
    BY <1>1, <1>5
  <2>2. e[Len(input) + 1] = b
    BY <1>4, <1>7, <2>1, BeginsLonger
  <2> QED
    BY <1>10, <2>2
<1>12. Len(r) = m + 2
  BY <1>3, <1>6, <1>9, BulkReply, CrlfIs DEF Concatenates
<1>13. (n = 0 => b = "CR") /\ (n = 1 => b = "LF")
  <2>1. PICK k \in Nat : k = m + n
    OBVIOUS
  <2>2. k + 1 <= Len(r) /\ 3 + Len(l) + k + 1 = 3 + Len(l) + (m + n) + 1
    BY <1>4, <1>10, <1>12, <2>1
  <2>3. /\ k = Len(reply.text) => b = "CR"
        /\ k = Len(reply.text) + 1 => b = "LF"
    BY <1>1, <1>2, <1>3, <1>6, <1>11, <2>1, <2>2, BehindLine
  <2> QED
    BY <1>9, <2>1, <2>3
<1>14. Crlf[n + 1] = b /\ n \in {0, 1}
  BY <1>10, <1>13, CrlfIs
<1>15. Begins(ending', Crlf)
  <2>1. Len(Crlf) \in Nat /\ Len(ending) < Len(Crlf) /\ Crlf[Len(ending) + 1] = b
    BY <1>8, <1>10, <1>14, CrlfIs
  <2> QED
    BY <1>5, <1>6, <1>7, <2>1, BeginsAppended
<1>16. Len(ending') = n + 1 /\ Len(input') = Len(input) + 1
  BY <1>5, <1>7, <1>8, AppendProperties
<1>17. Len(input') = 3 + Len(line') + Len(text') + Len(ending')
  <2>1. Len(line') = Len(l) /\ Len(text') = m /\ Len(ending') = n + 1
    BY <1>5, <1>6, <1>9, <1>16
  <2>2. Len(input') = 3 + Len(l) + m + (n + 1)
    BY <1>4, <1>10, <1>16
  <2> QED
    BY <2>1, <2>2
<1>18. CASE n = 0
  <2>1. place' = "ending"
    BY <1>16, <1>18 DEF ReadEnding, GoTo
  <2> QED
    BY <1>2, <1>5, <1>6, <1>15, <1>17, <2>1 DEF Follows
<1>19. CASE n = 1
  <2>1. ending' = Crlf
    <3>1. ending' \in Seq(Symbols)
      <4>1. Bytes \subseteq Symbols
        BY DEF Symbols
      <4>2. ending' \in Seq(Bytes)
        BY <1>5, <1>7, AppendProperties
      <4> QED
        BY <4>1, <4>2, SeqMonotonic
    <3>2. Len(ending') = Len(Crlf) /\ Crlf \in Seq(Symbols)
      BY <1>16, <1>19, CrlfIs
    <3> QED
      BY <1>15, <3>1, <3>2, BeginsWhole
  <2>2. place' = "done" /\ result' = [type |-> "bulk", text |-> text]
    BY <1>16, <1>19, <2>1 DEF ReadEnding, Return, EndsWell
  <2>3. result' = reply
    BY <1>6, <2>2, BulkReply
  <2>4. Len(input') = Len(e)
    BY <1>4, <1>10, <1>12, <1>16, <1>19
  <2> QED
    BY <1>1, <2>2, <2>3, <2>4 DEF Follows
<1> QED
  BY <1>14, <1>18, <1>19
LEMMA NextTracks ==
  ASSUME Holds, Hears, Tracks, [Next]_vars
  PROVE  Tracks'
<1> SUFFICES ASSUME NEW reply \in Replies, Begins(input', Encode(reply)) PROVE Follows(reply)'
  BY DEF Tracks
<1>1. PICK e : e = Encode(reply)
  OBVIOUS
<1>2. e \in Seq(Symbols) /\ Len(e) \in Nat
  BY <1>1, PartsOf
<1>3. ASSUME NEW b \in Bytes, input' = Append(input, b) PROVE Follows(reply)
  <2>1. input \in Seq(Bytes)
    BY DEF Holds
  <2>2. Begins(Append(input, b), e)
    BY <1>1, <1>3
  <2>3. Begins(input, e)
    BY <1>2, <2>1, <2>2, BeginsLonger
  <2> QED
    BY <1>1, <2>3 DEF Tracks
<1>4. ASSUME NEW b \in Bytes, ReadPrefix(b) PROVE Follows(reply)'
  BY <1>4, PrefixFollows
<1>5. ASSUME NEW b \in Bytes, ReadLine(b) PROVE Follows(reply)'
  <2>1. input' = Append(input, b)
    BY <1>5 DEF ReadLine, Receive
  <2>2. Follows(reply)
    BY <1>3, <2>1
  <2> QED
    BY <1>5, <2>2, LineFollows
<1>6. ASSUME NEW b \in Bytes, ReadNewline(b) PROVE Follows(reply)'
  <2>1. input' = Append(input, b)
    BY <1>6 DEF ReadNewline, Receive
  <2>2. Follows(reply)
    BY <1>3, <2>1
  <2> QED
    BY <1>6, <2>2, NewlineFollows
<1>7. ASSUME NEW b \in Bytes, ReadBulkSize(b) PROVE Follows(reply)'
  <2>1. input' = Append(input, b)
    BY <1>7 DEF ReadBulkSize, Receive
  <2>2. Follows(reply)
    BY <1>3, <2>1
  <2> QED
    BY <1>7, <2>2, BulkSizeFollows
<1>8. ASSUME NEW b \in Bytes, ReadPayload(b) PROVE Follows(reply)'
  <2>1. input' = Append(input, b)
    BY <1>8 DEF ReadPayload, Receive
  <2>2. Follows(reply)
    BY <1>3, <2>1
  <2> QED
    BY <1>8, <2>2, PayloadFollows
<1>9. ASSUME NEW b \in Bytes, ReadEnding(b) PROVE Follows(reply)'
  <2>1. input' = Append(input, b)
    BY <1>9 DEF ReadEnding, Receive
  <2>2. Follows(reply)
    BY <1>3, <2>1
  <2> QED
    BY <1>9, <2>2, EndingFollows
<1>10. CASE WriteSome
  <2>1. place' \in {"write", "prefix"}
    BY <1>10 DEF WriteSome
  <2> QED
    BY <2>1 DEF Follows
<1>11. CASE ConnectionEnds
  <2>1. /\ place # "done" /\ place' = "done" /\ result' = [type |-> "closed"]
        /\ input' = input
    BY <1>11 DEF ConnectionEnds, Return
  <2>2. Follows(reply)
    BY <2>1 DEF Tracks
  <2>3. Len(input) < Len(e)
    BY <1>1, <2>1, <2>2, MoreToCome
  <2> QED
    BY <1>1, <2>1, <2>3 DEF Follows
<1>12. CASE UNCHANGED vars
  <2>1. /\ place' = place /\ input' = input /\ prefix' = prefix /\ line' = line /\ size' = size
        /\ text' = text /\ ending' = ending /\ result' = result
    BY <1>12 DEF vars, parts
  <2>2. Follows(reply)
    BY <2>1 DEF Tracks
  <2> QED
    BY <2>1, <2>2 DEF Follows
<1> QED
  BY <1>4, <1>5, <1>6, <1>7, <1>8, <1>9, <1>10, <1>11, <1>12 DEF Next

LEMMA BeginningIs ==
  ASSUME NEW S, NEW s \in Seq(S), NEW n \in Nat, n <= Len(s), NEW u, u = SubSeq(s, 1, n)
  PROVE  u \in Seq(S) /\ Len(u) = n /\ \A i \in 1 .. n : u[i] = s[i]
BY SplitJoin

\* No byte is taken when a reply is complete.
NoneBehind == \A n \in 0 .. Len(input) - 1 : SubSeq(input, 1, n) \notin Encodings

LEMMA InitNoneBehind == Init => NoneBehind
<1> SUFFICES ASSUME Init PROVE NoneBehind
  OBVIOUS
<1>1. input = <<>>
  BY Zenon DEF Init
<1>2. Len(input) = 0
  BY <1>1
<1> QED
  BY <1>2 DEF NoneBehind

LEMMA ReceiveNoneBehind ==
  ASSUME Holds, Hears, Tracks, NoneBehind, place # "done", NEW b \in Bytes, input' = Append(input, b)
  PROVE  NoneBehind'
<1>1. PICK t : t = input'
  OBVIOUS
<1>2. input \in Seq(Bytes)
  BY DEF Holds
<1>3. PICK m \in Nat : m = Len(input)
  BY <1>2, LenProperties
<1>4. t \in Seq(Bytes) /\ Len(t) = m + 1 /\ \A i \in 1 .. m : t[i] = input[i]
  BY <1>1, <1>2, <1>3, AppendProperties
<1>5. input \notin Encodings
  <2> SUFFICES ASSUME NEW reply \in Replies, input = Encode(reply) PROVE FALSE
    BY DEF Encodings
  <2>1. Begins(input, Encode(reply))
    BY <1>3 DEF Begins
  <2>2. Len(input) < Len(Encode(reply))
    BY <2>1, MoreToCome DEF Tracks
  <2> QED
    BY <1>3, <2>2
<1>6. ASSUME NEW n \in 0 .. m PROVE SubSeq(t, 1, n) \notin Encodings
  <2>1. n \in Nat /\ n <= Len(t) /\ n <= m
    BY <1>4
  <2>2. PICK u : u = SubSeq(t, 1, n)
    OBVIOUS
  <2>3. PICK v : v = SubSeq(input, 1, n)
    OBVIOUS
  <2>4. u = v
    <3>1. u \in Seq(Bytes) /\ Len(u) = n /\ \A i \in 1 .. n : u[i] = t[i]
      BY <1>4, <2>1, <2>2, BeginningIs
    <3>2. v \in Seq(Bytes) /\ Len(v) = n /\ \A i \in 1 .. n : v[i] = input[i]
      BY <1>2, <1>3, <2>1, <2>3, BeginningIs
    <3>3. \A i \in 1 .. n : u[i] = v[i]
      BY <1>4, <2>1, <3>1, <3>2
    <3> QED
      BY <3>1, <3>2, <3>3, SeqEqual
  <2>5. CASE n = m
    <3>1. v = input
      BY <1>2, <1>3, <2>3, <2>5, SubSeqFull
    <3> QED
      BY <1>5, <2>2, <2>4, <3>1
  <2>6. CASE n # m
    <3>1. n \in 0 .. Len(input) - 1
      BY <1>3, <2>6
    <3> QED
      BY <2>2, <2>3, <2>4, <3>1 DEF NoneBehind
  <2> QED
    BY <2>5, <2>6
<1>7. 0 .. Len(t) - 1 = 0 .. m
  BY <1>4
<1> QED
  BY <1>1, <1>6, <1>7 DEF NoneBehind

LEMMA NextNoneBehind ==
  ASSUME Holds, Hears, Tracks, NoneBehind, [Next]_vars
  PROVE  NoneBehind'
<1>1. CASE UNCHANGED input
  BY <1>1 DEF NoneBehind
<1>2. ASSUME NEW b \in Bytes,
             \/ ReadPrefix(b) \/ ReadLine(b) \/ ReadNewline(b)
             \/ ReadBulkSize(b) \/ ReadPayload(b) \/ ReadEnding(b)
      PROVE  NoneBehind'
  <2>1. place # "done" /\ input' = Append(input, b)
    BY <1>2 DEF ReadPrefix, ReadLine, ReadNewline, ReadBulkSize, ReadPayload, ReadEnding, Receive
  <2> QED
    BY <2>1, ReceiveNoneBehind
<1>3. WriteSome \/ ConnectionEnds \/ UNCHANGED vars => UNCHANGED input
  BY DEF WriteSome, ConnectionEnds, vars
<1> QED
  BY <1>1, <1>2, <1>3 DEF Next

\* So the reader takes one reply, and takes it for what it is.
LEMMA TracksOneReply ==
  ASSUME Holds, Hears, Tracks, NoneBehind
  PROVE  ReadsOneReply
<1>1. ASSUME input \in Encodings PROVE result \in Replies /\ Encode(result) = input
  <2>1. PICK reply \in Replies : input = Encode(reply)
    BY <1>1 DEF Encodings
  <2>2. input \in Seq(Bytes) /\ Len(input) \in Nat
    BY LenProperties DEF Holds
  <2>3. Begins(input, Encode(reply))
    BY <2>1, <2>2 DEF Begins
  <2>4. Follows(reply)
    BY <2>3 DEF Tracks
  <2>5. ~(Len(input) < Len(Encode(reply)))
    BY <2>1, <2>2
  <2>6. place = "done"
    BY <2>4, <2>5, MoreToCome
  <2>7. result = reply
    BY <2>4, <2>5, <2>6 DEF Follows
  <2> QED
    BY <2>1, <2>7
<1>2. ASSUME result.type = "broken", input \in Beginnings PROVE FALSE
  <2>0. PICK reply \in Replies : \E n \in 0 .. Len(Encode(reply)) : input = SubSeq(Encode(reply), 1, n)
    BY <1>2 DEF Beginnings, Encodings
  <2>1. PICK n \in 0 .. Len(Encode(reply)) : input = SubSeq(Encode(reply), 1, n)
    BY <2>0
  <2>2. PICK e : e = Encode(reply)
    OBVIOUS
  <2>3. e \in Seq(Symbols) /\ Len(e) \in Nat
    BY <2>2, PartsOf
  <2>4. n \in Nat /\ n <= Len(e)
    BY <2>1, <2>2, <2>3
  <2>5. Len(input) = n /\ \A i \in 1 .. n : input[i] = e[i]
    BY <2>1, <2>2, <2>3, <2>4, SplitJoin
  <2>6. Begins(input, Encode(reply))
    BY <2>2, <2>4, <2>5 DEF Begins
  <2>7. Follows(reply)
    BY <2>6 DEF Tracks
  <2>8. result \in {NoResult, reply, [type |-> "closed"]}
    BY <2>7 DEF Holds, Follows
  <2>9. reply.type # "broken"
    BY KindsOfReplies DEF KindOf
  <2>10. NoResult.type = "none" /\ [type |-> "closed"].type = "closed"
    BY DEF NoResult
  <2> QED
    BY <1>2, <2>8, <2>9, <2>10
<1> QED
  BY <1>1, <1>2 DEF ReadsOneReply, NoneBehind

-----------------------------------------------------------------------------
(* Theorems.                                                               *)

Inv == Sending /\ Holds /\ Hears /\ Tracks /\ NoneBehind

\* The invariant: what has been sent is the beginning of the request, what was
\* received is kept until it is answered, and wherever it is the beginning of
\* a reply the reader is where it stands in that reply.
THEOREM Invariance == Spec => []Inv
<1>1. Init => Inv
  BY InitSending, InitHolds, InitHears, InitTracks, InitNoneBehind DEF Inv
<1>2. Inv /\ [Next]_vars => Inv'
  BY NextSending, NextHolds, NextHears, NextTracks, NextNoneBehind DEF Inv
<1> QED
  BY <1>1, <1>2, PTL DEF Spec

\* Every variable of the command holds what its C++ counterpart can, and no
\* peer makes the reader keep more than one byte above the limit.
THEOREM AlwaysTypeOK == Spec => []TypeOK
<1>1. Inv => TypeOK
  BY HoldsType DEF Inv
<1> QED
  BY <1>1, Invariance, PTL

\* read_reply returns the reply that was sent when its last byte is there,
\* never refuses what may still become a reply, and takes no byte behind it.
THEOREM AlwaysReadsOneReply == Spec => []ReadsOneReply
<1>1. Inv => ReadsOneReply
  BY TracksOneReply DEF Inv
<1> QED
  BY <1>1, Invariance, PTL

\* read_reply returns nothing as a reply that was not sent as one.
THEOREM AlwaysReturnsOnlyReplies == Spec => []ReturnsOnlyReplies
<1>1. Inv => ReturnsOnlyReplies
  BY HeardReplies DEF Inv
<1> QED
  BY <1>1, Invariance, PTL

\* What encode_request wrote is the request for one list of arguments only.
THEOREM AlwaysRequestUnambiguous == Spec => []RequestUnambiguous
<1>1. Inv => RequestUnambiguous
  BY SentUnambiguous DEF Inv
<1> QED
  BY <1>1, Invariance, PTL
=============================================================================
