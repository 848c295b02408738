--------------------------- MODULE FlattenProofs ---------------------------
(***************************************************************************)
(* Facts about putting a sequence of sequences together (FlattenSeq of the *)
(* community modules), and the induction they and other proofs need, over  *)
(* sets of natural numbers.                                                *)
(***************************************************************************)
EXTENDS SequencesExt, SequenceTheorems, WellFoundedInduction, TLAPS

\* A number is less than another one: as pairs, the way WFMin takes an order.
Less == OpToRel(<, Nat)

\* The relation holds between a number and a greater one.
LEMMA LessIsLess == \A m, n \in Nat : m < n => <<m, n>> \in Less
BY Zenon DEF Less, OpToRel

\* Every set of numbers that has one has a least one.
LEMMA Least ==
  ASSUME NEW T, T \subseteq Nat, T # {}
  PROVE  \E n \in T : \A m \in T : n <= m
<1>1. PICK n \in T : \A m \in T : <<m, n>> \notin Less
  BY NatLessThanWellFounded, WFMin DEF Less
<1>2. \A m \in T : ~(m < n)
  BY <1>1, LessIsLess
<1> QED  BY <1>1, <1>2

\* A set of numbers that has zero and with each number the next has them all.
LEMMA EveryNumber ==
  ASSUME NEW T, 0 \in T, \A n \in Nat : n \in T => n + 1 \in T
  PROVE  Nat \subseteq T
<1> SUFFICES ASSUME Nat \ T # {} PROVE FALSE
  OBVIOUS
<1>1. PICK n \in Nat \ T : \A m \in Nat \ T : n <= m
  BY Least
<1>2. n # 0 /\ n - 1 \in Nat /\ n - 1 \notin T
  BY <1>1
<1> QED  BY <1>1, <1>2

\* A set of numbers that has each number if it has all smaller ones has them all.
LEMMA EveryNumberAtOnce ==
  ASSUME NEW T, \A n \in Nat : (\A m \in Nat : m < n => m \in T) => n \in T
  PROVE  Nat \subseteq T
<1> SUFFICES ASSUME Nat \ T # {} PROVE FALSE
  OBVIOUS
<1>1. PICK n \in Nat \ T : \A m \in Nat \ T : n <= m
  BY Least
<1>2. \A m \in Nat : m < n => m \in T
  BY <1>1
<1> QED  BY <1>1, <1>2
-----------------------------------------------------------------------------
\* The first i of the sequences, put together, for i up to n
Flat(seqs, n, g) ==
  g = [i \in 1 .. n |-> IF i = 1 THEN seqs[i] ELSE g[i - 1] \o seqs[i]]

\* There is such a function, and only one.
LEMMA FlatExists ==
  ASSUME NEW seqs, NEW n \in Nat
  PROVE  \E g : Flat(seqs, n, g)
<1> DEFINE T == {m \in Nat : \E g : Flat(seqs, m, g)}
<1>1. 0 \in T
  <2>1. Flat(seqs, 0, << >>)
    BY DEF Flat
  <2> QED  BY <2>1
<1>2. ASSUME NEW m \in Nat, m \in T PROVE m + 1 \in T
  <2>1. PICK g : Flat(seqs, m, g)
    BY <1>2
  <2> DEFINE next == IF m = 0 THEN seqs[1] ELSE g[m] \o seqs[m + 1]
             h == [i \in 1 .. m + 1 |-> IF i = m + 1 THEN next ELSE g[i]]
  <2>2. ASSUME NEW i \in 1 .. m + 1
        PROVE  h[i] = IF i = 1 THEN seqs[i] ELSE h[i - 1] \o seqs[i]
    <3>1. CASE i = m + 1
      BY <3>1
    <3>2. CASE i # m + 1
      <4>1. i \in 1 .. m /\ h[i] = g[i] /\ (i # 1 => i - 1 \in 1 .. m /\ h[i - 1] = g[i - 1])
        BY <3>2
      <4>2. g[i] = IF i = 1 THEN seqs[i] ELSE g[i - 1] \o seqs[i]
        BY <2>1, <4>1 DEF Flat
      <4> HIDE DEF h
      <4> QED  BY <4>1, <4>2
    <3> QED  BY <3>1, <3>2
  <2>3. Flat(seqs, m + 1, h)
    <3>1. h = [i \in 1 .. m + 1 |-> h[i]]
      OBVIOUS
    <3> HIDE DEF h
    <3> QED  BY <2>2, <3>1 DEF Flat
  <2> QED  BY <2>3
<1> HIDE DEF T
<1>3. n \in T
  BY <1>1, <1>2, EveryNumber
<1> QED  BY <1>3 DEF T

AgreeUpTo(s, t, n) == \A i \in 1 .. n : s[i] = t[i]

LEMMA FlatAgrees ==
  ASSUME NEW s, NEW t, NEW n \in Nat, NEW m \in Nat, n <= m,
         AgreeUpTo(s, t, n), NEW g, Flat(s, n, g), NEW h, Flat(t, m, h)
  PROVE  AgreeUpTo(g, h, n)
<1> DEFINE T == {i \in Nat : i \in 1 .. n => g[i] = h[i]}
<1>1. 0 \in T
  OBVIOUS
<1>2. ASSUME NEW i \in Nat, i \in T PROVE i + 1 \in T
  <2> SUFFICES ASSUME i + 1 \in 1 .. n PROVE g[i + 1] = h[i + 1]
    OBVIOUS
  <2>1. /\ g[i + 1] = IF i + 1 = 1 THEN s[i + 1] ELSE g[i + 1 - 1] \o s[i + 1]
        /\ h[i + 1] = IF i + 1 = 1 THEN t[i + 1] ELSE h[i + 1 - 1] \o t[i + 1]
    <3>1. \A j \in 1 .. n : g[j] = IF j = 1 THEN s[j] ELSE g[j - 1] \o s[j]
      BY DEF Flat
    <3>2. \A j \in 1 .. m : h[j] = IF j = 1 THEN t[j] ELSE h[j - 1] \o t[j]
      BY DEF Flat
    <3> QED  BY <3>1, <3>2
  <2>2. i + 1 # 1 => g[i] = h[i]
    BY <1>2
  <2> QED  BY <2>1, <2>2 DEF AgreeUpTo
<1> HIDE DEF T
<1>3. Nat \subseteq T
  BY <1>1, <1>2, EveryNumber
<1> QED  BY <1>3 DEF T, AgreeUpTo

LEMMA FlattenIsFlat ==
  ASSUME NEW seqs, Len(seqs) \in Nat \ {0}
  PROVE  \E g : Flat(seqs, Len(seqs), g) /\ FlattenSeq(seqs) = g[Len(seqs)]
<1> DEFINE flatten == CHOOSE g : Flat(seqs, Len(seqs), g)
<1>1. Flat(seqs, Len(seqs), flatten)
  BY FlatExists
<1>2. FlattenSeq(seqs) = flatten[Len(seqs)]
  BY DEF FlattenSeq, Flat
<1> QED  BY <1>1, <1>2
-----------------------------------------------------------------------------
\* No sequences, no elements.
LEMMA FlattenNone == FlattenSeq(<< >>) = << >>
BY DEF FlattenSeq

\* One more sequence is put behind the others.
LEMMA FlattenAppend ==
  ASSUME NEW S, NEW seqs \in Seq(Seq(S)), NEW x \in Seq(S)
  PROVE  FlattenSeq(Append(seqs, x)) = FlattenSeq(seqs) \o x
<1> DEFINE n == Len(seqs)
           more == Append(seqs, x)
<1>1. /\ n \in Nat /\ Len(more) = n + 1 /\ more[n + 1] = x
      /\ \A i \in 1 .. n : more[i] = seqs[i]
  BY AppendProperties
<1> HIDE DEF more
<1>2. PICK h : Flat(more, n + 1, h) /\ FlattenSeq(more) = h[n + 1]
  BY <1>1, FlattenIsFlat
<1>3. h[n + 1] = IF n + 1 = 1 THEN more[n + 1] ELSE h[n] \o more[n + 1]
  <2>1. \A j \in 1 .. n + 1 : h[j] = IF j = 1 THEN more[j] ELSE h[j - 1] \o more[j]
    BY <1>2 DEF Flat
  <2> QED  BY <1>1, <2>1
<1>4. CASE n = 0
  <2>1. seqs = << >> /\ FlattenSeq(seqs) = << >>
    BY <1>4, EmptySeq, FlattenNone
  <2>2. << >> \o x = x
    BY ConcatEmptySeq
  <2> QED  BY <1>1, <1>2, <1>3, <1>4, <2>1, <2>2 DEF more
<1>5. CASE n # 0
  <2>1. PICK g : Flat(seqs, n, g) /\ FlattenSeq(seqs) = g[n]
    BY <1>1, <1>5, FlattenIsFlat
  <2>2. g[n] = h[n]
    <3>1. n + 1 \in Nat /\ n <= n + 1 /\ AgreeUpTo(seqs, more, n)
      BY <1>1 DEF AgreeUpTo
    <3>2. AgreeUpTo(g, h, n)
      BY <1>1, <1>2, <2>1, <3>1, FlatAgrees
    <3> QED  BY <1>1, <1>5, <3>2 DEF AgreeUpTo
  <2> QED  BY <1>1, <1>2, <1>3, <1>5, <2>1, <2>2 DEF more
<1> QED  BY <1>1, <1>4, <1>5

\* Sequences over a set are put together to one over that set.
LEMMA FlattenType ==
  ASSUME NEW S, NEW seqs \in Seq(Seq(S))
  PROVE  FlattenSeq(seqs) \in Seq(S)
<1> DEFINE T == {n \in Nat : \A s \in Seq(Seq(S)) : Len(s) = n => FlattenSeq(s) \in Seq(S)}
<1>1. 0 \in T
  <2> SUFFICES ASSUME NEW s \in Seq(Seq(S)), Len(s) = 0 PROVE FlattenSeq(s) \in Seq(S)
    OBVIOUS
  <2>1. s = << >>
    BY EmptySeq
  <2> QED  BY <2>1, FlattenNone, EmptySeq
<1>2. ASSUME NEW n \in Nat, n \in T PROVE n + 1 \in T
  <2> SUFFICES ASSUME NEW s \in Seq(Seq(S)), Len(s) = n + 1 PROVE FlattenSeq(s) \in Seq(S)
    OBVIOUS
  <2>1. PICK u \in Seq(Seq(S)), x \in Seq(S) : s = Append(u, x)
    <3>1. s # << >>
      BY EmptySeq
    <3> QED  BY <3>1, SequenceEmptyOrAppend
  <2>2. Len(u) = n
    BY <2>1, AppendProperties
  <2>3. FlattenSeq(u) \in Seq(S)
    BY <1>2, <2>2
  <2>4. FlattenSeq(u) \o x \in Seq(S)
    BY ONLY <2>3, x \in Seq(S), ConcatProperties
  <2> QED  BY <2>1, <2>4, FlattenAppend
<1> HIDE DEF T
<1>3. Len(seqs) \in T
  <2>1. Len(seqs) \in Nat
    OBVIOUS
  <2> QED  BY <1>1, <1>2, <2>1, EveryNumber
<1> QED  BY <1>3 DEF T


\* Concatenation is associative: the library's fact, as a predicate that the
\* provers find the instances of.
Associates(a, b, c) == (a \o b) \o c = a \o (b \o c)

LEMMA Associative ==
  ASSUME NEW S, NEW a, NEW b, NEW c, a \in Seq(S), b \in Seq(S), c \in Seq(S)
  PROVE  Associates(a, b, c)
BY SMT DEF Associates

\* Putting together respects concatenation.
LEMMA FlattenConcat ==
  ASSUME NEW S, NEW s \in Seq(Seq(S)), NEW t \in Seq(Seq(S))
  PROVE  FlattenSeq(s \o t) = FlattenSeq(s) \o FlattenSeq(t)
<1> DEFINE Splits(u) == FlattenSeq(s \o u) = FlattenSeq(s) \o FlattenSeq(u)
           T == {n \in Nat : \A u \in Seq(Seq(S)) : Len(u) = n => Splits(u)}
<1>1. 0 \in T
  <2> SUFFICES ASSUME NEW u \in Seq(Seq(S)), Len(u) = 0 PROVE Splits(u)
    OBVIOUS
  <2>1. u = << >> /\ s \o << >> = s
    BY EmptySeq, ConcatEmptySeq
  <2>2. FlattenSeq(s) \o << >> = FlattenSeq(s)
    BY FlattenType, ConcatEmptySeq
  <2> QED  BY <2>1, <2>2, FlattenNone
<1>2. ASSUME NEW n \in Nat, n \in T PROVE n + 1 \in T
  <2> SUFFICES ASSUME NEW u \in Seq(Seq(S)), Len(u) = n + 1 PROVE Splits(u)
    OBVIOUS
  <2>1. PICK v \in Seq(Seq(S)), x \in Seq(S) : u = Append(v, x)
    <3>1. u # << >>
      BY EmptySeq
    <3> QED  BY <3>1, SequenceEmptyOrAppend
  <2>2. Splits(v)
    <3>1. Len(v) = n
      BY <2>1, AppendProperties
    <3> QED  BY <1>2, <3>1
  <2>3. s \o u = Append(s \o v, x) /\ s \o v \in Seq(Seq(S))
    <3>1. s \o v \in Seq(Seq(S))
      BY ConcatProperties
    <3>2. u = v \o <<x>> /\ Append(s \o v, x) = (s \o v) \o <<x>> /\ <<x>> \in Seq(Seq(S))
      BY <2>1, <3>1, AppendIsConcat
    <3>3. Associates(s, v, <<x>>)
      BY <3>2, Associative
    <3> QED  BY <3>1, <3>2, <3>3 DEF Associates
  <2>4. FlattenSeq(s \o u) = FlattenSeq(s \o v) \o x
    BY <2>3, FlattenAppend
  <2>5. FlattenSeq(u) = FlattenSeq(v) \o x
    BY <2>1, FlattenAppend
  <2>6. Associates(FlattenSeq(s), FlattenSeq(v), x)
    <3>1. FlattenSeq(s) \in Seq(S) /\ FlattenSeq(v) \in Seq(S)
      BY FlattenType
    <3> QED  BY <3>1, Associative
  <2> QED  BY <2>2, <2>4, <2>5, <2>6 DEF Associates
<1> HIDE DEF T
<1>3. Len(t) \in T
  <2>1. Len(t) \in Nat
    OBVIOUS
  <2> QED  BY <1>1, <1>2, <2>1, EveryNumber
<1> QED  BY <1>3 DEF T

\* A single sequence is its own flattening.
LEMMA FlattenOne ==
  ASSUME NEW S, NEW x \in Seq(S)
  PROVE  FlattenSeq(<<x>>) = x
<1>1. <<x>> = Append(<< >>, x) /\ << >> \in Seq(Seq(S)) /\ << >> \o x = x
  BY ConcatEmptySeq
<1> QED  BY <1>1, FlattenAppend, FlattenNone
=============================================================================
