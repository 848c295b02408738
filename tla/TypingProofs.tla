---------------------------- MODULE TypingProofs ----------------------------
(***************************************************************************)
(* Proofs about the passes that give a program its types, for every unit   *)
(* whose parts are as the IR allows.                                       *)
(***************************************************************************)
EXTENDS Typing, FlattenProofs

\* The recursive functions are what their definitions say, for pieces of a program:
\* what the configuration of the runs makes true of them.
ShapesAsDefined ==
  /\ \A n, t : IsType(n, t) <=> Def_IsType(n, t)
  /\ \A n, e : IsExpr(n, e) <=> Def_IsExpr(n, e)
  /\ \A n, stmts : IsStmts(n, stmts) <=> Def_IsStmts(n, stmts)
-----------------------------------------------------------------------------
\* A sequence is one whatever its elements are taken from.
LEMMA SeqHas ==
  ASSUME NEW s, IsSeq(s)
  PROVE  /\ Len(s) \in Nat /\ DOMAIN s = 1 .. Len(s)
         /\ s = [k \in 1 .. Len(s) |-> s[k]]
BY DEF IsSeq

\* A function on 1 .. n is a sequence of n elements.
LEMMA SeqIs ==
  ASSUME NEW n \in Nat, NEW s, s = [k \in 1 .. n |-> s[k]]
  PROVE  IsSeq(s) /\ Len(s) = n /\ DOMAIN s = 1 .. n
<1>1. s \in Seq({s[k] : k \in 1 .. n}) /\ DOMAIN s = 1 .. n
  OBVIOUS
<1>2. Len(s) = n
  BY <1>1
<1> QED  BY <1>1, <1>2 DEF IsSeq

\* What the standard module calls a sequence is one here.
LEMMA SeqAny ==
  ASSUME NEW S, NEW s \in Seq(S)
  PROVE  IsSeq(s)
BY SeqIs

\* The empty sequence, its length and its places.
LEMMA EmptyIsSeq == IsSeq(<<>>) /\ Len(<<>>) = 0 /\ DOMAIN <<>> = {}
BY DEF IsSeq

\* A sequence of one element.
LEMMA OneIsSeq ==
  ASSUME NEW x
  PROVE  IsSeq(<<x>>) /\ Len(<<x>>) = 1 /\ DOMAIN <<x>> = {1} /\ <<x>>[1] = x
BY DEF IsSeq

\* A sequence of two elements.
LEMMA TwoIsSeq ==
  ASSUME NEW x, NEW y
  PROVE  /\ IsSeq(<<x, y>>) /\ Len(<<x, y>>) = 2 /\ DOMAIN <<x, y>> = {1, 2}
         /\ <<x, y>>[1] = x /\ <<x, y>>[2] = y
BY DEF IsSeq

\* Sequences of one length with the same elements are equal.
LEMMA SameSeq ==
  ASSUME NEW s, NEW t, IsSeq(s), IsSeq(t), Len(s) = Len(t), \A k \in 1 .. Len(s) : s[k] = t[k]
  PROVE  s = t
BY SeqHas

\* What a concatenation holds at each place.
LEMMA ConcatHas ==
  ASSUME NEW s, NEW t, IsSeq(s), IsSeq(t)
  PROVE  /\ IsSeq(s \o t) /\ Len(s \o t) = Len(s) + Len(t)
         /\ \A k \in 1 .. Len(s) : (s \o t)[k] = s[k]
         /\ \A k \in 1 .. Len(t) : (s \o t)[Len(s) + k] = t[k]
<1> DEFINE S == {s[k] : k \in DOMAIN s} \cup {t[k] : k \in DOMAIN t}
<1>1. s \in Seq(S) /\ t \in Seq(S)
  BY SeqHas
<1> HIDE DEF S
<1>2. /\ s \o t \in Seq(S) /\ Len(s \o t) = Len(s) + Len(t)
      /\ \A k \in 1 .. Len(s) + Len(t) :
           (s \o t)[k] = IF k <= Len(s) THEN s[k] ELSE t[k - Len(s)]
  BY <1>1, ConcatProperties
<1>3. Len(s) \in Nat /\ Len(t) \in Nat
  BY SeqHas
<1>4. ASSUME NEW k \in 1 .. Len(t) PROVE (s \o t)[Len(s) + k] = t[k]
  <2>1. Len(s) + k \in 1 .. Len(s) + Len(t) /\ ~(Len(s) + k <= Len(s)) /\ Len(s) + k - Len(s) = k
    BY <1>3
  <2> QED  BY <1>2, <2>1
<1>5. IsSeq(s \o t)
  BY <1>2, SeqAny
<1> QED  BY <1>2, <1>3, <1>4, <1>5

\* Each, the loop over a vector, gives the vector back.
LEMMA EachIsSame ==
  ASSUME NEW s, IsSeq(s)
  PROVE  Each(s) = s
BY EmptyIsSeq, ConcatHas, SameSeq, SeqHas DEF Each
-----------------------------------------------------------------------------
\* Expressions, inline code and statements of some depth
AnExpr(e) == \E n \in Nat : IsExpr(n, e)
SomeExprs(es) == IsSeq(es) /\ \A k \in DOMAIN es : AnExpr(es[k])
SomeCode(code) ==
  IsSeq(code) /\ \A k \in DOMAIN code : IsToken(code[k])
                                  /\ (code[k].token = "expr" => AnExpr(code[k].expr))

\* An expression of some depth is one of every greater depth.
LEMMA DeeperExpr ==
  ASSUME ShapesAsDefined
  PROVE  \A m, n \in Nat : \A e : m <= n /\ IsExpr(m, e) => IsExpr(n, e)
<1> DEFINE Stays(m, n, e) == m <= n /\ IsExpr(m, e) => IsExpr(n, e)
           T == {m \in Nat : \A n \in Nat : \A e : Stays(m, n, e)}
<1> SUFFICES Nat \subseteq T
  OBVIOUS
<1>1. ASSUME NEW m \in Nat, \A l \in Nat : l < m => l \in T
      PROVE  m \in T
  <2> SUFFICES ASSUME NEW n \in Nat, NEW e, m <= n, IsExpr(m, e) PROVE IsExpr(n, e)
    OBVIOUS
  <2>1. m # 0 /\ HasShape(e) /\ (\A k \in DOMAIN e.kids : IsExpr(m - 1, e.kids[k]))
          /\ (e.op = "inline" => IsCode(m - 1, e.code))
    BY DEF ShapesAsDefined, Def_IsExpr
  <2>2. m - 1 \in T /\ n - 1 \in Nat /\ m - 1 <= n - 1
    BY <1>1, <2>1
  <2>3. \A x : IsExpr(m - 1, x) => IsExpr(n - 1, x)
    BY <2>2
  <2>4. e.op = "inline" => IsCode(n - 1, e.code)
    BY <2>1, <2>3 DEF IsCode
  <2>5. n \in Nat \ {0} /\ \A k \in DOMAIN e.kids : IsExpr(n - 1, e.kids[k])
    BY <2>1, <2>2, <2>3
  <2> QED  BY <2>1, <2>4, <2>5 DEF ShapesAsDefined, Def_IsExpr
<1> HIDE DEF T
<1> QED  BY <1>1, EveryNumberAtOnce

\* How many operands an operator has
LEMMA ShapeHas ==
  ASSUME NEW e, HasShape(e)
  PROVE  /\ IsSeq(e.kids) /\ Len(e.kids) \in Nat /\ DOMAIN e.kids = 1 .. Len(e.kids)
         /\ e.op \in Nullary => Len(e.kids) = 0
         /\ e.op \in Unary => Len(e.kids) = 1
         /\ e.op \in Binary => Len(e.kids) = 2
         /\ e.op = "cond" => Len(e.kids) = 3
<1>1. IsSeq(e.kids)
  BY DEF HasShape
<1>2. Len(e.kids) \in Nat /\ DOMAIN e.kids = 1 .. Len(e.kids)
  BY <1>1, SeqHas
<1>3. e.op \in Nullary => Len(e.kids) = 0
  BY DEF HasShape, Nullary, Unary, Binary
<1>4. e.op \in Unary => Len(e.kids) = 1
  BY DEF HasShape, Nullary, Unary, Binary
<1>5. e.op \in Binary => Len(e.kids) = 2
  BY DEF HasShape, Nullary, Unary, Binary
<1>6. e.op = "cond" => Len(e.kids) = 3
  BY DEF HasShape, Nullary, Unary, Binary
<1> QED  BY <1>1, <1>2, <1>3, <1>4, <1>5, <1>6

\* Finitely many expressions have a depth in common.
LEMMA CommonDepth ==
  ASSUME ShapesAsDefined, NEW f, NEW n \in Nat, NEW P, \A k \in 1 .. n : k \in P => AnExpr(f[k])
  PROVE  \E d \in Nat : \A k \in 1 .. n : k \in P => IsExpr(d, f[k])
<1> DEFINE T == {m \in Nat : m <= n =>
                   \E d \in Nat : \A k \in 1 .. m : k \in P => IsExpr(d, f[k])}
<1>1. 0 \in T
  OBVIOUS
<1>2. ASSUME NEW m \in Nat, m \in T PROVE m + 1 \in T
  <2> SUFFICES ASSUME m + 1 <= n
               PROVE \E d \in Nat : \A k \in 1 .. m + 1 : k \in P => IsExpr(d, f[k])
    OBVIOUS
  <2>1. PICK d \in Nat : \A k \in 1 .. m : k \in P => IsExpr(d, f[k])
    BY <1>2
  <2>2. PICK c \in Nat : m + 1 \in P => IsExpr(c, f[m + 1])
    BY DEF AnExpr
  <2>3. \A k \in 1 .. m + 1 : k \in P => IsExpr(c + d, f[k])
    <3> SUFFICES ASSUME NEW k \in 1 .. m + 1, k \in P PROVE IsExpr(c + d, f[k])
      OBVIOUS
    <3>1. c + d \in Nat /\ c <= c + d /\ d <= c + d
      OBVIOUS
    <3>2. CASE k \in 1 .. m
      BY <2>1, <3>1, <3>2, DeeperExpr
    <3>3. CASE k = m + 1
      BY <2>2, <3>1, <3>3, DeeperExpr
    <3> QED  BY <3>2, <3>3
  <2> QED  BY <2>3
<1> HIDE DEF T
<1>3. n \in T
  BY <1>1, <1>2, EveryNumber
<1> QED  BY <1>3 DEF T

\* Inline code whose antiquoted expressions have some depth is of some depth.
LEMMA CodeIs ==
  ASSUME ShapesAsDefined, NEW code
  PROVE  SomeCode(code) <=> \E n \in Nat : IsCode(n, code)
<1>1. ASSUME SomeCode(code) PROVE \E n \in Nat : IsCode(n, code)
  <2> DEFINE f == [k \in DOMAIN code |-> code[k].expr]
             P == {k \in DOMAIN code : code[k].token = "expr"}
  <2>1. Len(code) \in Nat /\ DOMAIN code = 1 .. Len(code)
    BY <1>1, SeqHas DEF SomeCode
  <2>2. \A k \in 1 .. Len(code) : k \in P => AnExpr(f[k])
    BY <1>1, <2>1 DEF SomeCode
  <2> HIDE DEF f, P
  <2>3. PICK d \in Nat : \A k \in 1 .. Len(code) : k \in P => IsExpr(d, f[k])
    BY <2>1, <2>2, CommonDepth
  <2> QED  BY <1>1, <2>1, <2>3 DEF SomeCode, IsCode, f, P
<1> QED  BY <1>1 DEF SomeCode, IsCode, AnExpr

\* The parts of an expression are expressions, those of its inline code too.
LEMMA ExprHas ==
  ASSUME ShapesAsDefined, NEW e, AnExpr(e)
  PROVE  /\ HasShape(e) /\ SomeExprs(e.kids)
         /\ e.op = "inline" => SomeCode(e.code)
<1>1. PICK n \in Nat : IsExpr(n, e)
  BY DEF AnExpr
<1>2. /\ n - 1 \in Nat /\ HasShape(e) /\ \A k \in DOMAIN e.kids : IsExpr(n - 1, e.kids[k])
      /\ e.op = "inline" => IsCode(n - 1, e.code)
  BY <1>1 DEF ShapesAsDefined, Def_IsExpr
<1> QED  BY <1>2, CodeIs DEF AnExpr, SomeExprs, HasShape

\* What is built of expressions is an expression.
LEMMA ExprIs ==
  ASSUME ShapesAsDefined, NEW e, HasShape(e), SomeExprs(e.kids),
         e.op = "inline" => SomeCode(e.code)
  PROVE  AnExpr(e)
<1> DEFINE kids == e.kids
<1>1. Len(kids) \in Nat /\ DOMAIN kids = 1 .. Len(kids)
  BY SeqHas DEF SomeExprs
<1>2. PICK d \in Nat : \A k \in 1 .. Len(kids) : IsExpr(d, kids[k])
  <2>1. \A k \in 1 .. Len(kids) : k \in Nat => AnExpr(kids[k])
    BY <1>1 DEF SomeExprs
  <2> HIDE DEF kids
  <2>2. \E d \in Nat : \A k \in 1 .. Len(kids) : k \in Nat => IsExpr(d, kids[k])
    BY <1>1, <2>1, CommonDepth
  <2> QED  BY <2>2
<1>3. PICK c \in Nat : e.op = "inline" => IsCode(c, e.code)
  BY CodeIs
<1>4. c + d \in Nat /\ c <= c + d /\ d <= c + d /\ c + d + 1 \in Nat \ {0} /\ c + d + 1 - 1 = c + d
  OBVIOUS
<1>5. \A k \in DOMAIN e.kids : IsExpr(c + d, e.kids[k])
  BY <1>1, <1>2, <1>4, DeeperExpr
<1>6. e.op = "inline" => IsCode(c + d, e.code)
  BY <1>3, <1>4, DeeperExpr DEF IsCode
<1>7. IsExpr(c + d + 1, e)
  BY <1>4, <1>5, <1>6 DEF ShapesAsDefined, Def_IsExpr
<1> QED  BY <1>4, <1>7 DEF AnExpr
-----------------------------------------------------------------------------
\* What is compared when programs are, as it is defined
ComparedAsDefined ==
  /\ \A o, e : Matches(o, e) <=> Def_Matches(o, e)
  /\ \A os, es : SameCode(os, es) <=> Def_SameCode(os, es)

IsAttributeOf(o, e) ==
  /\ o.op = "member"
  /\ \/ e.op = "length" /\ o.name = "_length" /\ Matches(o.kids[1], e.kids[1])
     \/ /\ e.op = "active" /\ o.name = "_active"
        /\ Matches(o.kids[1], Member(e.kids[1], e.name))
IsSameAs(o, e) ==
  /\ o.op = e.op /\ o.name = e.name /\ Len(o.kids) = Len(e.kids)
  /\ \A k \in DOMAIN o.kids : Matches(o.kids[k], e.kids[k])
  /\ o.op = "inline" => MatchesCode(o.code, e.code)

\* One step of the comparison of an expression with what it became.
LEMMA MatchesIs ==
  ASSUME ComparedAsDefined, NEW o, NEW e
  PROVE  Matches(o, e) <=>
           IsAttributeOf(o, e) \/ IsSameAs(o, e) \/ (e.op = "cast" /\ Matches(o, e.kids[1]))
BY DEF ComparedAsDefined, Def_Matches, IsAttributeOf, IsSameAs

\* Every expression matches itself.
LEMMA MatchesItself ==
  ASSUME ShapesAsDefined, ComparedAsDefined
  PROVE  \A e : AnExpr(e) => Matches(e, e)
<1> DEFINE T == {n \in Nat : \A e : IsExpr(n, e) => Matches(e, e)}
<1> SUFFICES Nat \subseteq T
  BY DEF AnExpr
<1>1. ASSUME NEW n \in Nat, \A m \in Nat : m < n => m \in T
      PROVE  n \in T
  <2> SUFFICES ASSUME NEW e, IsExpr(n, e) PROVE Matches(e, e)
    OBVIOUS
  <2>1. /\ n - 1 \in Nat /\ \A k \in DOMAIN e.kids : IsExpr(n - 1, e.kids[k])
        /\ e.op = "inline" => IsCode(n - 1, e.code)
    BY DEF ShapesAsDefined, Def_IsExpr
  <2>2. \A x : IsExpr(n - 1, x) => Matches(x, x)
    BY <1>1, <2>1
  <2>3. e.op = "inline" => MatchesCode(e.code, e.code)
    BY <2>1, <2>2 DEF MatchesCode, IsCode
  <2> QED  BY <2>1, <2>2, <2>3, MatchesIs DEF IsSameAs
<1> HIDE DEF T
<1> QED  BY <1>1, EveryNumberAtOnce

\* A member access of an expression is an expression.
LEMMA MemberIs ==
  ASSUME ShapesAsDefined, NEW x, NEW a, AnExpr(x)
  PROVE  /\ AnExpr(Member(x, a))
         /\ \A n \in Nat : IsExpr(n, x) => IsExpr(n + 1, Member(x, a))
<1> DEFINE e == Member(x, a)
<1>1. /\ {"op", "name", "ty", "kids"} \subseteq DOMAIN e /\ e.op = "member" /\ e.kids = <<x>>
  BY DEF Member, Expr
<1> HIDE DEF e
<1>2. IsSeq(<<x>>) /\ Len(<<x>>) = 1 /\ DOMAIN <<x>> = {1} /\ <<x>>[1] = x
  BY OneIsSeq
<1>3. HasShape(e)
  BY <1>1, <1>2 DEF HasShape, Unary, NamedOps
<1>4. ASSUME NEW n \in Nat, IsExpr(n, x) PROVE IsExpr(n + 1, e)
  <2>1. n + 1 \in Nat \ {0} /\ n + 1 - 1 = n
    OBVIOUS
  <2>2. \A k \in DOMAIN e.kids : IsExpr(n, e.kids[k])
    BY <1>1, <1>2, <1>4
  <2> QED  BY <1>1, <1>3, <2>1, <2>2 DEF ShapesAsDefined, Def_IsExpr
<1>5. AnExpr(e)
  BY <1>4 DEF AnExpr
<1> QED  BY <1>4, <1>5 DEF e

\* Where expressions are compared through a third one
Through(x, z) == \A y : AnExpr(y) /\ Matches(x, y) /\ Matches(y, z) => Matches(x, z)

\* What matches a match is a match: the passes of an expression through the elaborator compose.
LEMMA MatchesTransitive ==
  ASSUME ShapesAsDefined, ComparedAsDefined
  PROVE  \A a, b, c : AnExpr(a) /\ AnExpr(b) /\ AnExpr(c) /\ Matches(a, b) /\ Matches(b, c)
                        => Matches(a, c)
<1> DEFINE Within(s, p, q) == \A x, z : p + q = s /\ IsExpr(p, x) /\ IsExpr(q, z) => Through(x, z)
           T == {s \in Nat : \A p, q \in Nat : Within(s, p, q)}
<1>0. SUFFICES Nat \subseteq T
  <2> SUFFICES ASSUME NEW a, NEW b, NEW c, AnExpr(a), AnExpr(b), AnExpr(c),
                      Matches(a, b), Matches(b, c)
               PROVE  Matches(a, c)
    OBVIOUS
  <2>1. PICK p \in Nat, q \in Nat : IsExpr(p, a) /\ IsExpr(q, c)
    BY DEF AnExpr
  <2>2. p + q \in T
    BY <1>0
  <2> QED  BY <2>1, <2>2 DEF Through
<1>1. ASSUME NEW s \in Nat, \A m \in Nat : m < s => m \in T
      PROVE  s \in T
  <2> SUFFICES ASSUME NEW p \in Nat, NEW q \in Nat, NEW a, NEW c, p + q = s,
                      IsExpr(p, a), IsExpr(q, c), NEW b, AnExpr(b), Matches(a, b), Matches(b, c)
               PROVE  Matches(a, c)
    BY DEF Through
  <2>1. ASSUME NEW m \in Nat, NEW n \in Nat, m + n < s, NEW x, NEW z, IsExpr(m, x), IsExpr(n, z)
        PROVE  Through(x, z)
    BY <1>1, <2>1
  <2> HIDE DEF T
  <2>2. /\ p - 1 \in Nat /\ HasShape(a) /\ \A k \in DOMAIN a.kids : IsExpr(p - 1, a.kids[k])
        /\ a.op = "inline" => IsCode(p - 1, a.code)
    BY DEF ShapesAsDefined, Def_IsExpr
  <2>3. /\ q - 1 \in Nat /\ HasShape(c) /\ \A k \in DOMAIN c.kids : IsExpr(q - 1, c.kids[k])
        /\ c.op = "inline" => IsCode(q - 1, c.code)
    BY DEF ShapesAsDefined, Def_IsExpr
  <2>4. HasShape(b) /\ SomeExprs(b.kids) /\ (b.op = "inline" => SomeCode(b.code))
    BY ExprHas
  <2>5. \A x : IsExpr(q - 1, x) => Through(a, x)
    BY <2>1, <2>3
  <2>6. \A x, z : IsExpr(p - 1, x) /\ (IsExpr(q - 1, z) \/ IsExpr(q, z)) => Through(x, z)
    BY <2>1, <2>2, <2>3
  <2>7. \A e : HasShape(e) /\ e.op \in Unary => 1 \in DOMAIN e.kids /\ DOMAIN e.kids = 1 .. 1
    <3> SUFFICES ASSUME NEW e, HasShape(e), e.op \in Unary
                 PROVE  1 \in DOMAIN e.kids /\ DOMAIN e.kids = 1 .. 1
      OBVIOUS
    <3>1. Len(e.kids) = 1 /\ IsSeq(e.kids)
      BY DEF HasShape, Nullary, Unary, Binary
    <3> QED  BY <3>1, SeqHas
  <2>8. CASE c.op = "cast" /\ Matches(b, c.kids[1])
    <3>1. Through(a, c.kids[1])
      BY <2>3, <2>5, <2>7, <2>8 DEF Unary
    <3> QED  BY <2>8, <3>1, MatchesIs DEF Through
  <2>9. CASE b.op = "cast" /\ IsSameAs(b, c)
    <3>1. c.op = "cast" /\ Matches(b.kids[1], c.kids[1]) /\ AnExpr(b.kids[1]) /\ c.name = b.name
            /\ IsExpr(q - 1, c.kids[1]) /\ Len(c.kids) = 1
      BY <2>3, <2>4, <2>7, <2>9 DEF Unary, IsSameAs, SomeExprs, HasShape, Nullary, Binary
    <3>2. CASE IsSameAs(a, b)
      <4>1. a.op = "cast" /\ Matches(a.kids[1], b.kids[1]) /\ IsExpr(p - 1, a.kids[1])
              /\ a.name = b.name /\ Len(a.kids) = 1 /\ DOMAIN a.kids = 1 .. 1
        BY <2>2, <2>7, <2>9, <3>2 DEF IsSameAs, Unary, HasShape, Nullary, Binary
      <4>2. Matches(a.kids[1], c.kids[1])
        BY <2>6, <3>1, <4>1 DEF Through
      <4>3. IsSameAs(a, c)
        BY <3>1, <4>1, <4>2 DEF IsSameAs
      <4> QED  BY <4>3, MatchesIs
    <3>3. CASE Matches(a, b.kids[1])
      <4>1. Matches(a, c.kids[1])
        BY <2>5, <3>1, <3>3 DEF Through
      <4> QED  BY <3>1, <4>1, MatchesIs
    <3> QED  BY <2>9, <3>2, <3>3, MatchesIs DEF IsAttributeOf
  <2>10. CASE b.op # "cast" /\ IsSameAs(b, c) /\ IsSameAs(a, b)
    <3>1. /\ a.op = c.op /\ a.name = c.name /\ Len(a.kids) = Len(c.kids)
          /\ DOMAIN a.kids = DOMAIN b.kids /\ DOMAIN b.kids = DOMAIN c.kids
      BY <2>2, <2>3, <2>4, <2>10, SeqHas DEF IsSameAs, HasShape
    <3>2. \A k \in DOMAIN a.kids : Matches(a.kids[k], c.kids[k])
      BY <2>2, <2>3, <2>4, <2>6, <2>10, <3>1 DEF IsSameAs, Through, SomeExprs
    <3>3. ASSUME a.op = "inline" PROVE MatchesCode(a.code, c.code)
      <4>1. /\ IsCode(p - 1, a.code) /\ IsCode(q - 1, c.code) /\ SomeCode(b.code)
            /\ MatchesCode(a.code, b.code) /\ MatchesCode(b.code, c.code)
        BY <2>2, <2>3, <2>4, <2>10, <3>1, <3>3 DEF IsSameAs
      <4>2. DOMAIN a.code = DOMAIN b.code /\ DOMAIN b.code = DOMAIN c.code
        BY <4>1, SeqHas DEF IsCode, SomeCode, MatchesCode
      <4>3. ASSUME NEW k \in DOMAIN a.code, a.code[k].token = "expr"
            PROVE  Matches(a.code[k].expr, c.code[k].expr)
        BY <2>6, <4>1, <4>2, <4>3 DEF Through, IsCode, SomeCode, MatchesCode
      <4> QED  BY <4>1, <4>2, <4>3 DEF MatchesCode
    <3> QED  BY <3>1, <3>2, <3>3, MatchesIs DEF IsSameAs
  <2>11. CASE IsSameAs(b, c) /\ IsAttributeOf(a, b)
    <3>1. /\ 1 \in DOMAIN a.kids /\ 1 \in DOMAIN b.kids /\ 1 \in DOMAIN c.kids
          /\ a.op = "member" /\ c.op = b.op /\ c.name = b.name
          /\ Matches(b.kids[1], c.kids[1]) /\ IsExpr(p - 1, a.kids[1]) /\ IsExpr(q - 1, c.kids[1])
          /\ AnExpr(b.kids[1])
      BY <2>2, <2>3, <2>4, <2>7, <2>11 DEF IsSameAs, IsAttributeOf, Unary, SomeExprs
    <3>2. CASE b.op = "length" /\ a.name = "_length" /\ Matches(a.kids[1], b.kids[1])
      <4>1. Matches(a.kids[1], c.kids[1])
        BY <2>6, <3>1, <3>2 DEF Through
      <4> QED  BY <3>1, <3>2, <4>1, MatchesIs DEF IsAttributeOf
    <3>3. CASE /\ b.op = "active" /\ a.name = "_active"
               /\ Matches(a.kids[1], Member(b.kids[1], b.name))
      <4> DEFINE y == Member(b.kids[1], b.name)
                 z == Member(c.kids[1], c.name)
      <4>1. AnExpr(y) /\ IsExpr(q, z)
        <5>1. AnExpr(c.kids[1]) /\ q - 1 + 1 = q
          BY <2>3, <3>1 DEF AnExpr
        <5>2. IsExpr(q - 1 + 1, Member(c.kids[1], c.name))
          BY <2>3, <3>1, <5>1, MemberIs
        <5> QED  BY <3>1, <5>1, <5>2, MemberIs
      <4>2. IsSameAs(y, z)
        <5>1. y.op = "member" /\ z.op = "member" /\ y.name = b.name /\ z.name = b.name
                /\ y.kids = <<b.kids[1]>> /\ z.kids = <<c.kids[1]>>
          BY <3>1 DEF Member, Expr
        <5> HIDE DEF y, z
        <5> QED  BY <3>1, <5>1, OneIsSeq DEF IsSameAs
      <4>3. Matches(y, z)
        BY <4>2, MatchesIs
      <4>4. Matches(a.kids[1], z)
        BY <2>6, <3>1, <3>3, <4>1, <4>3 DEF Through
      <4> QED  BY <3>1, <3>3, <4>4, MatchesIs DEF IsAttributeOf
    <3> QED  BY <2>11, <3>2, <3>3 DEF IsAttributeOf
  <2>12. CASE IsAttributeOf(b, c) /\ IsSameAs(a, b)
    <3>1. /\ a.op = "member" /\ a.name = b.name /\ 1 \in DOMAIN a.kids /\ 1 \in DOMAIN b.kids
          /\ 1 \in DOMAIN c.kids /\ Matches(a.kids[1], b.kids[1]) /\ IsExpr(p - 1, a.kids[1])
          /\ IsExpr(q - 1, c.kids[1]) /\ AnExpr(b.kids[1])
      BY <2>2, <2>3, <2>4, <2>7, <2>12 DEF IsSameAs, IsAttributeOf, Unary, SomeExprs
    <3>2. CASE c.op = "length" /\ b.name = "_length" /\ Matches(b.kids[1], c.kids[1])
      <4>1. Matches(a.kids[1], c.kids[1])
        BY <2>6, <3>1, <3>2 DEF Through
      <4> QED  BY <3>1, <3>2, <4>1, MatchesIs DEF IsAttributeOf
    <3>3. CASE /\ c.op = "active" /\ b.name = "_active"
               /\ Matches(b.kids[1], Member(c.kids[1], c.name))
      <4>1. IsExpr(q, Member(c.kids[1], c.name))
        <5>1. AnExpr(c.kids[1]) /\ q - 1 + 1 = q
          BY <2>3, <3>1 DEF AnExpr
        <5>2. IsExpr(q - 1 + 1, Member(c.kids[1], c.name))
          BY <2>3, <3>1, <5>1, MemberIs
        <5> QED  BY <3>1, <5>1, <5>2, MemberIs
      <4>2. Matches(a.kids[1], Member(c.kids[1], c.name))
        BY <2>6, <3>1, <3>3, <4>1 DEF Through
      <4> QED  BY <3>1, <3>3, <4>2, MatchesIs DEF IsAttributeOf
    <3> QED  BY <2>12, <3>2, <3>3 DEF IsAttributeOf
  <2> QED
    <3>1. IsAttributeOf(b, c) \/ IsSameAs(b, c) \/ (c.op = "cast" /\ Matches(b, c.kids[1]))
      BY MatchesIs
    <3>2. IsAttributeOf(a, b) \/ IsSameAs(a, b) \/ (b.op = "cast" /\ Matches(a, b.kids[1]))
      BY MatchesIs
    <3>3. IsAttributeOf(b, c) => b.op = "member"
      BY DEF IsAttributeOf
    <3>4. IsAttributeOf(a, b) => b.op \in {"length", "active"}
      BY DEF IsAttributeOf
    <3> QED  BY <2>8, <2>9, <2>10, <2>11, <2>12, <3>1, <3>2, <3>3, <3>4
<1> HIDE DEF T
<1> QED  BY <1>1, EveryNumberAtOnce
-----------------------------------------------------------------------------
\* More about sequences: the first element and the others
LEMMA HeadTail ==
  ASSUME NEW s, IsSeq(s), s # <<>>
  PROVE  /\ Len(s) \in Nat \ {0} /\ 1 \in DOMAIN s /\ Head(s) = s[1]
         /\ IsSeq(Tail(s)) /\ Len(Tail(s)) = Len(s) - 1 /\ DOMAIN Tail(s) = 1 .. Len(s) - 1
         /\ \A k \in 1 .. Len(s) - 1 : k + 1 \in DOMAIN s /\ Tail(s)[k] = s[k + 1]
<1> DEFINE S == {s[k] : k \in DOMAIN s}
<1>1. s \in Seq(S)
  BY DEF IsSeq
<1> HIDE DEF S
<1>2. Len(s) \in Nat \ {0} /\ Head(s) = s[1] /\ DOMAIN s = 1 .. Len(s)
  BY <1>1
<1>3. Tail(s) \in Seq(S) /\ Len(Tail(s)) = Len(s) - 1 /\ DOMAIN Tail(s) = 1 .. Len(s) - 1
  BY <1>1
<1>4. \A k \in 1 .. Len(s) - 1 : Tail(s)[k] = s[k + 1]
  BY <1>1
<1>5. IsSeq(Tail(s))
  BY <1>3, SeqAny
<1> QED  BY <1>2, <1>3, <1>4, <1>5

\* What a sequence with one element put in front holds.
LEMMA Before1 ==
  ASSUME NEW x, NEW t, IsSeq(t)
  PROVE  /\ IsSeq(<<x>> \o t) /\ Len(<<x>> \o t) = Len(t) + 1 /\ (<<x>> \o t)[1] = x
         /\ \A k \in 1 .. Len(t) : (<<x>> \o t)[k + 1] = t[k]
<1>1. Len(<<x>>) = 1 /\ IsSeq(<<x>>) /\ <<x>>[1] = x /\ Len(t) \in Nat
  BY OneIsSeq, SeqHas
<1>2. \A k \in 1 .. Len(t) : 1 + k = k + 1
  BY <1>1
<1> QED  BY <1>1, <1>2, ConcatHas

\* The empty sequence is the one of length 0.
LEMMA EmptyOnly ==
  ASSUME NEW s, IsSeq(s)
  PROVE  s = <<>> <=> Len(s) = 0
BY EmptyIsSeq, SameSeq, SeqHas

\* The values of a list of results, in its order.
LEMMA AllIs ==
  ASSUME NEW rs, IsSeq(rs)
  PROVE  /\ IsSeq(All(rs).v) /\ Len(All(rs).v) = Len(rs)
         /\ \A k \in 1 .. Len(rs) : All(rs).v[k] = rs[k].v
<1> DEFINE vs == [k \in DOMAIN rs |-> rs[k].v]
<1>1. Len(rs) \in Nat /\ DOMAIN rs = 1 .. Len(rs)
  BY SeqHas
<1>2. vs = [k \in 1 .. Len(rs) |-> vs[k]]
  BY <1>1
<1>3. \A k \in 1 .. Len(rs) : vs[k] = rs[k].v
  BY <1>1
<1>4. All(rs).v = Each(vs)
  BY EachIsSame DEF All, Result
<1> HIDE DEF vs
<1>5. IsSeq(vs) /\ Len(vs) = Len(rs)
  BY <1>1, <1>2, SeqIs
<1> QED  BY <1>3, <1>4, <1>5, EachIsSame
-----------------------------------------------------------------------------
\* Conversions: a cast is put around an expression, or nothing is.
Elaborates(o, e) == AnExpr(e) /\ Matches(o, e)

\* A cast put around what an expression became leaves it an elaboration of it.
LEMMA CastIs ==
  ASSUME ShapesAsDefined, ComparedAsDefined, NEW o, NEW x, NEW ty, Elaborates(o, x)
  PROVE  Elaborates(o, Cast(x, ty))
<1> DEFINE e == Cast(x, ty)
<1>1. /\ {"op", "name", "ty", "kids"} \subseteq DOMAIN e /\ e.op = "cast" /\ e.kids = <<x>>
      /\ e.name = ""
  BY DEF Cast, Expr
<1> HIDE DEF e
<1>2. IsSeq(<<x>>) /\ Len(<<x>>) = 1 /\ DOMAIN <<x>> = {1} /\ <<x>>[1] = x
  BY OneIsSeq
<1>3. HasShape(e) /\ e.op # "inline"
  BY <1>1, <1>2 DEF HasShape, Unary, NamedOps
<1>4. AnExpr(e)
  BY <1>1, <1>2, <1>3, ExprIs DEF SomeExprs, Elaborates
<1>5. e.op = "cast" /\ Matches(o, e.kids[1])
  BY <1>1, <1>2 DEF Elaborates
<1>6. Matches(o, e)
  BY <1>5, MatchesIs
<1> QED  BY <1>4, <1>6 DEF Elaborates, e

\* The conversions (to bool, to slprop, to size_t, to a wanted type) only put casts around.
LEMMA ConvertedIs ==
  ASSUME ShapesAsDefined, ComparedAsDefined, NEW o, NEW x, NEW n, Elaborates(o, x)
  PROVE  /\ Elaborates(o, cast_to_bool(n, x)) /\ Elaborates(o, cast_to_slprop(n, x))
         /\ Elaborates(o, ToSize(n, x)) /\ \A ty : Elaborates(o, Converted(n, x, ty))
BY CastIs DEF cast_to_bool, cast_to_slprop, ToSize, Converted

\* An expression put together again from the elaboration of its operands
Operates(o, e) ==
  /\ {"op", "name", "ty", "kids"} \subseteq DOMAIN e
  /\ e.op = o.op /\ e.name = o.name /\ IsSeq(e.kids) /\ Len(e.kids) = Len(o.kids)
  /\ \A k \in DOMAIN o.kids : Elaborates(o.kids[k], e.kids[k])

\* A node rebuilt over elaborated operands elaborates the node.
LEMMA RebuiltIs ==
  ASSUME ShapesAsDefined, ComparedAsDefined, NEW o, HasShape(o), o.op # "inline",
         NEW e, Operates(o, e)
  PROVE  Elaborates(o, e) /\ HasShape(e) /\ SomeExprs(e.kids)
<1>1. HasShape(e)
  BY DEF HasShape, Operates
<1>2. DOMAIN e.kids = DOMAIN o.kids
  BY SeqHas DEF HasShape, Operates
<1>3. SomeExprs(e.kids)
  BY <1>2 DEF SomeExprs, Operates, Elaborates
<1>4. AnExpr(e)
  BY <1>1, <1>3, ExprIs DEF Operates
<1>5. IsSameAs(o, e)
  BY DEF IsSameAs, Operates, Elaborates
<1> QED  BY <1>1, <1>3, <1>4, <1>5, MatchesIs DEF Elaborates

\* A node of one operand, rebuilt over its elaboration.
LEMMA OfOne ==
  ASSUME NEW o, HasShape(o), o.op \in Unary, NEW x, Elaborates(o.kids[1], x), NEW ty
  PROVE  Operates(o, Expr(o.op, o.name, ty, <<x>>))
<1>1. Len(o.kids) = 1 /\ DOMAIN o.kids = 1 .. 1
  <2>1. Len(o.kids) = 1 /\ IsSeq(o.kids)
    BY DEF HasShape, Nullary, Unary, Binary
  <2> QED  BY <2>1, SeqHas
<1> QED  BY <1>1, OneIsSeq DEF Operates, Expr

\* A node of two operands, rebuilt over their elaborations.
LEMMA OfTwo ==
  ASSUME NEW o, HasShape(o), o.op \in Binary, NEW x, NEW y, Elaborates(o.kids[1], x),
         Elaborates(o.kids[2], y), NEW ty
  PROVE  Operates(o, Expr(o.op, o.name, ty, <<x, y>>))
<1>1. Len(o.kids) = 2 /\ DOMAIN o.kids = 1 .. 2
  <2>1. Len(o.kids) = 2 /\ IsSeq(o.kids)
    BY DEF HasShape, Nullary, Unary, Binary
  <2> QED  BY <2>1, SeqHas
<1> QED  BY <1>1, TwoIsSeq DEF Operates, Expr

\* A conditional expression, rebuilt over its three elaborated operands.
LEMMA OfThree ==
  ASSUME NEW o, HasShape(o), o.op = "cond", NEW x, NEW y, NEW z, Elaborates(o.kids[1], x),
         Elaborates(o.kids[2], y), Elaborates(o.kids[3], z), NEW ty
  PROVE  Operates(o, Expr(o.op, o.name, ty, <<x, y, z>>))
<1>1. Len(o.kids) = 3 /\ DOMAIN o.kids = 1 .. 3
  <2>1. Len(o.kids) = 3 /\ IsSeq(o.kids)
    BY DEF HasShape, Nullary, Unary, Binary
  <2> QED  BY <2>1, SeqHas
<1>2. IsSeq(<<x, y, z>>) /\ Len(<<x, y, z>>) = 3
  BY DEF IsSeq
<1> QED  BY <1>1, <1>2 DEF Operates, Expr
-----------------------------------------------------------------------------
\* Each operator, its operands elaborated, is settled to what it was: the operands
\* are converted, a member that names an attribute becomes the attribute.
LEMMA OperandsHave ==
  ASSUME NEW o, HasShape(o), NEW e, Operates(o, e)
  PROVE  /\ o.op \in Unary => Elaborates(o.kids[1], e.kids[1]) /\ 1 \in DOMAIN o.kids
         /\ o.op \in Binary => /\ Elaborates(o.kids[1], e.kids[1])
                               /\ Elaborates(o.kids[2], e.kids[2])
         /\ o.op = "cond" => \A k \in 1 .. 3 : Elaborates(o.kids[k], e.kids[k])
<1>1. DOMAIN o.kids = 1 .. Len(o.kids)
  BY SeqHas DEF HasShape
<1>2. /\ o.op \in Unary => Len(o.kids) = 1
      /\ o.op \in Binary => Len(o.kids) = 2
      /\ o.op = "cond" => Len(o.kids) = 3
  BY DEF HasShape, Nullary, Unary, Binary
<1>3. \A k \in 1 .. Len(o.kids) : Elaborates(o.kids[k], e.kids[k])
  BY <1>1 DEF Operates
<1>4. CASE o.op \in Unary
  <2>1. o.op \notin Binary /\ o.op # "cond"
    BY <1>4 DEF Unary, Binary
  <2>2. 1 \in 1 .. Len(o.kids)
    BY <1>2, <1>4
  <2> QED  BY <1>1, <1>3, <2>1, <2>2
<1>5. CASE o.op \in Binary
  BY <1>2, <1>3, <1>5 DEF Unary, Binary
<1>6. CASE o.op = "cond"
  BY <1>2, <1>3, <1>6 DEF Unary, Binary
<1> QED  BY <1>4, <1>5, <1>6

\* Settling a member access: the attributes the code asks of the base keep it an elaboration.
LEMMA SettledMember ==
  ASSUME ShapesAsDefined, ComparedAsDefined, NEW n, NEW o, HasShape(o), o.op = "member",
         NEW e, Operates(o, e)
  PROVE  Elaborates(o, SettleMember(n, e).v)
<1> DEFINE x == e.kids[1]
<1>1. Elaborates(o.kids[1], x) /\ Elaborates(o, e) /\ e.name = o.name
  BY OperandsHave, RebuiltIs DEF Unary, Operates
<1>2. \/ SettleMember(n, e).v = e
      \/ SettleMember(n, e).v = Length(x) /\ e.name = "_length"
      \/ /\ SettleMember(n, e).v = Active(x.name, x.kids[1])
         /\ e.name = "_active" /\ x.op = "member"
  BY DEF SettleMember, SettleField, Result, Plainly
<1> HIDE DEF x
<1>3. \A y, op, a : /\ Expr(op, a, None, <<y>>).kids = <<y>> /\ Expr(op, a, None, <<y>>).op = op
                    /\ Expr(op, a, None, <<y>>).name = a
                    /\ {"op", "name", "ty", "kids"} \subseteq DOMAIN Expr(op, a, None, <<y>>)
  BY DEF Expr
<1>4. ASSUME NEW y, NEW op, NEW a, AnExpr(y), op \in Unary, op \notin NamedOps => a = ""
      PROVE  AnExpr(Expr(op, a, None, <<y>>))
  <2> DEFINE r == Expr(op, a, None, <<y>>)
  <2>1. r.kids = <<y>> /\ r.op = op /\ r.name = a /\ {"op", "name", "ty", "kids"} \subseteq DOMAIN r
    BY <1>3
  <2> HIDE DEF r
  <2>2. HasShape(r) /\ r.op # "inline" /\ SomeExprs(r.kids)
    <3>1. r.op # "inline"
      BY <1>4, <2>1 DEF Unary
    <3>2. IsSeq(r.kids) /\ Len(r.kids) = 1 /\ DOMAIN r.kids = {1} /\ r.kids[1] = y
      BY <2>1, OneIsSeq
    <3>3. SomeExprs(r.kids)
      BY <1>4, <3>2 DEF SomeExprs
    <3> QED  BY <1>4, <2>1, <3>1, <3>2, <3>3 DEF HasShape
  <2>3. AnExpr(r)
    BY <2>2, ExprIs
  <2> QED  BY <2>3 DEF r
<1>5. CASE SettleMember(n, e).v = Length(x) /\ e.name = "_length"
  <2>1. AnExpr(Length(x))
    BY <1>1, <1>4 DEF Elaborates, Length, Unary, NamedOps
  <2>2. Length(x).op = "length" /\ Length(x).kids[1] = x
    BY OneIsSeq DEF Length, Expr
  <2> HIDE DEF Length
  <2>3. IsAttributeOf(o, Length(x))
    BY <1>1, <1>5, <2>2 DEF IsAttributeOf, Elaborates
  <2> QED  BY <1>5, <2>1, <2>3, MatchesIs DEF Elaborates
<1>6. CASE /\ SettleMember(n, e).v = Active(x.name, x.kids[1])
           /\ e.name = "_active" /\ x.op = "member"
  <2> DEFINE y == x.kids[1]
             r == Active(x.name, y)
             m == Member(y, x.name)
  <2>1. HasShape(x) /\ SomeExprs(x.kids)
    BY <1>1, ExprHas DEF Elaborates
  <2>2. Len(x.kids) = 1 /\ DOMAIN x.kids = 1 .. 1 /\ AnExpr(y)
    <3>1. Len(x.kids) = 1 /\ IsSeq(x.kids)
      BY <1>6, <2>1 DEF HasShape, Nullary, Unary, Binary
    <3> QED  BY <2>1, <3>1, SeqHas DEF SomeExprs
  <2>3. r.op = "active" /\ r.name = x.name /\ r.kids[1] = y
    BY <1>3, OneIsSeq DEF Active
  <2>4. m.op = "member" /\ m.name = x.name /\ m.kids = <<y>> /\ m.kids[1] = y
    BY <1>3, OneIsSeq DEF Member
  <2>5. AnExpr(r) /\ AnExpr(m)
    BY <1>4, <2>2 DEF Active, Member, Unary, NamedOps
  <2> HIDE DEF r, m
  <2>6. Matches(o.kids[1], m)
    <3>1. IsSameAs(o.kids[1], x)
      BY <1>1, <1>6, MatchesIs DEF Elaborates, IsAttributeOf
    <3>2. IsSameAs(o.kids[1], m)
      BY <1>6, <2>2, <2>4, <3>1, OneIsSeq DEF IsSameAs
    <3> QED  BY <3>2, MatchesIs
  <2>7. IsAttributeOf(o, r)
    BY <1>1, <1>6, <2>3, <2>6 DEF IsAttributeOf, m
  <2> QED  BY <1>6, <2>5, <2>7, MatchesIs DEF Elaborates, r
<1> QED  BY <1>1, <1>2, <1>5, <1>6

\* Settling a call: its arguments are at most cast to the parameters' types.
LEMMA SettledCall ==
  ASSUME ShapesAsDefined, ComparedAsDefined, NEW n, NEW o, HasShape(o), o.op = "call",
         NEW e, Operates(o, e)
  PROVE  Elaborates(o, SettleCall(n, e))
<1> DEFINE args == n.fns[e.name].args
           Passed(k) ==
             IF k \in DOMAIN args THEN Converted(n, e.kids[k], Whnf(n, args[k].ty))
             ELSE e.kids[k]
           passed == [k \in DOMAIN e.kids |-> Passed(k)]
           r == [e EXCEPT !.kids = Each(passed)]
<1>1. SettleCall(n, e) = e \/ SettleCall(n, e) = r
  BY DEF SettleCall
<1>2. Elaborates(o, e)
  BY RebuiltIs
<1>3. Len(e.kids) \in Nat /\ DOMAIN e.kids = 1 .. Len(e.kids) /\ DOMAIN o.kids = DOMAIN e.kids
  BY SeqHas DEF Operates, HasShape
<1>4. passed = [k \in 1 .. Len(e.kids) |-> passed[k]]
  BY <1>3
<1>5. IsSeq(passed) /\ Len(passed) = Len(e.kids) /\ Each(passed) = passed
  <2> HIDE DEF passed
  <2> QED  BY <1>3, <1>4, SeqIs, EachIsSame
<1>6. ASSUME NEW k \in DOMAIN o.kids PROVE Elaborates(o.kids[k], passed[k])
  <2>1. Elaborates(o.kids[k], e.kids[k])
    BY DEF Operates
  <2>2. passed[k] = e.kids[k] \/ \E ty : passed[k] = Converted(n, e.kids[k], ty)
    BY <1>3
  <2> HIDE DEF passed
  <2> QED  BY <2>1, <2>2, ConvertedIs
<1>7. /\ r.op = e.op /\ r.name = e.name /\ r.kids = passed
      /\ {"op", "name", "ty", "kids"} \subseteq DOMAIN r
  BY <1>5 DEF Operates
<1> HIDE DEF r, passed
<1>8. Operates(o, r)
  BY <1>5, <1>6, <1>7 DEF Operates
<1> QED  BY <1>1, <1>2, <1>8, RebuiltIs

\* Settling a binary operation: its operands are at most cast to one type.
LEMMA SettledBinOp ==
  ASSUME ShapesAsDefined, ComparedAsDefined, NEW n, NEW o, AnExpr(o), o.op = "bin_op",
         NEW e, Operates(o, e)
  PROVE  Elaborates(o, SettleBinOp(n, e).v)
<1> DEFINE lhs == e.kids[1]
           rhs == e.kids[2]
<1>0. HasShape(o) /\ AnExpr(o.kids[2])
  <2>1. HasShape(o) /\ SomeExprs(o.kids)
    BY ExprHas
  <2>2. Len(o.kids) = 2 /\ DOMAIN o.kids = 1 .. Len(o.kids)
    BY <2>1, ShapeHas DEF Binary
  <2> QED  BY <2>1, <2>2 DEF SomeExprs
<1>1. /\ Elaborates(o.kids[1], lhs) /\ Elaborates(o.kids[2], rhs) /\ Elaborates(o, e)
      /\ e.name = o.name
  BY <1>0, OperandsHave, RebuiltIs DEF Binary, Operates
<1>2. \/ SettleBinOp(n, e).v = e
      \/ \E x, y : /\ SettleBinOp(n, e).v = BinOp(e.name, x, y)
                   /\ \/ x = lhs \/ x = cast_to_bool(n, lhs) \/ x = ToSize(n, lhs)
                      \/ \E ty : x = Converted(n, lhs, ty)
                   /\ \/ y = rhs \/ y = cast_to_bool(n, rhs) \/ y = ToSize(n, rhs)
                      \/ \E ty : y = Converted(n, rhs, ty)
                      \/ \E ty : /\ rhs.op = "int_lit" /\ rhs.name = "0"
                                 /\ y = IntLit("0", ty)
  <2>1. \E l, r : SettleBinOp(n, e).v = e \/ SettleBinOp(n, e) = SettleOperands(n, e, l, r)
    BY DEF SettleBinOp, Result
  <2>2. PICK l, r : SettleBinOp(n, e).v = e \/ SettleBinOp(n, e) = SettleOperands(n, e, l, r)
    BY <2>1
  <2> DEFINE s == SettleOperands(n, e, l, r).v
             meet == Meet(n, l, r)
             With(x, y) == BinOp(e.name, x, y)
             Both(ty) == With(Converted(n, lhs, ty), Converted(n, rhs, ty))
  <2>3. \/ s = With(lhs, IntLit("0", Whnf(n, l))) /\ rhs.op = "int_lit" /\ rhs.name = "0"
        \/ s = Both(meet)
        \/ s = With(cast_to_bool(n, lhs), cast_to_bool(n, rhs))
        \/ s = With(lhs, Converted(n, rhs, U32))
        \/ s = With(lhs, ToSize(n, rhs))
        \/ s = With(ToSize(n, lhs), rhs)
        \/ s = e
        \/ s = Both(Promoted(n, e.name, meet))
    BY DEF SettleOperands, Plainly, Result
  <2> HIDE DEF s
  <2> QED  BY <2>2, <2>3 DEF s
<1> HIDE DEF lhs, rhs
<1>3. ASSUME NEW x, NEW y, SettleBinOp(n, e).v = BinOp(e.name, x, y),
             Elaborates(o.kids[1], x), Elaborates(o.kids[2], y)
      PROVE  Elaborates(o, SettleBinOp(n, e).v)
  <2>1. BinOp(e.name, x, y) = Expr(o.op, o.name, None, <<x, y>>)
    BY <1>1 DEF BinOp
  <2>2. Operates(o, BinOp(e.name, x, y))
    BY <1>0, <1>3, <2>1, OfTwo DEF Binary
  <2> QED  BY <1>0, <1>3, <2>2, RebuiltIs
<1>4. ASSUME NEW ty, rhs.op = "int_lit", rhs.name = "0"
      PROVE  Elaborates(o.kids[2], IntLit("0", ty))
  <2> DEFINE r == IntLit("0", ty)
  <2>1. /\ {"op", "name", "ty", "kids"} \subseteq DOMAIN r
        /\ r.op = "int_lit" /\ r.name = "0" /\ r.kids = <<>>
    BY DEF IntLit, Expr
  <2> HIDE DEF r
  <2>2. HasShape(rhs) /\ Len(rhs.kids) = 0
    <3>1. HasShape(rhs)
      BY <1>1, ExprHas DEF Elaborates
    <3> QED  BY <1>4, <3>1 DEF HasShape, Unary, Binary
  <2>3. IsSameAs(o.kids[2], rhs)
    BY <1>1, <1>4, MatchesIs DEF Elaborates, IsAttributeOf
  <2>4. IsSameAs(o.kids[2], r)
    <3>1. o.kids[2].op = "int_lit" /\ Len(o.kids[2].kids) = 0
      BY <1>4, <2>2, <2>3 DEF IsSameAs
    <3>2. DOMAIN o.kids[2].kids = {}
      <4>1. HasShape(o.kids[2])
        BY <1>0, ExprHas
      <4>2. IsSeq(o.kids[2].kids)
        BY <4>1, ShapeHas
      <4> QED  BY <3>1, <4>2, EmptyOnly, EmptyIsSeq
    <3> QED  BY <1>4, <2>1, <2>2, <2>3, <3>1, <3>2, EmptyIsSeq DEF IsSameAs
  <2>5. HasShape(r) /\ SomeExprs(r.kids)
    BY <2>1, EmptyIsSeq DEF HasShape, Nullary, NamedOps, SomeExprs
  <2>6. AnExpr(r)
    BY <2>1, <2>5, ExprIs
  <2> QED  BY <2>4, <2>6, MatchesIs DEF Elaborates, r
<1> QED  BY ZenonT(40), <1>1, <1>2, <1>3, <1>4, ConvertedIs

\* A conditional, each of whose branches is converted to a type both have
LEMMA SettledCond ==
  ASSUME ShapesAsDefined, ComparedAsDefined, NEW n, NEW o, HasShape(o), o.op = "cond",
         NEW e, Operates(o, e)
  PROVE  Elaborates(o, SettleCond(n, e))
<1>1. \A k \in 1 .. 3 : Elaborates(o.kids[k], e.kids[k])
  BY OperandsHave
<1>2. \E x, y : /\ SettleCond(n, e) = Cond(cast_to_bool(n, e.kids[1]), x, y)
                /\ x = e.kids[2] \/ \E ty : x = Converted(n, e.kids[2], ty)
                /\ y = e.kids[3] \/ \E ty : y = Converted(n, e.kids[3], ty)
  BY DEF SettleCond
<1>3. PICK x, y : /\ SettleCond(n, e) = Cond(cast_to_bool(n, e.kids[1]), x, y)
                  /\ x = e.kids[2] \/ \E ty : x = Converted(n, e.kids[2], ty)
                  /\ y = e.kids[3] \/ \E ty : y = Converted(n, e.kids[3], ty)
  BY <1>2
<1> DEFINE c == cast_to_bool(n, e.kids[1])
<1>4. Elaborates(o.kids[1], c) /\ Elaborates(o.kids[2], x) /\ Elaborates(o.kids[3], y)
  <2>1. Elaborates(o.kids[1], c)
    BY <1>1, ConvertedIs
  <2>2. Elaborates(o.kids[2], e.kids[2]) /\ Elaborates(o.kids[3], e.kids[3])
    BY <1>1
  <2>3. Elaborates(o.kids[2], x)
    BY <1>3, <2>2, ConvertedIs
  <2>4. Elaborates(o.kids[3], y)
    BY <1>3, <2>2, ConvertedIs
  <2> QED  BY <2>1, <2>3, <2>4
<1> HIDE DEF c
<1>5. Operates(o, Expr(o.op, o.name, None, <<c, x, y>>))
  BY <1>4, OfThree
<1>6. Cond(c, x, y) = Expr(o.op, o.name, None, <<c, x, y>>)
  BY DEF Cond, HasShape, NamedOps
<1> QED  BY <1>3, <1>5, <1>6, RebuiltIs DEF c

\* Every operator: settled, it is what it was.
LEMMA SettledIs ==
  ASSUME ShapesAsDefined, ComparedAsDefined, NEW n, NEW o, AnExpr(o), o.op # "inline",
         NEW e, Operates(o, e)
  PROVE  Elaborates(o, Settle(n, e).v)
<1>1. HasShape(o) /\ e.op = o.op /\ Elaborates(o, e)
  BY ExprHas, RebuiltIs DEF Operates
<1>2. o.op \in {"index", "alloc_array", "not", "assign"} => o.name = ""
  BY <1>1 DEF HasShape, NamedOps
<1>3. CASE o.op = "member"
  BY <1>1, <1>3, SettledMember DEF Settle
<1>4. CASE o.op = "call"
  BY <1>1, <1>4, SettledCall DEF Settle, Plainly, Result
<1>5. CASE o.op = "bin_op"
  BY <1>1, <1>5, SettledBinOp DEF Settle
<1>6. CASE o.op = "cond"
  BY <1>1, <1>6, SettledCond DEF Settle, Plainly, Result
<1>7. CASE o.op \in {"alloc_array", "not"}
  <2>1. Elaborates(o.kids[1], e.kids[1])
    BY <1>1, <1>7, OperandsHave DEF Unary
  <2>2. PICK x, ty : Settle(n, e).v = Expr(o.op, "", ty, <<x>>) /\ Elaborates(o.kids[1], x)
    <3>1. CASE o.op = "alloc_array"
      <4>1. Settle(n, e).v = Expr(o.op, "", e.ty, <<ToSize(n, e.kids[1])>>)
        BY <1>1, <3>1 DEF Settle, Plainly, Result, AllocArray
      <4> QED  BY <2>1, <4>1, ConvertedIs
    <3>2. CASE o.op = "not"
      <4>1. Settle(n, e).v = Expr(o.op, "", None, <<cast_to_bool(n, e.kids[1])>>)
        BY <1>1, <3>2 DEF Settle, Plainly, Result, UnOp
      <4> QED  BY <2>1, <4>1, ConvertedIs
    <3> QED  BY <1>7, <3>1, <3>2
  <2>3. Operates(o, Expr(o.op, "", ty, <<x>>))
    BY <1>1, <1>2, <1>7, <2>2, OfOne DEF Unary
  <2> QED  BY <1>1, <2>2, <2>3, RebuiltIs
<1>8. CASE o.op \in {"index", "assign"}
  <2>1. Elaborates(o.kids[1], e.kids[1]) /\ Elaborates(o.kids[2], e.kids[2])
    BY <1>1, <1>8, OperandsHave DEF Binary
  <2>2. PICK y : Settle(n, e).v = Expr(o.op, "", None, <<e.kids[1], y>>)
                   /\ Elaborates(o.kids[2], y)
    <3>1. CASE o.op = "index"
      <4>1. Settle(n, e).v = Expr(o.op, "", None, <<e.kids[1], ToSize(n, e.kids[2])>>)
        BY <1>1, <3>1 DEF Settle, Plainly, Result, Index
      <4> QED  BY <2>1, <4>1, ConvertedIs
    <3>2. CASE o.op = "assign"
      <4>1. \E y : Settle(n, e).v = Expr(o.op, "", None, <<e.kids[1], y>>)
                   /\ (y = e.kids[2] \/ \E ty : y = Converted(n, e.kids[2], ty))
        BY <1>1, <3>2 DEF Settle, Result, AssignExpr
      <4> QED  BY <2>1, <4>1, ConvertedIs
    <3> QED  BY <1>8, <3>1, <3>2
  <2>3. Operates(o, Expr(o.op, "", None, <<e.kids[1], y>>))
    BY <1>1, <1>2, <1>8, <2>1, <2>2, OfTwo DEF Binary
  <2> QED  BY <1>1, <2>2, <2>3, RebuiltIs
<1>9. CASE o.op \notin {"member", "call", "bin_op", "cond", "alloc_array", "not", "index",
                        "assign"}
  <2>1. Settle(n, e).v = e
    BY <1>1, <1>9 DEF Settle, Plainly, Result
  <2> QED  BY <1>1, <2>1
<1> QED  BY <1>3, <1>4, <1>5, <1>6, <1>7, <1>8, <1>9
-----------------------------------------------------------------------------
\* Statements of some depth, and what their parts are
SomeStmts(stmts) == \E n \in Nat : IsStmts(n, stmts)
AStmt(s) == \E n \in Nat : IsStmt(n, s)

\* The functions of the pass are what their definitions say, of pieces of a program.
SomeType(t) == \E n \in Nat : IsType(n, t)
IsPiece(what, x) ==
  \/ what = "type" /\ SomeType(x)
  \/ what = "rvalue" /\ AnExpr(x)
  \/ what = "code" /\ SomeCode(x)
  \/ what = "stmts" /\ SomeStmts(x)
  \/ what \in {"fn_decl", "decl"}
ElaborateAsDefined ==
  /\ \A what, n, x, y :
       IsPiece(what, x) => Elaborate(what, n, x, y) = Def_Elaborate(what, n, x, y)
  /\ \A n, stmts : \A k \in 1 .. Len(stmts) + 1 :
       SomeStmts(stmts) => elab_from(n, stmts, k) = Def_elab_from(n, stmts, k)

\* The cases of Elaborate, by the names the pass gives them.
LEMMA PiecesAre ==
  ASSUME ElaborateAsDefined
  PROVE  /\ \A n, e, y : AnExpr(e) => elab_rvalue(n, e, y) = NewRvalue(n, e, y)
         /\ \A n, code : SomeCode(code) => elab_code(n, code) = NewCode(n, code)
         /\ \A n, stmts : SomeStmts(stmts) => elab_stmts(n, stmts) = NewStmts(n, stmts)
         /\ \A n, d : elab_fn_decl(n, d) = NewFnDecl(n, d) /\ elab_decl(n, d) = NewDecl(n, d)
         /\ \A n, t : SomeType(t) => elab_type(n, t) = NewType(n, t)
<1>1. \A n, e, y : AnExpr(e) => elab_rvalue(n, e, y) = NewRvalue(n, e, y)
  BY DEF ElaborateAsDefined, IsPiece, elab_rvalue, Def_Elaborate
<1>2. \A n, code : SomeCode(code) => elab_code(n, code) = NewCode(n, code)
  BY DEF ElaborateAsDefined, IsPiece, elab_code, Def_Elaborate
<1>3. \A n, stmts : SomeStmts(stmts) => elab_stmts(n, stmts) = NewStmts(n, stmts)
  BY DEF ElaborateAsDefined, IsPiece, elab_stmts, Def_Elaborate
<1>4. \A n, d : elab_fn_decl(n, d) = NewFnDecl(n, d)
  BY DEF ElaborateAsDefined, IsPiece, elab_fn_decl, Def_Elaborate
<1>5. \A n, d : elab_decl(n, d) = NewDecl(n, d)
  BY DEF ElaborateAsDefined, IsPiece, elab_decl, Def_Elaborate
<1>6. \A n, t : SomeType(t) => elab_type(n, t) = NewType(n, t)
  BY DEF ElaborateAsDefined, IsPiece, elab_type, Def_Elaborate
<1> QED  BY <1>1, <1>2, <1>3, <1>4, <1>5, <1>6

\* Where every expression of some depth is elaborated to what it was, so is the
\* inline code whose antiquotations are of that depth.
ElaboratesTo(m) == \A e : IsExpr(m, e) => \A n, y : Elaborates(e, elab_rvalue(n, e, y).v)
SameText(code, new) == SomeCode(new) /\ MatchesCode(code, new)

\* A token other than an antiquoted expression, with another type in it, is still that token.
LEMMA TokenIs ==
  ASSUME NEW t, IsToken(t), t.token # "expr", NEW ty
  PROVE  LET new == [t EXCEPT !.ty = ty]
         IN /\ IsToken(new) /\ new.token = t.token
            /\ t.token \in {"type", "aux", "field"}
                 \/ (t.token = "declare" /\ new = Declare(t.name, ty))
<1>1. CASE t.token = "declare"
  <2>1. t = Declare(t.name, t.ty)
    BY <1>1 DEF IsToken
  <2>2. [t EXCEPT !.ty = ty] = Declare(t.name, ty)
    BY <2>1 DEF Declare
  <2> QED  BY <1>1, <2>2 DEF IsToken, Declare
<1>2. CASE t.token # "declare"
  <2>1. t = TypeAntiquot(t.ty) \/ t = AuxFn(t.ty) \/ t = FieldName(t.ty)
    BY <1>2 DEF IsToken
  <2>2. CASE t = TypeAntiquot(t.ty)
    <3>1. [t EXCEPT !.ty = ty] = TypeAntiquot(ty)
      BY <2>2 DEF TypeAntiquot
    <3> QED  BY <2>2, <3>1 DEF IsToken, TypeAntiquot
  <2>3. CASE t = AuxFn(t.ty)
    <3>1. [t EXCEPT !.ty = ty] = AuxFn(ty)
      BY <2>3 DEF AuxFn
    <3> QED  BY <2>3, <3>1 DEF IsToken, AuxFn
  <2>4. CASE t = FieldName(t.ty)
    <3>1. [t EXCEPT !.ty = ty] = FieldName(ty)
      BY <2>4 DEF FieldName
    <3> QED  BY <2>4, <3>1 DEF IsToken, FieldName
  <2> QED  BY <2>1, <2>2, <2>3, <2>4
<1> QED  BY <1>1, <1>2

\* Inline code compared token by token: one more token in front on both sides.
LEMMA SameTextAfter ==
  ASSUME NEW t, NEW rest, IsSeq(rest), NEW u, NEW new, IsToken(u), u.token = t.token,
         t.token = "expr" => Elaborates(t.expr, u.expr),
         t.token = "declare" => u.name = t.name, SameText(rest, new)
  PROVE  SameText(<<t>> \o rest, <<u>> \o new)
<1> DEFINE a == <<t>> \o rest
           b == <<u>> \o new
<1>1. IsSeq(new) /\ Len(new) = Len(rest) /\ Len(rest) \in Nat
  BY SeqHas DEF SameText, SomeCode, MatchesCode
<1>2. /\ IsSeq(a) /\ IsSeq(b) /\ Len(a) = Len(rest) + 1 /\ Len(b) = Len(rest) + 1
      /\ a[1] = t /\ b[1] = u
      /\ \A k \in 1 .. Len(rest) : a[k + 1] = rest[k] /\ b[k + 1] = new[k]
  BY <1>1, Before1
<1>3. /\ DOMAIN a = 1 .. Len(rest) + 1 /\ DOMAIN b = 1 .. Len(rest) + 1
      /\ DOMAIN rest = 1 .. Len(rest) /\ DOMAIN new = 1 .. Len(rest)
  BY <1>1, <1>2, SeqHas
<1> HIDE DEF a, b
<1>4. \A k \in 1 .. Len(rest) + 1 : k = 1 \/ (k - 1 \in 1 .. Len(rest) /\ (k - 1) + 1 = k)
  BY <1>1
<1>5. \A k \in 1 .. Len(rest) + 1 :
         /\ IsToken(b[k]) /\ a[k].token = b[k].token
         /\ a[k].token = "expr" => Elaborates(a[k].expr, b[k].expr)
         /\ a[k].token = "declare" => a[k].name = b[k].name
  <2> SUFFICES ASSUME NEW k \in 1 .. Len(rest) + 1
               PROVE  /\ IsToken(b[k]) /\ a[k].token = b[k].token
                      /\ a[k].token = "expr" => Elaborates(a[k].expr, b[k].expr)
                      /\ a[k].token = "declare" => a[k].name = b[k].name
    OBVIOUS
  <2>1. CASE k = 1
    BY <1>2, <2>1
  <2>2. CASE k - 1 \in 1 .. Len(rest) /\ (k - 1) + 1 = k
    <3> DEFINE j == k - 1
    <3>1. a[k] = rest[j] /\ b[k] = new[j] /\ j \in DOMAIN rest /\ j \in DOMAIN new
      BY <1>2, <1>3, <2>2
    <3> HIDE DEF j
    <3> QED  BY <3>1 DEF SameText, SomeCode, MatchesCode, Elaborates
  <2> QED  BY <1>4, <2>1, <2>2
<1>6. SameText(a, b)
  BY <1>2, <1>3, <1>5 DEF SameText, SomeCode, MatchesCode, Elaborates
<1> QED  BY <1>6 DEF a, b

\* The value of a result is what was put in it.
LEMMA ResultIs == \A v, r : Result(v, r).v = v /\ Plainly(v).v = v
BY DEF Plainly, Result

\* Inline code token by token
LEMMA NewCodeIs ==
  ASSUME NEW n, NEW code, code # <<>>
  PROVE  LET t == Head(code)
             rest == Tail(code)
             ty == elab_type(n, t.ty).v
         IN /\ t.token = "expr" =>
                 NewCode(n, code).v
                   = <<Antiquot(elab_rvalue(n, t.expr, None).v)>> \o elab_code(n, rest).v
            /\ t.token \in {"type", "aux"} =>
                 NewCode(n, code).v = <<[t EXCEPT !.ty = ty]>> \o elab_code(n, rest).v
            /\ t.token = "field" => NewCode(n, code).v = <<t>> \o elab_code(n, rest).v
            /\ t.token = "declare" =>
                 NewCode(n, code).v = <<Declare(t.name, ty)>>
                                        \o elab_code(PushVar(n, t.name, ty, "rvalue"), rest).v
<1> DEFINE t == Head(code)
           rest == Tail(code)
           ty == elab_type(n, t.ty)
           e == elab_rvalue(n, t.expr, None)
           inner == PushVar(n, t.name, ty.v, "rvalue")
<1>1. CASE t.token = "expr"
  <2>1. NewCode(n, code) = Result(<<Antiquot(e.v)>> \o elab_code(n, rest).v,
                                  e.reports \cup elab_code(n, rest).reports)
    BY <1>1 DEF NewCode
  <2> QED  BY <1>1, <2>1, ResultIs
<1>2. CASE t.token \in {"type", "aux"}
  <2>1. NewCode(n, code) = Result(<<[t EXCEPT !.ty = ty.v]>> \o elab_code(n, rest).v,
                                  ty.reports \cup elab_code(n, rest).reports)
    BY <1>2 DEF NewCode
  <2> QED  BY <1>2, <2>1, ResultIs
<1>3. CASE t.token = "declare"
  <2>1. NewCode(n, code) = Result(<<Declare(t.name, ty.v)>> \o elab_code(inner, rest).v,
                                  ty.reports \cup elab_code(inner, rest).reports)
    BY <1>3 DEF NewCode
  <2> QED  BY <1>3, <2>1, ResultIs
<1>4. CASE t.token = "field"
  <2>1. NewCode(n, code) = Result(<<t>> \o elab_code(n, rest).v,
                                  {} \cup elab_code(n, rest).reports)
    BY <1>4 DEF NewCode
  <2> QED  BY <1>4, <2>1, ResultIs
<1> QED  BY <1>1, <1>2, <1>3, <1>4

\* Inline code keeps its tokens, whose expressions are elaborated.
LEMMA ElabCode ==
  ASSUME ShapesAsDefined, ElaborateAsDefined, NEW m \in Nat, ElaboratesTo(m)
  PROVE  \A code : IsCode(m, code) => \A n : SameText(code, elab_code(n, code).v)
<1> DEFINE T == {l \in Nat : \A code : IsCode(m, code) /\ Len(code) = l =>
                               \A n : SameText(code, elab_code(n, code).v)}
<1>0. SUFFICES Nat \subseteq T
  BY SeqHas DEF IsCode
<1>1. 0 \in T
  <2> SUFFICES ASSUME NEW code, IsCode(m, code), Len(code) = 0, NEW n
               PROVE  SameText(code, elab_code(n, code).v)
    OBVIOUS
  <2>1. code = <<>>
    BY EmptyOnly DEF IsCode
  <2>2. SomeCode(code)
    BY CodeIs
  <2>3. elab_code(n, code).v = code
    <3>1. elab_code(n, code) = NewCode(n, code)
      BY <2>2, PiecesAre
    <3> QED  BY <2>1, <3>1, ResultIs DEF NewCode
  <2> QED  BY <2>1, <2>2, <2>3, EmptyIsSeq DEF SameText, MatchesCode
<1>2. ASSUME NEW l \in Nat, l \in T PROVE l + 1 \in T
  <2> SUFFICES ASSUME NEW code, IsCode(m, code), Len(code) = l + 1, NEW n
               PROVE  SameText(code, elab_code(n, code).v)
    OBVIOUS
  <2> DEFINE t == Head(code)
             rest == Tail(code)
  <2>1. code # <<>> /\ IsSeq(code)
    BY EmptyIsSeq DEF IsCode
  <2>2. /\ t = code[1] /\ 1 \in DOMAIN code /\ IsSeq(rest) /\ Len(rest) = l
        /\ DOMAIN rest = 1 .. l /\ \A k \in 1 .. l : k + 1 \in DOMAIN code /\ rest[k] = code[k + 1]
    BY <2>1, HeadTail
  <2>3. IsToken(t) /\ (t.token = "expr" => IsExpr(m, t.expr))
    BY <2>2 DEF IsCode
  <2>4. code = <<t>> \o rest
    <3>1. IsSeq(<<t>> \o rest) /\ Len(<<t>> \o rest) = l + 1
            /\ \A k \in 1 .. l + 1 : (<<t>> \o rest)[k] = code[k]
      <4>1. \A k \in 1 .. l + 1 : k = 1 \/ (k - 1 \in 1 .. l /\ (k - 1) + 1 = k)
        OBVIOUS
      <4> HIDE DEF t, rest
      <4> QED  BY <2>2, <4>1, Before1
    <3> QED  BY <2>1, <3>1, SameSeq
  <2> HIDE DEF t, rest
  <2>5. IsCode(m, rest)
    BY <2>2 DEF IsCode
  <2>6. \A inner : SameText(rest, elab_code(inner, rest).v)
    BY <1>2, <2>2, <2>5
  <2>7. SomeCode(code)
    BY CodeIs
  <2>8. PICK u, inner : /\ elab_code(n, code).v = <<u>> \o elab_code(inner, rest).v
                        /\ IsToken(u) /\ u.token = t.token
                        /\ t.token = "expr" => Elaborates(t.expr, u.expr)
                        /\ t.token = "declare" => u.name = t.name
    <3> DEFINE ty == elab_type(n, t.ty).v
               e == elab_rvalue(n, t.expr, None).v
    <3>1. elab_code(n, code) = NewCode(n, code)
      BY <2>7, PiecesAre
    <3>2. CASE t.token = "expr"
      <4>1. elab_code(n, code).v = <<Antiquot(e)>> \o elab_code(n, rest).v
        BY <2>1, <3>1, <3>2, NewCodeIs DEF t, rest
      <4>2. Elaborates(t.expr, e)
        BY <2>3, <3>2 DEF ElaboratesTo
      <4> HIDE DEF e
      <4>3. IsToken(Antiquot(e)) /\ Antiquot(e).token = "expr" /\ Antiquot(e).expr = e
        BY DEF IsToken, Antiquot
      <4> QED  BY <3>2, <4>1, <4>2, <4>3
    <3>3. CASE t.token \in {"type", "aux"}
      <4>1. elab_code(n, code).v = <<[t EXCEPT !.ty = ty]>> \o elab_code(n, rest).v
        BY <2>1, <3>1, <3>3, NewCodeIs DEF t, rest
      <4> HIDE DEF ty
      <4>2. IsToken([t EXCEPT !.ty = ty]) /\ [t EXCEPT !.ty = ty].token = t.token
        BY <2>3, <3>3, TokenIs
      <4> QED  BY <3>3, <4>1, <4>2
    <3>4. CASE t.token = "declare"
      <4>1. elab_code(n, code).v =
              <<Declare(t.name, ty)>> \o elab_code(PushVar(n, t.name, ty, "rvalue"), rest).v
        BY <2>1, <3>1, <3>4, NewCodeIs DEF t, rest
      <4> HIDE DEF ty
      <4>2. /\ IsToken(Declare(t.name, ty)) /\ Declare(t.name, ty).token = "declare"
            /\ Declare(t.name, ty).name = t.name
        BY DEF IsToken, Declare
      <4> QED  BY <3>4, <4>1, <4>2
    <3>5. CASE t.token = "field"
      <4>1. elab_code(n, code).v = <<t>> \o elab_code(n, rest).v
        BY <2>1, <3>1, <3>5, NewCodeIs DEF t, rest
      <4> QED  BY <2>3, <3>5, <4>1
    <3> QED  BY <2>3, <3>2, <3>3, <3>4, <3>5, TokenIs
  <2> QED  BY ZenonT(40), <2>2, <2>4, <2>6, <2>8, SameTextAfter
<1> HIDE DEF T
<1> QED  BY <1>1, <1>2, EveryNumber

\* The operands of an operator, elaborated in their order
LEMMA ElabOperands ==
  ASSUME NEW m \in Nat, ElaboratesTo(m), NEW e, HasShape(e),
         \A k \in DOMAIN e.kids : IsExpr(m, e.kids[k]), NEW n, NEW y
  PROVE  LET v == elab_operands(n, e, y).v
         IN IsSeq(v) /\ Len(v) = Len(e.kids) /\ \A k \in DOMAIN e.kids : Elaborates(e.kids[k], v[k])
<1> DEFINE v == elab_operands(n, e, y).v
           Done(rs) == /\ IsSeq(rs) /\ Len(rs) = Len(e.kids)
                       /\ \A k \in DOMAIN e.kids : Elaborates(e.kids[k], rs[k].v)
<1>1. DOMAIN e.kids = 1 .. Len(e.kids) /\ Len(e.kids) \in Nat
  BY ShapeHas
<1>2. ASSUME NEW rs, Done(rs), v = All(rs).v
      PROVE  IsSeq(v) /\ Len(v) = Len(e.kids) /\ \A k \in DOMAIN e.kids : Elaborates(e.kids[k], v[k])
  <2> HIDE DEF v
  <2> QED  BY <1>1, <1>2, AllIs
<1>3. CASE e.op = "assign"
  <2> DEFINE a == elab_rvalue(n, e.kids[1], None)
             b == elab_rvalue(n, e.kids[2], infer_expr(n, a.v))
  <2>1. Len(e.kids) = 2
    BY <1>3, ShapeHas DEF Binary
  <2>2. v = All(<<a, b>>).v
    BY <1>3 DEF elab_operands
  <2>3. Elaborates(e.kids[1], a.v) /\ Elaborates(e.kids[2], b.v)
    BY <1>1, <2>1 DEF ElaboratesTo
  <2> HIDE DEF a, b
  <2>4. Done(<<a, b>>)
    BY <1>1, <2>1, <2>3, TwoIsSeq
  <2> HIDE DEF Done
  <2> QED  BY <1>2, <2>2, <2>4
<1>4. CASE e.op = "quantified"
  <2> DEFINE a == elab_rvalue(PushVar(n, e.name, e.ty, "rvalue"), e.kids[1], None)
  <2>1. Len(e.kids) = 1
    BY <1>4, ShapeHas DEF Unary
  <2>2. v = All(<<a>>).v
    BY <1>4 DEF elab_operands
  <2>3. Elaborates(e.kids[1], a.v)
    BY <1>1, <2>1 DEF ElaboratesTo
  <2> HIDE DEF a
  <2>4. Done(<<a>>)
    BY <1>1, <2>1, <2>3, OneIsSeq
  <2> HIDE DEF Done
  <2> QED  BY <1>2, <2>2, <2>4
<1>5. CASE e.op \notin {"assign", "quantified"}
  <2> DEFINE rs == [k \in DOMAIN e.kids |-> elab_rvalue(n, e.kids[k], Wanted(n, e, y, k))]
  <2>1. v = All(rs).v
    BY <1>5 DEF elab_operands
  <2>2. rs = [k \in 1 .. Len(e.kids) |-> rs[k]]
    BY <1>1
  <2>3. \A k \in DOMAIN e.kids : Elaborates(e.kids[k], rs[k].v)
    BY DEF ElaboratesTo
  <2> HIDE DEF rs
  <2>4. Done(rs)
    BY <1>1, <2>2, <2>3, SeqIs
  <2> HIDE DEF Done
  <2> QED  BY <1>2, <2>1, <2>4
<1> QED  BY <1>3, <1>4, <1>5

\* An expression is elaborated to itself, but for casts and attributes.
LEMMA ElabExpr ==
  ASSUME ShapesAsDefined, ComparedAsDefined, ElaborateAsDefined
  PROVE  \A m \in Nat : ElaboratesTo(m)
<1> DEFINE T == {m \in Nat : ElaboratesTo(m)}
<1> SUFFICES Nat \subseteq T
  OBVIOUS
<1>1. ASSUME NEW l \in Nat, \A m \in Nat : m < l => m \in T
      PROVE  l \in T
  <2> SUFFICES ASSUME NEW e, IsExpr(l, e), NEW n, NEW y
               PROVE  Elaborates(e, elab_rvalue(n, e, y).v)
    BY DEF ElaboratesTo
  <2> DEFINE m == l - 1
  <2>1. /\ m \in Nat /\ m < l /\ HasShape(e) /\ (\A k \in DOMAIN e.kids : IsExpr(m, e.kids[k]))
        /\ e.op = "inline" => IsCode(m, e.code)
    BY DEF ShapesAsDefined, Def_IsExpr
  <2>2. AnExpr(e)
    BY DEF AnExpr
  <2> HIDE DEF m
  <2>3. ElaboratesTo(m)
    BY <1>1, <2>1
  <2>4. elab_rvalue(n, e, y) = NewRvalue(n, e, y)
    BY <2>2, PiecesAre
  <2> DEFINE ty == elab_named_type(n, e, y).v
             typed == [e EXCEPT !.ty = ty]
  <2>5. /\ {"op", "name", "ty", "kids"} \subseteq DOMAIN typed
        /\ typed.op = e.op /\ typed.name = e.name /\ typed.kids = e.kids
        /\ e.op = "inline" => "code" \in DOMAIN typed /\ typed.code = e.code
    BY <2>1 DEF HasShape
  <2>6. CASE e.op = "inline"
    <3> DEFINE code == elab_code(n, e.code).v
               r == [typed EXCEPT !.code = code]
    <3>1. NewRvalue(n, e, y).v = r
      BY <2>6, ResultIs DEF NewRvalue
    <3>2. SameText(e.code, code)
      BY <2>1, <2>3, <2>6, ElabCode
    <3>3. /\ {"op", "name", "ty", "kids", "code"} \subseteq DOMAIN r
          /\ r.op = "inline" /\ r.name = e.name /\ r.kids = e.kids /\ r.code = code
      BY <2>5, <2>6
    <3>4. Len(e.kids) = 0 /\ DOMAIN e.kids = {} /\ e.name = "" /\ IsSeq(e.kids)
      <4>1. Len(e.kids) = 0 /\ IsSeq(e.kids)
        BY <2>1, <2>6, ShapeHas DEF Nullary
      <4>2. e.name = ""
        BY <2>1, <2>6 DEF HasShape, NamedOps
      <4> QED  BY <4>1, <4>2, EmptyOnly, EmptyIsSeq
    <3> HIDE DEF r, code, ty, typed
    <3>5. HasShape(r)
      BY <3>3, <3>4 DEF HasShape, Nullary
    <3>6. SomeExprs(r.kids)
      BY <3>3, <3>4 DEF SomeExprs
    <3>7. AnExpr(r)
      BY <3>2, <3>3, <3>5, <3>6, ExprIs DEF SameText
    <3>8. IsSameAs(e, r)
      BY <2>6, <3>2, <3>3, <3>4 DEF IsSameAs, SameText
    <3> QED  BY <2>4, <3>1, <3>7, <3>8, MatchesIs DEF Elaborates
  <2>7. CASE e.op # "inline"
    <3> DEFINE v == elab_operands(n, typed, y).v
               r == [typed EXCEPT !.kids = v]
    <3>1. NewRvalue(n, e, y).v = Settle(n, r).v
      <4>1. NewRvalue(n, e, y)
              = WithReports(Settle(n, r), elab_named_type(n, e, y).reports
                                            \cup elab_operands(n, typed, y).reports)
        BY <2>7 DEF NewRvalue
      <4> QED  BY <4>1, ResultIs DEF WithReports
    <3>2. /\ IsSeq(v) /\ Len(v) = Len(e.kids)
          /\ \A k \in DOMAIN e.kids : Elaborates(e.kids[k], v[k])
      <4> HIDE DEF typed
      <4>1. HasShape(typed)
        BY <2>1, <2>5, <2>7 DEF HasShape
      <4> QED  BY <2>1, <2>3, <2>5, <4>1, ElabOperands
    <3>3. r.op = e.op /\ r.name = e.name /\ r.kids = v
            /\ {"op", "name", "ty", "kids"} \subseteq DOMAIN r
      BY <2>5
    <3> HIDE DEF r, v
    <3>4. Operates(e, r)
      BY <3>2, <3>3 DEF Operates
    <3> QED  BY <2>2, <2>4, <2>7, <3>1, <3>4, SettledIs
  <2> QED  BY <2>6, <2>7
<1> HIDE DEF T
<1> QED  BY <1>1, EveryNumberAtOnce

\* Every part of a program is elaborated to the same.
SameExprs(es, new) == SomeExprs(new) /\ MatchesAll(es, new)

\* Expressions elaborated one by one, in their order.
LEMMA EachElaborated ==
  ASSUME NEW es, SomeExprs(es), NEW rs, IsSeq(rs), Len(rs) = Len(es),
         \A k \in DOMAIN es : Elaborates(es[k], rs[k].v)
  PROVE  SameExprs(es, All(rs).v)
<1>1. DOMAIN es = 1 .. Len(es) /\ Len(es) \in Nat
  BY SeqHas DEF SomeExprs
<1>2. IsSeq(All(rs).v) /\ Len(All(rs).v) = Len(es) /\ \A k \in 1 .. Len(es) : All(rs).v[k] = rs[k].v
  BY AllIs
<1>3. DOMAIN All(rs).v = 1 .. Len(es)
  BY <1>2, SeqHas
<1> QED  BY <1>1, <1>2, <1>3 DEF SameExprs, SomeExprs, MatchesAll, Elaborates

\* Every expression, list of expressions and inline code is elaborated to what it was.
LEMMA ElabParts ==
  ASSUME ShapesAsDefined, ComparedAsDefined, ElaborateAsDefined, NEW n
  PROVE  /\ \A e : AnExpr(e) => /\ \A y : Elaborates(e, elab_rvalue(n, e, y).v)
                                /\ Elaborates(e, elab_slprop(n, e).v)
                                /\ Elaborates(e, elab_bool(n, e).v)
         /\ \A es : SomeExprs(es) => /\ \A y : SameExprs(es, elab_rvalues(n, es, y).v)
                                     /\ SameExprs(es, elab_slprops(n, es).v)
                                     /\ SameExprs(es, elab_bools(n, es).v)
         /\ \A code : SomeCode(code) => SameText(code, elab_code(n, code).v)
<1>1. ASSUME NEW e, AnExpr(e), NEW y PROVE Elaborates(e, elab_rvalue(n, e, y).v)
  <2>1. PICK m \in Nat : IsExpr(m, e)
    BY <1>1 DEF AnExpr
  <2>2. ElaboratesTo(m)
    BY ElabExpr
  <2> QED  BY <2>1, <2>2 DEF ElaboratesTo
<1>2. ASSUME NEW e, AnExpr(e)
      PROVE  Elaborates(e, elab_slprop(n, e).v) /\ Elaborates(e, elab_bool(n, e).v)
  <2>1. /\ elab_slprop(n, e).v = cast_to_slprop(n, elab_rvalue(n, e, SLProp).v)
        /\ elab_bool(n, e).v = cast_to_bool(n, elab_rvalue(n, e, Bool).v)
    BY ResultIs DEF elab_slprop, elab_bool
  <2>2. /\ Elaborates(e, elab_rvalue(n, e, SLProp).v)
        /\ Elaborates(e, elab_rvalue(n, e, Bool).v)
    BY <1>1, <1>2
  <2> QED  BY <2>1, <2>2, ConvertedIs
<1>3. ASSUME NEW es, SomeExprs(es)
      PROVE  /\ \A y : SameExprs(es, elab_rvalues(n, es, y).v)
             /\ SameExprs(es, elab_slprops(n, es).v)
             /\ SameExprs(es, elab_bools(n, es).v)
  <2>1. DOMAIN es = 1 .. Len(es) /\ Len(es) \in Nat /\ \A k \in DOMAIN es : AnExpr(es[k])
    BY <1>3, SeqHas DEF SomeExprs
  <2>2. ASSUME NEW rs, rs = [k \in DOMAIN es |-> rs[k]],
               \A k \in DOMAIN es : Elaborates(es[k], rs[k].v)
        PROVE  SameExprs(es, All(rs).v)
    <3>1. IsSeq(rs) /\ Len(rs) = Len(es)
      BY <2>1, <2>2, SeqIs
    <3> QED  BY <1>3, <2>2, <3>1, EachElaborated
  <2>3. SameExprs(es, elab_slprops(n, es).v)
    <3> DEFINE rs == [k \in DOMAIN es |-> elab_slprop(n, es[k])]
    <3>1. rs = [k \in DOMAIN es |-> rs[k]] /\ \A k \in DOMAIN es : Elaborates(es[k], rs[k].v)
      BY <1>2, <2>1
    <3>2. elab_slprops(n, es) = All(rs)
      BY DEF elab_slprops
    <3> HIDE DEF rs
    <3> QED  BY <2>2, <3>1, <3>2
  <2>4. SameExprs(es, elab_bools(n, es).v)
    <3> DEFINE rs == [k \in DOMAIN es |-> elab_bool(n, es[k])]
    <3>1. rs = [k \in DOMAIN es |-> rs[k]] /\ \A k \in DOMAIN es : Elaborates(es[k], rs[k].v)
      BY <1>2, <2>1
    <3>2. elab_bools(n, es) = All(rs)
      BY DEF elab_bools
    <3> HIDE DEF rs
    <3> QED  BY <2>2, <3>1, <3>2
  <2>5. ASSUME NEW y PROVE SameExprs(es, elab_rvalues(n, es, y).v)
    <3> DEFINE rs == [k \in DOMAIN es |-> elab_rvalue(n, es[k], y)]
    <3>1. rs = [k \in DOMAIN es |-> rs[k]] /\ \A k \in DOMAIN es : Elaborates(es[k], rs[k].v)
      BY <1>1, <2>1
    <3>2. elab_rvalues(n, es, y) = All(rs)
      BY DEF elab_rvalues
    <3> HIDE DEF rs
    <3> QED  BY <2>2, <3>1, <3>2
  <2> QED  BY <2>3, <2>4, <2>5
<1>4. ASSUME NEW code, SomeCode(code) PROVE SameText(code, elab_code(n, code).v)
  <2>1. PICK m \in Nat : IsCode(m, code)
    BY <1>4, CodeIs
  <2>2. ElaboratesTo(m)
    BY ElabExpr
  <2> QED  BY <2>1, <2>2, ElabCode
<1> QED  BY <1>1, <1>2, <1>3, <1>4
-----------------------------------------------------------------------------
\* What has some depth has every greater one.
Deep(d, n) == d \in Nat /\ n \in Nat /\ d <= n

\* A list of expressions has a depth that bounds those of all of them.
LEMMA DeepExprs ==
  ASSUME ShapesAsDefined, NEW es
  PROVE  SomeExprs(es) <=> \E d \in Nat : \A n : Deep(d, n) => IsExprs(n, es)
<1>1. ASSUME SomeExprs(es) PROVE \E d \in Nat : \A n : Deep(d, n) => IsExprs(n, es)
  <2>1. Len(es) \in Nat /\ DOMAIN es = 1 .. Len(es) /\ IsSeq(es)
    BY <1>1, SeqHas DEF SomeExprs
  <2>2. \A k \in 1 .. Len(es) : k \in Nat => AnExpr(es[k])
    BY <1>1, <2>1 DEF SomeExprs
  <2>3. PICK d \in Nat : \A k \in 1 .. Len(es) : k \in Nat => IsExpr(d, es[k])
    BY <2>1, <2>2, CommonDepth
  <2>4. ASSUME NEW n, Deep(d, n) PROVE IsExprs(n, es)
    BY <2>1, <2>3, <2>4, DeeperExpr DEF Deep, IsExprs
  <2> QED  BY <2>4
<1>2. ASSUME NEW d \in Nat, \A n : Deep(d, n) => IsExprs(n, es) PROVE SomeExprs(es)
  <2>1. IsExprs(d, es)
    BY <1>2 DEF Deep
  <2> QED  BY <2>1 DEF IsExprs, SomeExprs, AnExpr
<1> QED  BY <1>1, <1>2

\* Inline code has a depth that bounds those of all its expressions.
LEMMA DeepCode ==
  ASSUME ShapesAsDefined, NEW code
  PROVE  SomeCode(code) <=> \E d \in Nat : \A n : Deep(d, n) => IsCode(n, code)
<1>1. ASSUME NEW d \in Nat, IsCode(d, code), NEW n, Deep(d, n) PROVE IsCode(n, code)
  BY <1>1, DeeperExpr DEF Deep, IsCode
<1>2. ASSUME NEW d \in Nat, \A n : Deep(d, n) => IsCode(n, code) PROVE IsCode(d, code)
  BY <1>2 DEF Deep
<1> QED  BY <1>1, <1>2, CodeIs

\* Statements of some depth are statements of every greater depth.
LEMMA DeeperStmts ==
  ASSUME ShapesAsDefined
  PROVE  \A m, n : Deep(m, n) => /\ \A stmts : IsStmts(m, stmts) => IsStmts(n, stmts)
                                 /\ \A s : IsStmt(m, s) => IsStmt(n, s)
<1> DEFINE StmtsStay(m, n) == \A stmts : IsStmts(m, stmts) => IsStmts(n, stmts)
           T == {m \in Nat : \A n : Deep(m, n) => StmtsStay(m, n)}
<1>1. ASSUME NEW m, NEW n, Deep(m, n), StmtsStay(m, n), NEW s, IsStmt(m, s) PROVE IsStmt(n, s)
  <2>1. \A e : IsExpr(m, e) => IsExpr(n, e)
    BY <1>1, DeeperExpr DEF Deep
  <2> QED  BY <1>1, <2>1 DEF IsStmt, IsExprs, IsCode
<1>2. ASSUME NEW m \in Nat, \A l \in Nat : l < m => l \in T
      PROVE  m \in T
  <2> SUFFICES ASSUME NEW n, Deep(m, n), NEW stmts, IsStmts(m, stmts) PROVE IsStmts(n, stmts)
    OBVIOUS
  <2>1. m - 1 \in Nat /\ m - 1 < m /\ IsSeq(stmts) /\ \A k \in DOMAIN stmts : IsStmt(m - 1, stmts[k])
    BY DEF ShapesAsDefined, Def_IsStmts
  <2>2. Deep(m - 1, n - 1) /\ n \in Nat \ {0}
    BY <2>1 DEF Deep
  <2>3. StmtsStay(m - 1, n - 1)
    BY <1>2, <2>1, <2>2
  <2>4. \A k \in DOMAIN stmts : IsStmt(n - 1, stmts[k])
    BY <1>1, <2>1, <2>2, <2>3
  <2> QED  BY <2>1, <2>2, <2>4 DEF ShapesAsDefined, Def_IsStmts
<1> HIDE DEF T
<1>3. Nat \subseteq T
  BY <1>2, EveryNumberAtOnce
<1>4. \A m, n : Deep(m, n) => StmtsStay(m, n)
  BY <1>3 DEF T, Deep
<1> QED  BY <1>1, <1>4

\* A block has a depth that bounds those of all its statements.
LEMMA DeepStmts ==
  ASSUME ShapesAsDefined, NEW stmts
  PROVE  SomeStmts(stmts) <=> \E d \in Nat : \A n : Deep(d, n) => IsStmts(n, stmts)
<1>1. ASSUME NEW d \in Nat, \A n : Deep(d, n) => IsStmts(n, stmts) PROVE IsStmts(d, stmts)
  BY <1>1 DEF Deep
<1> QED  BY <1>1, DeeperStmts DEF SomeStmts, Deep

\* A statement is one whose parts are of some depth; so are statements in order.
LEMMA StmtsAre ==
  ASSUME ShapesAsDefined, NEW stmts
  PROVE  SomeStmts(stmts) <=> IsSeq(stmts) /\ \A k \in DOMAIN stmts : AStmt(stmts[k])
<1>1. ASSUME SomeStmts(stmts) PROVE IsSeq(stmts) /\ \A k \in DOMAIN stmts : AStmt(stmts[k])
  <2>1. PICK n \in Nat : IsStmts(n, stmts)
    BY <1>1 DEF SomeStmts
  <2>2. n - 1 \in Nat /\ IsSeq(stmts) /\ \A k \in DOMAIN stmts : IsStmt(n - 1, stmts[k])
    BY <2>1 DEF ShapesAsDefined, Def_IsStmts
  <2> QED  BY <2>2 DEF AStmt
<1>2. ASSUME IsSeq(stmts), \A k \in DOMAIN stmts : AStmt(stmts[k]) PROVE SomeStmts(stmts)
  <2>1. Len(stmts) \in Nat /\ DOMAIN stmts = 1 .. Len(stmts)
    BY <1>2, SeqHas
  <2> DEFINE T == {m \in Nat : m <= Len(stmts) =>
                     \E d \in Nat : \A k \in 1 .. m : IsStmt(d, stmts[k])}
  <2>2. 0 \in T
    OBVIOUS
  <2>3. ASSUME NEW m \in Nat, m \in T PROVE m + 1 \in T
    <3> SUFFICES ASSUME m + 1 <= Len(stmts)
                 PROVE \E d \in Nat : \A k \in 1 .. m + 1 : IsStmt(d, stmts[k])
      OBVIOUS
    <3>1. m <= Len(stmts) /\ m + 1 \in DOMAIN stmts
      BY <2>1
    <3>2. PICK d \in Nat : \A k \in 1 .. m : IsStmt(d, stmts[k])
      BY <2>3, <3>1
    <3>3. PICK c \in Nat : IsStmt(c, stmts[m + 1])
      BY <1>2, <3>1 DEF AStmt
    <3>4. Deep(c, c + d) /\ Deep(d, c + d) /\ c + d \in Nat
      BY DEF Deep
    <3>5. \A k \in 1 .. m + 1 : IsStmt(c + d, stmts[k])
      <4> SUFFICES ASSUME NEW k \in 1 .. m + 1 PROVE IsStmt(c + d, stmts[k])
        OBVIOUS
      <4>1. CASE k \in 1 .. m
        BY <3>2, <3>4, <4>1, DeeperStmts
      <4>2. CASE k = m + 1
        BY <3>3, <3>4, <4>2, DeeperStmts
      <4> QED  BY <4>1, <4>2
    <3> QED  BY <3>4, <3>5
  <2> HIDE DEF T
  <2>4. Len(stmts) \in T
    BY <2>1, <2>2, <2>3, EveryNumber
  <2>5. PICK d \in Nat : \A k \in 1 .. Len(stmts) : IsStmt(d, stmts[k])
    BY <2>1, <2>4 DEF T
  <2>6. d + 1 \in Nat \ {0} /\ d + 1 - 1 = d
    OBVIOUS
  <2>7. IsStmts(d + 1, stmts)
    BY <1>2, <2>1, <2>5, <2>6 DEF ShapesAsDefined, Def_IsStmts
  <2> QED  BY <2>6, <2>7 DEF SomeStmts
<1> QED  BY <1>1, <1>2

\* A statement is one of the known shapes whose expressions, code and blocks are such.
LEMMA StmtIs ==
  ASSUME ShapesAsDefined, NEW s
  PROVE  AStmt(s) <=> /\ StmtShape(s) /\ SomeExprs(Exprs(s)) /\ SomeCode(StmtCode(s))
                      /\ \A b \in DOMAIN Blocks(s) : SomeStmts(Blocks(s)[b])
<1>1. ASSUME AStmt(s)
      PROVE  /\ StmtShape(s) /\ SomeExprs(Exprs(s)) /\ SomeCode(StmtCode(s))
             /\ \A b \in DOMAIN Blocks(s) : SomeStmts(Blocks(s)[b])
  <2>1. PICK n \in Nat : IsStmt(n, s)
    BY <1>1 DEF AStmt
  <2> QED  BY <2>1, CodeIs DEF IsStmt, IsExprs, SomeExprs, AnExpr, SomeStmts
<1>2. ASSUME StmtShape(s), SomeExprs(Exprs(s)), SomeCode(StmtCode(s)),
             \A b \in DOMAIN Blocks(s) : SomeStmts(Blocks(s)[b])
      PROVE  AStmt(s)
  <2>1. PICK c \in Nat : \A n : Deep(c, n) => IsExprs(n, Exprs(s))
    BY <1>2, DeepExprs
  <2>2. PICK d \in Nat : \A n : Deep(d, n) => IsCode(n, StmtCode(s))
    BY <1>2, DeepCode
  <2>3. DOMAIN Blocks(s) \subseteq {1, 2}
    BY DEF Blocks
  <2>4. PICK p \in Nat : 1 \in DOMAIN Blocks(s) => \A n : Deep(p, n) => IsStmts(n, Blocks(s)[1])
    BY <1>2, DeepStmts
  <2>5. PICK q \in Nat : 2 \in DOMAIN Blocks(s) => \A n : Deep(q, n) => IsStmts(n, Blocks(s)[2])
    BY <1>2, DeepStmts
  <2> DEFINE n == c + d + p + q
  <2>6. n \in Nat /\ Deep(c, n) /\ Deep(d, n) /\ Deep(p, n) /\ Deep(q, n)
    BY DEF Deep
  <2> HIDE DEF n
  <2>7. \A b \in DOMAIN Blocks(s) : IsStmts(n, Blocks(s)[b])
    BY <2>3, <2>4, <2>5, <2>6
  <2>8. IsStmt(n, s)
    BY <1>2, <2>1, <2>2, <2>6, <2>7 DEF IsStmt
  <2> QED  BY <2>6, <2>8 DEF AStmt
<1> QED  BY <1>1, <1>2
-----------------------------------------------------------------------------
\* Code compared statement by statement is compared as a whole: to itself, in
\* parts, and through other code.
SameStmt(o, e) ==
  /\ o.op = e.op /\ StmtName(o) = StmtName(e)
  /\ MatchesAll(Exprs(o), Exprs(e)) /\ MatchesCode(StmtCode(o), StmtCode(e))
  /\ \A b \in DOMAIN Blocks(o) : SameCode(Blocks(o)[b], Blocks(e)[b])

\* One step of the comparison of two blocks.
LEMMA SameCodeIs ==
  ASSUME ComparedAsDefined, NEW os, NEW es
  PROVE  SameCode(os, es) <=> Len(os) = Len(es) /\ \A k \in DOMAIN os : SameStmt(os[k], es[k])
BY DEF ComparedAsDefined, Def_SameCode, SameStmt

\* Lists of expressions and inline code match themselves.
LEMMA PartsMatchThemselves ==
  ASSUME ShapesAsDefined, ComparedAsDefined
  PROVE  /\ \A es : SomeExprs(es) => MatchesAll(es, es)
         /\ \A code : SomeCode(code) => MatchesCode(code, code)
BY MatchesItself DEF SomeExprs, SomeCode, MatchesAll, MatchesCode

\* Every block is the same code as itself.
LEMMA SameCodeItself ==
  ASSUME ShapesAsDefined, ComparedAsDefined
  PROVE  \A stmts : SomeStmts(stmts) => SameCode(stmts, stmts)
<1> DEFINE T == {n \in Nat : \A stmts : IsStmts(n, stmts) => SameCode(stmts, stmts)}
<1> SUFFICES Nat \subseteq T
  BY DEF SomeStmts
<1>1. ASSUME NEW n \in Nat, \A m \in Nat : m < n => m \in T
      PROVE  n \in T
  <2> SUFFICES ASSUME NEW stmts, IsStmts(n, stmts) PROVE SameCode(stmts, stmts)
    OBVIOUS
  <2>1. n - 1 \in Nat /\ n - 1 < n /\ \A k \in DOMAIN stmts : IsStmt(n - 1, stmts[k])
    BY DEF ShapesAsDefined, Def_IsStmts
  <2>2. \A block : IsStmts(n - 1, block) => SameCode(block, block)
    BY <1>1, <2>1
  <2>3. ASSUME NEW s, IsStmt(n - 1, s) PROVE SameStmt(s, s)
    <3>1. SomeExprs(Exprs(s)) /\ SomeCode(StmtCode(s))
      BY <2>1, <2>3, StmtIs DEF AStmt
    <3>2. \A b \in DOMAIN Blocks(s) : IsStmts(n - 1, Blocks(s)[b])
      BY <2>3 DEF IsStmt
    <3> QED  BY <2>2, <3>1, <3>2, PartsMatchThemselves DEF SameStmt
  <2> QED  BY <2>1, <2>3, SameCodeIs
<1> HIDE DEF T
<1> QED  BY <1>1, EveryNumberAtOnce

\* Blocks that are the same code one by one are so one after the other.
LEMMA SameCodeJoined ==
  ASSUME ComparedAsDefined, NEW a, NEW b, NEW c, NEW d, IsSeq(a), IsSeq(b), IsSeq(c), IsSeq(d),
         SameCode(a, c), SameCode(b, d)
  PROVE  SameCode(a \o b, c \o d)
<1>1. /\ Len(a) \in Nat /\ Len(b) \in Nat /\ Len(a) = Len(c) /\ Len(b) = Len(d)
      /\ DOMAIN a = 1 .. Len(a) /\ DOMAIN b = 1 .. Len(b)
  BY SeqHas, SameCodeIs
<1>2. \A k \in 1 .. Len(a) : SameStmt(a[k], c[k])
  BY <1>1, SameCodeIs
<1>3. \A k \in 1 .. Len(b) : SameStmt(b[k], d[k])
  BY <1>1, SameCodeIs
<1>4. /\ Len(a \o b) = Len(c \o d) /\ DOMAIN (a \o b) = 1 .. Len(a) + Len(b)
      /\ \A k \in 1 .. Len(a) : (a \o b)[k] = a[k] /\ (c \o d)[k] = c[k]
      /\ \A k \in 1 .. Len(b) : (a \o b)[Len(a) + k] = b[k] /\ (c \o d)[Len(a) + k] = d[k]
  <2>1. /\ IsSeq(a \o b) /\ Len(a \o b) = Len(a) + Len(b)
        /\ \A k \in 1 .. Len(a) : (a \o b)[k] = a[k]
        /\ \A k \in 1 .. Len(b) : (a \o b)[Len(a) + k] = b[k]
    BY ConcatHas
  <2>2. /\ Len(c \o d) = Len(c) + Len(d)
        /\ \A k \in 1 .. Len(c) : (c \o d)[k] = c[k]
        /\ \A k \in 1 .. Len(d) : (c \o d)[Len(c) + k] = d[k]
    BY ConcatHas
  <2>3. DOMAIN (a \o b) = 1 .. Len(a) + Len(b)
    BY <2>1, SeqHas
  <2> QED  BY <1>1, <2>1, <2>2, <2>3
<1>5. ASSUME NEW k \in 1 .. Len(a) + Len(b) PROVE SameStmt((a \o b)[k], (c \o d)[k])
  <2>1. CASE k \in 1 .. Len(a)
    BY <1>2, <1>4, <2>1
  <2>2. CASE k \notin 1 .. Len(a)
    <3> DEFINE j == k - Len(a)
    <3>1. j \in 1 .. Len(b) /\ k = Len(a) + j
      BY <1>1, <2>2
    <3> HIDE DEF j
    <3> QED  BY <1>3, <1>4, <3>1
  <2> QED  BY <2>1, <2>2
<1> QED  BY <1>4, <1>5, SameCodeIs

\* Matches of lists of expressions and of inline code compose.
LEMMA PartsMatchThrough ==
  ASSUME ShapesAsDefined, ComparedAsDefined
  PROVE  /\ \A a, b, c : SomeExprs(a) /\ SomeExprs(b) /\ SomeExprs(c)
                           => (MatchesAll(a, b) /\ MatchesAll(b, c) => MatchesAll(a, c))
         /\ \A a, b, c : SomeCode(a) /\ SomeCode(b) /\ SomeCode(c)
                           => (MatchesCode(a, b) /\ MatchesCode(b, c) => MatchesCode(a, c))
<1>1. ASSUME NEW a, NEW b, NEW c, SomeExprs(a), SomeExprs(b), SomeExprs(c),
             MatchesAll(a, b), MatchesAll(b, c)
      PROVE  MatchesAll(a, c)
  <2>1. DOMAIN a = DOMAIN b /\ DOMAIN b = DOMAIN c
    BY <1>1, SeqHas DEF SomeExprs, MatchesAll
  <2> QED  BY <1>1, <2>1, MatchesTransitive DEF SomeExprs, MatchesAll
<1>2. ASSUME NEW a, NEW b, NEW c, SomeCode(a), SomeCode(b), SomeCode(c),
             MatchesCode(a, b), MatchesCode(b, c)
      PROVE  MatchesCode(a, c)
  <2>1. DOMAIN a = DOMAIN b /\ DOMAIN b = DOMAIN c
    BY <1>2, SeqHas DEF SomeCode, MatchesCode
  <2> QED  BY <1>2, <2>1, MatchesTransitive DEF SomeCode, MatchesCode
<1> QED  BY <1>1, <1>2

\* A statement has its blocks at places that only its operation decides.
LEMMA SameBlocks ==
  ASSUME NEW o, NEW e, o.op = e.op
  PROVE  DOMAIN Blocks(o) = DOMAIN Blocks(e)
BY DEF Blocks

\* Being the same code composes: a pass that runs twice keeps the code.
LEMMA SameCodeThrough ==
  ASSUME ShapesAsDefined, ComparedAsDefined
  PROVE  \A a, b, c : SomeStmts(a) /\ SomeStmts(b) /\ SomeStmts(c)
                        => (SameCode(a, b) /\ SameCode(b, c) => SameCode(a, c))
<1> DEFINE ThroughIt(a) == \A b, c : SomeStmts(b) /\ SomeStmts(c) /\ SameCode(a, b) /\ SameCode(b, c)
                                       => SameCode(a, c)
           T == {n \in Nat : \A a : IsStmts(n, a) => ThroughIt(a)}
<1>0. SUFFICES Nat \subseteq T
  <2> SUFFICES ASSUME NEW a, SomeStmts(a) PROVE ThroughIt(a)
    OBVIOUS
  <2> HIDE DEF ThroughIt
  <2> QED  BY <1>0 DEF SomeStmts
<1>1. ASSUME NEW n \in Nat, \A m \in Nat : m < n => m \in T
      PROVE  n \in T
  <2> SUFFICES ASSUME NEW a, IsStmts(n, a), NEW b, NEW c, SomeStmts(b), SomeStmts(c),
                      SameCode(a, b), SameCode(b, c)
               PROVE  SameCode(a, c)
    OBVIOUS
  <2>1. n - 1 \in Nat /\ n - 1 < n /\ IsSeq(a) /\ \A k \in DOMAIN a : IsStmt(n - 1, a[k])
    BY DEF ShapesAsDefined, Def_IsStmts
  <2>2. \A block : IsStmts(n - 1, block) => ThroughIt(block)
    BY <1>1, <2>1
  <2> HIDE DEF T
  <2>3. ASSUME NEW x, NEW y, NEW z, IsStmt(n - 1, x), AStmt(y), AStmt(z),
               SameStmt(x, y), SameStmt(y, z)
        PROVE  SameStmt(x, z)
    <3>1. AStmt(x)
      BY <2>1, <2>3 DEF AStmt
    <3>2. MatchesAll(Exprs(x), Exprs(z)) /\ MatchesCode(StmtCode(x), StmtCode(z))
      BY <2>3, <3>1, StmtIs, PartsMatchThrough DEF SameStmt
    <3>3. ASSUME NEW k \in DOMAIN Blocks(x) PROVE SameCode(Blocks(x)[k], Blocks(z)[k])
      <4>1. DOMAIN Blocks(x) = DOMAIN Blocks(y) /\ DOMAIN Blocks(y) = DOMAIN Blocks(z)
        BY <2>3, SameBlocks DEF SameStmt
      <4>2. SomeStmts(Blocks(y)[k]) /\ SomeStmts(Blocks(z)[k]) /\ IsStmts(n - 1, Blocks(x)[k])
        BY <2>3, <3>3, <4>1, StmtIs DEF IsStmt
      <4>3. SameCode(Blocks(x)[k], Blocks(y)[k]) /\ SameCode(Blocks(y)[k], Blocks(z)[k])
        BY <2>3, <3>3, <4>1 DEF SameStmt
      <4> QED  BY <2>2, <4>2, <4>3
    <3> QED  BY <2>3, <3>2, <3>3 DEF SameStmt
  <2>4. /\ DOMAIN a = DOMAIN b /\ DOMAIN b = DOMAIN c /\ Len(a) = Len(c)
        /\ \A k \in DOMAIN b : AStmt(b[k]) /\ AStmt(c[k])
    <3>1. IsSeq(b) /\ IsSeq(c) /\ (\A k \in DOMAIN b : AStmt(b[k])) /\ \A k \in DOMAIN c : AStmt(c[k])
      BY StmtsAre
    <3>2. Len(a) = Len(b) /\ Len(b) = Len(c)
      BY SameCodeIs
    <3>3. DOMAIN a = DOMAIN b /\ DOMAIN b = DOMAIN c
      BY <2>1, <3>1, <3>2, SeqHas
    <3> QED  BY <3>1, <3>2, <3>3
  <2>5. \A k \in DOMAIN a : SameStmt(a[k], b[k]) /\ SameStmt(b[k], c[k])
    BY <2>4, SameCodeIs
  <2> QED  BY <2>1, <2>3, <2>4, <2>5, SameCodeIs
<1> HIDE DEF T
<1> QED  BY <1>1, EveryNumberAtOnce
-----------------------------------------------------------------------------
\* What is left of a program when assignments and conditionals are lifted out of
\* its expressions, as it is defined
LiftedAsDefined ==
  /\ \A e : AnExpr(e) => Uncast(e) = Def_Uncast(e)
  /\ \A s : AStmt(s) => Lifted(s) = Def_Lifted(s)
  /\ \A stmts : SomeStmts(stmts) => LiftedAll(stmts) = Def_LiftedAll(stmts)

\* Under its casts an expression is an expression that is no cast.
LEMMA UncastHas ==
  ASSUME ShapesAsDefined, LiftedAsDefined
  PROVE  /\ \A m \in Nat : \A e : IsExpr(m, e) => IsExpr(m, Uncast(e)) /\ Uncast(e).op # "cast"
         /\ \A e : AnExpr(e) => Uncast(e) = IF e.op = "cast" THEN Uncast(e.kids[1]) ELSE e
<1>1. \A e : AnExpr(e) => Uncast(e) = IF e.op = "cast" THEN Uncast(e.kids[1]) ELSE e
  BY DEF LiftedAsDefined, Def_Uncast
<1> DEFINE Holds(m) == \A e : IsExpr(m, e) => IsExpr(m, Uncast(e)) /\ Uncast(e).op # "cast"
           T == {m \in Nat : Holds(m)}
<1>2. ASSUME NEW m \in Nat, \A l \in Nat : l < m => l \in T
      PROVE  m \in T
  <2> SUFFICES ASSUME NEW e, IsExpr(m, e) PROVE IsExpr(m, Uncast(e)) /\ Uncast(e).op # "cast"
    OBVIOUS
  <2>1. m - 1 \in Nat /\ m - 1 < m /\ HasShape(e) /\ \A k \in DOMAIN e.kids : IsExpr(m - 1, e.kids[k])
    BY DEF ShapesAsDefined, Def_IsExpr
  <2>2. Uncast(e) = IF e.op = "cast" THEN Uncast(e.kids[1]) ELSE e
    BY <1>1 DEF AnExpr
  <2>3. CASE e.op = "cast"
    <3>1. 1 \in DOMAIN e.kids
      BY <2>1, <2>3, ShapeHas DEF Unary
    <3>2. IsExpr(m - 1, Uncast(e.kids[1])) /\ Uncast(e.kids[1]).op # "cast"
      BY <1>2, <2>1, <3>1
    <3>3. IsExpr(m, Uncast(e.kids[1]))
      BY <2>1, <3>2, DeeperExpr
    <3> QED  BY <2>2, <2>3, <3>2, <3>3
  <2> QED  BY <2>2, <2>3
<1> HIDE DEF T
<1>3. Nat \subseteq T
  BY <1>2, EveryNumberAtOnce
<1>4. \A m \in Nat : Holds(m)
  BY <1>3 DEF T
<1> QED  BY <1>1, <1>4

\* What match, match under their casts.
LEMMA UncastMatches ==
  ASSUME ShapesAsDefined, ComparedAsDefined, LiftedAsDefined
  PROVE  \A a, b : AnExpr(a) /\ AnExpr(b) => (Matches(a, b) => Matches(Uncast(a), Uncast(b)))
<1> DEFINE Stays(a, b) == Matches(a, b) => Matches(Uncast(a), Uncast(b))
           Within(p, q) == \A a, b : IsExpr(p, a) /\ IsExpr(q, b) => Stays(a, b)
           T == {s \in Nat : \A p, q \in Nat : p + q = s => Within(p, q)}
<1>0. SUFFICES Nat \subseteq T
  <2> SUFFICES ASSUME NEW a, NEW b, AnExpr(a), AnExpr(b) PROVE Stays(a, b)
    OBVIOUS
  <2> HIDE DEF Stays, T
  <2>1. PICK p \in Nat, q \in Nat : IsExpr(p, a) /\ IsExpr(q, b)
    BY DEF AnExpr
  <2>2. p + q \in T
    BY <1>0
  <2> QED  BY <2>1, <2>2 DEF T
<1>1. ASSUME NEW s \in Nat, \A m \in Nat : m < s => m \in T
      PROVE  s \in T
  <2> SUFFICES ASSUME NEW p \in Nat, NEW q \in Nat, p + q = s, NEW a, NEW b, IsExpr(p, a),
                      IsExpr(q, b), Matches(a, b)
               PROVE  Matches(Uncast(a), Uncast(b))
    OBVIOUS
  <2>1. ASSUME NEW m \in Nat, NEW n \in Nat, m + n < s, NEW x, NEW y, IsExpr(m, x), IsExpr(n, y),
               Matches(x, y)
        PROVE  Matches(Uncast(x), Uncast(y))
    <3> HIDE DEF T
    <3>1. m + n \in T
      BY <1>1, <2>1
    <3> QED  BY <2>1, <3>1 DEF T
  <2> HIDE DEF T
  <2>2. /\ p - 1 \in Nat /\ HasShape(a) /\ \A k \in DOMAIN a.kids : IsExpr(p - 1, a.kids[k])
        /\ q - 1 \in Nat /\ HasShape(b) /\ \A k \in DOMAIN b.kids : IsExpr(q - 1, b.kids[k])
    BY DEF ShapesAsDefined, Def_IsExpr
  <2>3. /\ Uncast(a) = IF a.op = "cast" THEN Uncast(a.kids[1]) ELSE a
        /\ Uncast(b) = IF b.op = "cast" THEN Uncast(b.kids[1]) ELSE b
    BY UncastHas DEF AnExpr
  <2>4. /\ a.op = "cast" => IsExpr(p - 1, a.kids[1]) /\ 1 \in DOMAIN a.kids
        /\ b.op = "cast" => IsExpr(q - 1, b.kids[1])
    BY <2>2, ShapeHas DEF Unary
  <2>5. CASE b.op = "cast" /\ Matches(a, b.kids[1])
    <3>1. Matches(Uncast(a), Uncast(b.kids[1]))
      BY <2>1, <2>2, <2>4, <2>5
    <3> QED  BY <2>3, <2>5, <3>1
  <2>6. CASE IsSameAs(a, b)
    <3>1. CASE a.op = "cast"
      <4>1. b.op = "cast" /\ Matches(a.kids[1], b.kids[1])
        BY <2>4, <2>6, <3>1 DEF IsSameAs
      <4>2. Matches(Uncast(a.kids[1]), Uncast(b.kids[1]))
        BY <2>1, <2>2, <2>4, <3>1, <4>1
      <4> QED  BY <2>3, <3>1, <4>1, <4>2
    <3>2. CASE a.op # "cast"
      BY <2>3, <2>6, <3>2 DEF IsSameAs
    <3> QED  BY <3>1, <3>2
  <2>7. CASE IsAttributeOf(a, b)
    BY <2>3, <2>7 DEF IsAttributeOf
  <2> QED  BY <2>5, <2>6, <2>7, MatchesIs
<1> HIDE DEF T
<1> QED  BY <1>1, EveryNumberAtOnce
-----------------------------------------------------------------------------
\* Statements made of expressions and blocks
LEMMA ExprsAre ==
  /\ \A x : AnExpr(x) => SomeExprs(<<x>>)
  /\ \A x, y : AnExpr(x) /\ AnExpr(y) => SomeExprs(<<x, y>>)
  /\ SomeExprs(<<>>) /\ SomeCode(<<>>)
<1>1. \A x : AnExpr(x) => SomeExprs(<<x>>)
  BY OneIsSeq DEF SomeExprs
<1>2. ASSUME NEW x, NEW y, AnExpr(x), AnExpr(y) PROVE SomeExprs(<<x, y>>)
  <2> QED  BY <1>2, TwoIsSeq DEF SomeExprs
<1>3. SomeExprs(<<>>) /\ SomeCode(<<>>)
  BY EmptyIsSeq DEF SomeExprs, SomeCode
<1> QED  BY <1>1, <1>2, <1>3

\* Two single statements joined.
LEMMA Joined ==
  ASSUME NEW x, NEW y
  PROVE  <<x>> \o <<y>> = <<x, y>> /\ <<y>> # <<>>
<1>1. IsSeq(<<x>>) /\ IsSeq(<<y>>) /\ Len(<<x>>) = 1 /\ Len(<<y>>) = 1 /\ <<x>>[1] = x /\ <<y>>[1] = y
  BY OneIsSeq
<1>2. IsSeq(<<x, y>>) /\ Len(<<x, y>>) = 2 /\ <<x, y>>[1] = x /\ <<x, y>>[2] = y
  BY TwoIsSeq
<1> DEFINE s == <<x>> \o <<y>>
<1>3. IsSeq(s) /\ Len(s) = 2 /\ s[1] = x /\ s[1 + 1] = y
  BY <1>1, ConcatHas
<1> HIDE DEF s
<1>4. s = <<x, y>>
  BY <1>2, <1>3, SameSeq
<1> QED  BY <1>1, <1>4, EmptyIsSeq DEF s

\* A sequence of at most one element is empty or that element.
LEMMA OnlyOne ==
  ASSUME NEW s, IsSeq(s), Len(s) <= 1, s # <<>>
  PROVE  s = <<s[1]>>
<1> DEFINE n == Len(s)
           t == <<s[1]>>
<1>1. n \in Nat /\ n # 0 /\ n <= 1
  BY EmptyOnly, SeqHas
<1>2. IsSeq(t) /\ Len(t) = 1 /\ t[1] = s[1]
  BY OneIsSeq
<1> HIDE DEF n, t
<1>3. n = 1
  BY <1>1
<1>4. Len(s) = Len(t) /\ \A k \in 1 .. Len(s) : s[k] = t[k]
  BY <1>2, <1>3 DEF n
<1>5. s = t
  BY <1>2, <1>4, SameSeq
<1> QED  BY <1>5 DEF t

\* The assignment lifted out of a value is a statement with that value.
LEMMA AssignIs ==
  ASSUME ShapesAsDefined, NEW x, NEW e, AnExpr(x), AnExpr(e)
  PROVE  LET s == Assign(x, e)
         IN AStmt(s) /\ HasValue(s) /\ Value(s) = e /\ s.op = "assign"
<1> DEFINE s == Assign(x, e)
<1>1. s.op = "assign" /\ s.target = x /\ s.value = <<e>> /\ Value(s) = e /\ s = Assign(s.target, Value(s))
  BY OneIsSeq DEF Assign, Value
<1>2. Exprs(s) = <<x>> \o <<e>> /\ StmtCode(s) = <<>> /\ Blocks(s) = <<>>
  BY <1>1 DEF Exprs, StmtCode, Blocks
<1>3. <<x>> \o <<e>> = <<x, e>> /\ <<e>> # <<>>
  BY Joined
<1>4. StmtShape(s)
  BY <1>1 DEF StmtShape
<1> HIDE DEF s
<1>5. AStmt(s)
  BY <1>2, <1>3, <1>4, ExprsAre, EmptyIsSeq, StmtIs
<1>6. HasValue(s)
  BY <1>1, <1>3 DEF HasValue
<1> QED  BY <1>1, <1>5, <1>6 DEF s

\* The if that a conditional value becomes is a statement.
LEMMA IfIs ==
  ASSUME ShapesAsDefined, NEW c, NEW yes, NEW no, AnExpr(c), SomeStmts(yes), SomeStmts(no)
  PROVE  AStmt(If(c, yes, no)) /\ ~HasValue(If(c, yes, no))
<1> DEFINE s == If(c, yes, no)
<1>1. s.op = "if" /\ s.cond = c /\ s.yes = yes /\ s.no = no /\ s = If(s.cond, s.yes, s.no)
  BY DEF If
<1> HIDE DEF s
<1>2. Exprs(s) = <<c>> /\ StmtCode(s) = <<>> /\ Blocks(s) = <<yes, no>>
  BY <1>1 DEF Exprs, StmtCode, Blocks
<1>3. StmtShape(s)
  BY <1>1 DEF StmtShape
<1>4. \A b \in DOMAIN Blocks(s) : SomeStmts(Blocks(s)[b])
  <2> QED  BY <1>2, TwoIsSeq
<1>5. AStmt(s)
  BY <1>2, <1>3, <1>4, ExprsAre, StmtIs
<1> QED  BY <1>1, <1>5 DEF s, HasValue

\* The value of a call, an assignment or a return, and that it has no blocks.
LEMMA ValueIs ==
  ASSUME ShapesAsDefined, NEW s, AStmt(s), HasValue(s)
  PROVE  /\ AnExpr(Value(s)) /\ s.value = <<Value(s)>>
         /\ Blocks(s) = <<>> /\ StmtCode(s) = <<>> /\ StmtName(s) = ""
         /\ s.op \in {"call", "return"} => Exprs(s) = <<Value(s)>>
         /\ s.op = "assign" => AnExpr(s.target) /\ Exprs(s) = <<s.target, Value(s)>>
<1>1. StmtShape(s) /\ SomeExprs(Exprs(s))
  BY StmtIs
<1>2. Blocks(s) = <<>> /\ StmtCode(s) = <<>> /\ StmtName(s) = ""
  BY DEF HasValue, Blocks, StmtCode, StmtName
<1>3. s.value = <<Value(s)>>
  <2>1. CASE s.op = "call"
    BY <1>1, <2>1 DEF StmtShape, Call
  <2>2. CASE s.op = "assign"
    BY <1>1, <2>2 DEF StmtShape, Assign
  <2>3. CASE s.op = "return"
    <3>1. IsSeq(s.value) /\ Len(s.value) <= 1 /\ s.value # <<>>
      BY <1>1, <2>3 DEF StmtShape, HasValue
    <3>2. s.value = <<s.value[1]>>
      BY <3>1, OnlyOne
    <3> QED  BY <3>2 DEF Value
  <2> QED  BY <2>1, <2>2, <2>3 DEF HasValue
<1>4. CASE s.op \in {"call", "return"}
  <2>1. Exprs(s) = <<Value(s)>>
    BY <1>3, <1>4 DEF Exprs
  <2>2. 1 \in DOMAIN Exprs(s) /\ Exprs(s)[1] = Value(s)
    BY <2>1, OneIsSeq
  <2>3. AnExpr(Value(s))
    BY <1>1, <2>2 DEF SomeExprs
  <2> QED  BY <1>2, <1>3, <1>4, <2>1, <2>3
<1>5. CASE s.op = "assign"
  <2>1. Exprs(s) = <<s.target>> \o <<Value(s)>>
    BY <1>3, <1>5 DEF Exprs
  <2>2. <<s.target>> \o <<Value(s)>> = <<s.target, Value(s)>>
    BY Joined
  <2>3. <<s.target, Value(s)>>[1] = s.target /\ <<s.target, Value(s)>>[2] = Value(s)
    BY TwoIsSeq
  <2>4. AnExpr(s.target) /\ AnExpr(Value(s))
    BY <1>1, <2>1, <2>2, <2>3, TwoIsSeq DEF SomeExprs
  <2> QED  BY <1>2, <1>3, <1>5, <2>1, <2>2, <2>4
<1> QED  BY <1>4, <1>5 DEF HasValue

\* A statement with another value is the same statement otherwise.
LEMMA WithValueIs ==
  ASSUME ShapesAsDefined, NEW s, AStmt(s), HasValue(s), NEW e, AnExpr(e)
  PROVE  LET w == WithValue(s, e)
         IN /\ AStmt(w) /\ HasValue(w) /\ Value(w) = e /\ w.op = s.op
            /\ s.op = "assign" => w.target = s.target
<1> DEFINE w == WithValue(s, e)
<1>1. StmtShape(s)
  BY StmtIs
<1>2. CASE s.op = "call"
  <2>1. w = Call(e)
    BY <1>1, <1>2 DEF StmtShape, Call, WithValue
  <2>2. w.op = "call" /\ w.value = <<e>> /\ Value(w) = e
    BY <2>1, OneIsSeq DEF Call, Value
  <2> HIDE DEF w
  <2>3. StmtShape(w) /\ Exprs(w) = <<e>> /\ StmtCode(w) = <<>> /\ Blocks(w) = <<>>
    BY <2>1, <2>2 DEF StmtShape, Exprs, StmtCode, Blocks
  <2>4. AStmt(w)
    BY <2>3, ExprsAre, EmptyIsSeq, StmtIs
  <2> QED  BY <1>2, <2>2, <2>4 DEF HasValue, w
<1>3. CASE s.op = "return"
  <2>1. w = Return(<<e>>)
    BY <1>1, <1>3 DEF StmtShape, Return, WithValue
  <2>2. w.op = "return" /\ w.value = <<e>> /\ Value(w) = e
    BY <2>1, OneIsSeq DEF Return, Value
  <2> HIDE DEF w
  <2>3. StmtShape(w) /\ Exprs(w) = <<e>> /\ StmtCode(w) = <<>> /\ Blocks(w) = <<>>
    <3>1. Exprs(w) = <<e>> /\ StmtCode(w) = <<>> /\ Blocks(w) = <<>>
      BY <2>2 DEF Exprs, StmtCode, Blocks
    <3>2. IsSeq(w.value) /\ Len(w.value) <= 1
      BY <2>2, OneIsSeq
    <3>3. StmtShape(w)
      BY <2>1, <2>2, <3>2 DEF StmtShape
    <3> QED  BY <3>1, <3>3
  <2>4. AStmt(w)
    BY <2>3, ExprsAre, EmptyIsSeq, StmtIs
  <2> QED  BY <1>3, <2>2, <2>4 DEF HasValue, w
<1>4. CASE s.op = "assign"
  <2>1. w = Assign(s.target, e)
    BY <1>1, <1>4 DEF StmtShape, Assign, WithValue
  <2>2. AnExpr(s.target)
    BY <1>4, ValueIs
  <2>3. w.target = s.target
    BY <2>1 DEF Assign
  <2> HIDE DEF w
  <2> QED  BY <1>4, <2>1, <2>2, <2>3, AssignIs DEF w
<1> QED  BY <1>2, <1>3, <1>4 DEF HasValue
-----------------------------------------------------------------------------
\* Single statements, no statements and blocks joined are blocks.
LEMMA StmtsJoined ==
  ASSUME ShapesAsDefined
  PROVE  /\ \A s : AStmt(s) => SomeStmts(<<s>>)
         /\ SomeStmts(<<>>)
         /\ \A a, b : SomeStmts(a) /\ SomeStmts(b) => SomeStmts(a \o b)
<1>1. \A s : AStmt(s) => SomeStmts(<<s>>)
  BY OneIsSeq, StmtsAre
<1>2. SomeStmts(<<>>)
  BY EmptyIsSeq, StmtsAre
<1>3. ASSUME NEW a, NEW b, SomeStmts(a), SomeStmts(b) PROVE SomeStmts(a \o b)
  <2>1. /\ IsSeq(a) /\ IsSeq(b) /\ Len(a) \in Nat /\ Len(b) \in Nat
        /\ \A k \in 1 .. Len(a) : AStmt(a[k])
        /\ \A k \in 1 .. Len(b) : AStmt(b[k])
    BY <1>3, StmtsAre, SeqHas
  <2> DEFINE c == a \o b
  <2>2. /\ IsSeq(c) /\ Len(c) = Len(a) + Len(b)
        /\ \A k \in 1 .. Len(a) : c[k] = a[k]
        /\ \A k \in 1 .. Len(b) : c[Len(a) + k] = b[k]
    BY <2>1, ConcatHas
  <2>3. DOMAIN c = 1 .. Len(a) + Len(b)
    BY <2>2, SeqHas
  <2> HIDE DEF c
  <2>4. ASSUME NEW k \in 1 .. Len(a) + Len(b) PROVE AStmt(c[k])
    <3>1. k \in 1 .. Len(a) \/ (k - Len(a) \in 1 .. Len(b) /\ Len(a) + (k - Len(a)) = k)
      BY <2>1
    <3> QED  BY <2>1, <2>2, <3>1
  <2>5. SomeStmts(c)
    BY <2>2, <2>3, <2>4, StmtsAre
  <2> QED  BY <2>5 DEF c
<1> QED  BY <1>1, <1>2, <1>3

\* Statements that are the same make blocks that are.
LEMMA OneSame ==
  ASSUME ComparedAsDefined, NEW s, NEW t, SameStmt(s, t)
  PROVE  SameCode(<<s>>, <<t>>)
BY OneIsSeq, SameCodeIs

\* Two statements that carry a value are the same when their values (and targets) match.
LEMMA SameValue ==
  ASSUME ShapesAsDefined, NEW h, NEW v, AStmt(h), AStmt(v), HasValue(h), HasValue(v), h.op = v.op
  PROVE  SameStmt(h, v) <=> /\ Matches(Value(h), Value(v))
                            /\ h.op = "assign" => Matches(h.target, v.target)
<1>1. /\ Blocks(h) = <<>> /\ StmtCode(h) = <<>> /\ StmtName(h) = ""
      /\ Blocks(v) = <<>> /\ StmtCode(v) = <<>> /\ StmtName(v) = ""
  BY ValueIs
<1>2. MatchesCode(<<>>, <<>>)
  BY EmptyIsSeq DEF MatchesCode
<1>3. SameStmt(h, v) <=> MatchesAll(Exprs(h), Exprs(v))
  BY <1>1, <1>2, EmptyIsSeq DEF SameStmt
<1>4. CASE h.op = "assign"
  <2>1. Exprs(h) = <<h.target, Value(h)>> /\ Exprs(v) = <<v.target, Value(v)>>
    BY <1>4, ValueIs
  <2>2. MatchesAll(<<h.target, Value(h)>>, <<v.target, Value(v)>>)
          <=> Matches(h.target, v.target) /\ Matches(Value(h), Value(v))
    BY TwoIsSeq DEF MatchesAll
  <2> QED  BY <1>3, <1>4, <2>1, <2>2
<1>5. CASE h.op # "assign"
  <2>1. Exprs(h) = <<Value(h)>> /\ Exprs(v) = <<Value(v)>>
    BY <1>5, ValueIs DEF HasValue
  <2>2. MatchesAll(<<Value(h)>>, <<Value(v)>>) <=> Matches(Value(h), Value(v))
    BY OneIsSeq DEF MatchesAll
  <2> QED  BY <1>3, <1>5, <2>1, <2>2
<1> QED  BY <1>4, <1>5

\* What the reference makes of a statement whose value is an assignment, a conditional or
\* neither.
LEMMA LiftedValue ==
  ASSUME LiftedAsDefined, NEW s, AStmt(s), HasValue(s)
  PROVE  LET value == Uncast(Value(s))
             k == value.kids
         IN /\ value.op = "assign" =>
                 Lifted(s) = Lifted(Assign(k[1], k[2])) \o Lifted(WithValue(s, k[1]))
            /\ value.op = "cond" =>
                 Lifted(s)
                   = <<If(k[1], Lifted(WithValue(s, k[2])), Lifted(WithValue(s, k[3])))>>
            /\ value.op \notin {"assign", "cond"} => Lifted(s) = <<s>>
<1>1. Lifted(s) = Def_Lifted(s) /\ s.op \notin {"if", "while", "goto_block"}
  BY DEF LiftedAsDefined, HasValue
<1> DEFINE value == Uncast(Value(s))
<1>2. CASE value.op = "assign"
  BY <1>1, <1>2 DEF Def_Lifted, WithValue
<1>3. CASE value.op = "cond"
  BY <1>1, <1>3 DEF Def_Lifted, WithValue
<1>4. CASE value.op \notin {"assign", "cond"}
  BY <1>1, <1>4 DEF Def_Lifted
<1> QED  BY <1>2, <1>3, <1>4

\* Another statement keeps its parts, but its blocks, in which values are lifted.
Relifted(s, t) ==
  /\ StmtShape(t) /\ t.op = s.op /\ StmtName(t) = StmtName(s)
  /\ Exprs(t) = Exprs(s) /\ StmtCode(t) = StmtCode(s)
  /\ \A b \in DOMAIN Blocks(s) : Blocks(t)[b] = LiftedAll(Blocks(s)[b])

\* What the reference makes of a statement without a value: its blocks are lifted.
LEMMA LiftedOther ==
  ASSUME ShapesAsDefined, LiftedAsDefined, NEW s, AStmt(s), ~HasValue(s)
  PROVE  \E t : Lifted(s) = <<t>> /\ Relifted(s, t)
<1>1. Lifted(s) = Def_Lifted(s) /\ StmtShape(s)
  BY StmtIs DEF LiftedAsDefined
<1>2. CASE s.op = "if"
  <2> DEFINE t == If(s.cond, LiftedAll(s.yes), LiftedAll(s.no))
  <2>1. Lifted(s) = <<t>>
    BY <1>1, <1>2 DEF Def_Lifted
  <2>2. /\ t.op = "if" /\ t.cond = s.cond /\ t.yes = LiftedAll(s.yes) /\ t.no = LiftedAll(s.no)
        /\ t = If(t.cond, t.yes, t.no)
    BY DEF If
  <2> HIDE DEF t
  <2>3. Blocks(s) = <<s.yes, s.no>> /\ Blocks(t) = <<LiftedAll(s.yes), LiftedAll(s.no)>>
    BY <1>2, <2>2 DEF Blocks
  <2>4. \A b \in DOMAIN Blocks(s) : Blocks(t)[b] = LiftedAll(Blocks(s)[b])
    BY <2>3, TwoIsSeq
  <2>5. Relifted(s, t)
    BY <1>2, <2>2, <2>4 DEF Relifted, StmtShape, StmtName, Exprs, StmtCode
  <2> QED  BY <2>1, <2>5
<1>3. CASE s.op \in {"while", "goto_block"}
  <2> DEFINE t == [s EXCEPT !.body = LiftedAll(@)]
  <2>1. Lifted(s) = <<t>>
    BY <1>1, <1>3 DEF Def_Lifted
  <2>2. t.op = s.op /\ t.body = LiftedAll(s.body) /\ StmtShape(t) /\ StmtName(t) = StmtName(s)
          /\ Exprs(t) = Exprs(s)
    <3>1. CASE s.op = "while"
      <4>1. s = While(s.cond, s.inv, s.requires, s.ensures, s.body)
              /\ IsSeq(s.inv) /\ IsSeq(s.requires) /\ IsSeq(s.ensures)
        BY <1>1, <3>1 DEF StmtShape
      <4>2. /\ t.op = "while" /\ t.body = LiftedAll(s.body) /\ t.cond = s.cond /\ t.inv = s.inv
            /\ t.requires = s.requires /\ t.ensures = s.ensures
            /\ t = While(t.cond, t.inv, t.requires, t.ensures, t.body)
        BY <3>1, <4>1 DEF While
      <4> HIDE DEF t
      <4> QED  BY <3>1, <4>1, <4>2 DEF StmtShape, StmtName, Exprs
    <3>2. CASE s.op = "goto_block"
      <4>1. s = GotoBlock(s.label, s.body, s.ensures) /\ IsSeq(s.ensures)
        BY <1>1, <3>2 DEF StmtShape
      <4>2. /\ t.op = "goto_block" /\ t.body = LiftedAll(s.body) /\ t.label = s.label
            /\ t.ensures = s.ensures /\ t = GotoBlock(t.label, t.body, t.ensures)
        BY <3>2, <4>1 DEF GotoBlock
      <4> HIDE DEF t
      <4> QED  BY <3>2, <4>1, <4>2 DEF StmtShape, StmtName, Exprs
    <3> QED  BY <1>3, <3>1, <3>2
  <2> HIDE DEF t
  <2>3. Blocks(s) = <<s.body>> /\ Blocks(t) = <<LiftedAll(s.body)>>
    BY <1>3, <2>2 DEF Blocks
  <2>4. \A b \in DOMAIN Blocks(s) : Blocks(t)[b] = LiftedAll(Blocks(s)[b])
    BY <2>3, OneIsSeq
  <2>5. Relifted(s, t)
    BY <1>3, <2>2, <2>4 DEF Relifted, StmtCode
  <2> QED  BY <2>1, <2>5
<1>4. CASE s.op \notin {"if", "while", "goto_block"}
  <2>1. Lifted(s) = <<s>>
    BY <1>1, <1>4 DEF Def_Lifted
  <2>2. Blocks(s) = <<>>
    BY <1>4 DEF Blocks
  <2> QED  BY <1>1, <2>1, <2>2, EmptyIsSeq DEF Relifted
<1> QED  BY <1>2, <1>3, <1>4

\* Lifting gives statements again.
LEMMA LiftedValueHas ==
  ASSUME ShapesAsDefined, LiftedAsDefined
  PROVE  \A s : AStmt(s) /\ HasValue(s) => SomeStmts(Lifted(s))
<1> DEFINE T == {m \in Nat : \A s : AStmt(s) /\ HasValue(s) /\ IsExpr(m, Value(s))
                                      => SomeStmts(Lifted(s))}
<1>0. SUFFICES Nat \subseteq T
  BY ValueIs DEF AnExpr
<1>1. ASSUME NEW m \in Nat, \A l \in Nat : l < m => l \in T
      PROVE  m \in T
  <2> SUFFICES ASSUME NEW s, AStmt(s), HasValue(s), IsExpr(m, Value(s))
               PROVE  SomeStmts(Lifted(s))
    OBVIOUS
  <2> DEFINE value == Uncast(Value(s))
             k == value.kids
  <2>1. IsExpr(m, value)
    BY UncastHas
  <2>2. /\ m - 1 \in Nat /\ m - 1 < m /\ HasShape(value)
        /\ \A j \in DOMAIN k : IsExpr(m - 1, k[j])
    BY <2>1 DEF ShapesAsDefined, Def_IsExpr
  <2>3. DOMAIN k = 1 .. Len(k) /\ (value.op = "assign" => Len(k) = 2) /\ (value.op = "cond" => Len(k) = 3)
    BY <2>2, ShapeHas DEF Binary
  <2> HIDE DEF value, k
  <2>4. ASSUME NEW t, AStmt(t), HasValue(t), IsExpr(m - 1, Value(t)) PROVE SomeStmts(Lifted(t))
    BY <1>1, <2>2, <2>4
  <2> HIDE DEF T
  <2>5. ASSUME NEW e, IsExpr(m - 1, e) PROVE SomeStmts(Lifted(WithValue(s, e)))
    <3>1. AnExpr(e)
      BY <2>2, <2>5 DEF AnExpr
    <3>2. LET w == WithValue(s, e) IN AStmt(w) /\ HasValue(w) /\ Value(w) = e
      BY <3>1, WithValueIs
    <3> QED  BY <2>4, <2>5, <3>2
  <2>6. CASE value.op = "assign"
    <3>1. IsExpr(m - 1, k[1]) /\ IsExpr(m - 1, k[2])
      BY <2>2, <2>3, <2>6
    <3>2. AnExpr(k[1]) /\ AnExpr(k[2])
      BY <2>2, <3>1 DEF AnExpr
    <3>3. SomeStmts(Lifted(Assign(k[1], k[2])))
      BY <2>4, <3>1, <3>2, AssignIs
    <3>4. Lifted(s) = Lifted(Assign(k[1], k[2])) \o Lifted(WithValue(s, k[1]))
      BY <2>6, LiftedValue DEF value, k
    <3> QED  BY <2>5, <3>1, <3>3, <3>4, StmtsJoined
  <2>7. CASE value.op = "cond"
    <3>1. IsExpr(m - 1, k[1]) /\ IsExpr(m - 1, k[2]) /\ IsExpr(m - 1, k[3])
      BY <2>2, <2>3, <2>7
    <3>2. AnExpr(k[1])
      BY <2>2, <3>1 DEF AnExpr
    <3>3. Lifted(s) = <<If(k[1], Lifted(WithValue(s, k[2])), Lifted(WithValue(s, k[3])))>>
      BY <2>7, LiftedValue DEF value, k
    <3> QED  BY <2>5, <3>1, <3>2, <3>3, IfIs, StmtsJoined
  <2>8. CASE value.op \notin {"assign", "cond"}
    <3>1. Lifted(s) = <<s>>
      BY <2>8, LiftedValue DEF value
    <3> QED  BY <3>1, StmtsJoined
  <2> QED  BY <2>6, <2>7, <2>8
<1> HIDE DEF T
<1> QED  BY <1>1, EveryNumberAtOnce

\* The first element of a sequence and the others.
LEMMA ConsIs ==
  ASSUME NEW x, NEW t, IsSeq(t)
  PROVE  <<x>> \o t # <<>> /\ Head(<<x>> \o t) = x /\ Tail(<<x>> \o t) = t
<1> DEFINE s == <<x>> \o t
<1>1. IsSeq(s) /\ Len(s) = Len(t) + 1 /\ s[1] = x /\ \A k \in 1 .. Len(t) : s[k + 1] = t[k]
  BY Before1
<1>2. Len(t) \in Nat
  BY SeqHas
<1> HIDE DEF s
<1>3. s # <<>>
  BY <1>1, <1>2, EmptyOnly
<1>4. Head(s) = x /\ IsSeq(Tail(s)) /\ Len(Tail(s)) = Len(t)
        /\ \A k \in 1 .. Len(t) : Tail(s)[k] = t[k]
  BY <1>1, <1>2, <1>3, HeadTail
<1>5. Tail(s) = t
  BY <1>4, SameSeq
<1> QED  BY <1>3, <1>4, <1>5 DEF s

\* A block that is not empty is its first statement, one level less deep, and the others.
LEMMA SplitFirst ==
  ASSUME ShapesAsDefined, NEW stmts, SomeStmts(stmts), stmts # <<>>
  PROVE  /\ stmts = <<Head(stmts)>> \o Tail(stmts) /\ AStmt(Head(stmts)) /\ SomeStmts(Tail(stmts))
         /\ Len(stmts) \in Nat \ {0} /\ Len(Tail(stmts)) = Len(stmts) - 1
         /\ \A n \in Nat : IsStmts(n, stmts) =>
              /\ IsStmts(n, Tail(stmts)) /\ n - 1 \in Nat /\ n - 1 < n
              /\ IsStmt(n - 1, Head(stmts))
<1> DEFINE h == Head(stmts)
           t == Tail(stmts)
<1>1. IsSeq(stmts) /\ \A k \in DOMAIN stmts : AStmt(stmts[k])
  BY StmtsAre
<1>2. /\ Len(stmts) \in Nat \ {0} /\ 1 \in DOMAIN stmts /\ h = stmts[1]
      /\ IsSeq(t) /\ Len(t) = Len(stmts) - 1 /\ DOMAIN t = 1 .. Len(stmts) - 1
      /\ \A k \in 1 .. Len(stmts) - 1 : k + 1 \in DOMAIN stmts /\ t[k] = stmts[k + 1]
  BY <1>1, HeadTail
<1> HIDE DEF h, t
<1>3. SomeStmts(t) /\ AStmt(h)
  BY <1>1, <1>2, StmtsAre
<1>4. stmts = <<h>> \o t
  <2> DEFINE s == <<h>> \o t
  <2>1. IsSeq(s) /\ Len(s) = Len(stmts) /\ s[1] = h /\ \A k \in 1 .. Len(t) : s[k + 1] = t[k]
    BY <1>2, Before1
  <2> HIDE DEF s
  <2>2. ASSUME NEW k \in 1 .. Len(stmts) PROVE s[k] = stmts[k]
    <3>1. k = 1 \/ (k - 1 \in 1 .. Len(t) /\ (k - 1) + 1 = k)
      BY <1>2
    <3> QED  BY <1>2, <2>1, <3>1
  <2>3. s = stmts
    BY <1>1, <2>1, <2>2, SameSeq
  <2> QED  BY <2>3 DEF s
<1>5. ASSUME NEW n \in Nat, IsStmts(n, stmts)
      PROVE  IsStmts(n, t) /\ n - 1 \in Nat /\ n - 1 < n /\ IsStmt(n - 1, h)
  <2>1. n \in Nat \ {0} /\ \A k \in DOMAIN stmts : IsStmt(n - 1, stmts[k])
    BY <1>5 DEF ShapesAsDefined, Def_IsStmts
  <2>2. IsStmt(n - 1, h) /\ \A k \in DOMAIN t : IsStmt(n - 1, t[k])
    BY <1>2, <2>1
  <2> QED  BY <1>2, <2>1, <2>2 DEF ShapesAsDefined, Def_IsStmts
<1> QED  BY <1>2, <1>3, <1>4, <1>5 DEF h, t

\* The reference goes over a block statement by statement.
LEMMA LiftedAllIs ==
  ASSUME ShapesAsDefined, LiftedAsDefined
  PROVE  /\ LiftedAll(<<>>) = <<>>
         /\ \A s, t : AStmt(s) /\ SomeStmts(t) => LiftedAll(<<s>> \o t) = Lifted(s) \o LiftedAll(t)
<1>1. LiftedAll(<<>>) = <<>>
  BY StmtsJoined DEF LiftedAsDefined, Def_LiftedAll
<1>2. ASSUME NEW s, NEW t, AStmt(s), SomeStmts(t)
      PROVE  LiftedAll(<<s>> \o t) = Lifted(s) \o LiftedAll(t)
  <2> DEFINE all == <<s>> \o t
  <2>1. all # <<>> /\ Head(all) = s /\ Tail(all) = t
    BY <1>2, StmtsAre, ConsIs
  <2>2. SomeStmts(all)
    BY <1>2, StmtsJoined
  <2> HIDE DEF all
  <2>3. LiftedAll(all) = Lifted(s) \o LiftedAll(t)
    BY <2>1, <2>2 DEF LiftedAsDefined, Def_LiftedAll
  <2> QED  BY <2>3 DEF all
<1> QED  BY <1>1, <1>2

\* A statement whose blocks are lifted is a statement.
LEMMA ReliftedIs ==
  ASSUME ShapesAsDefined, NEW s, AStmt(s), NEW t, Relifted(s, t),
         \A b \in DOMAIN Blocks(s) : SomeStmts(LiftedAll(Blocks(s)[b]))
  PROVE  AStmt(t)
<1>1. SomeExprs(Exprs(s)) /\ SomeCode(StmtCode(s))
  BY StmtIs
<1>2. DOMAIN Blocks(t) = DOMAIN Blocks(s)
  BY SameBlocks DEF Relifted
<1> QED  BY <1>1, <1>2, StmtIs DEF Relifted

\* What the reference lifts is statements.
LEMMA LiftedHas ==
  ASSUME ShapesAsDefined, LiftedAsDefined
  PROVE  /\ \A stmts : SomeStmts(stmts) => SomeStmts(LiftedAll(stmts))
         /\ \A s : AStmt(s) => SomeStmts(Lifted(s))
<1> DEFINE Kept(n) == \A stmts : IsStmts(n, stmts) => SomeStmts(LiftedAll(stmts))
           T == {n \in Nat : Kept(n)}
<1>1. ASSUME NEW n, Kept(n), NEW s, IsStmt(n, s), AStmt(s) PROVE SomeStmts(Lifted(s))
  <2>1. CASE HasValue(s)
    BY <1>1, <2>1, LiftedValueHas
  <2>2. CASE ~HasValue(s)
    <3>1. PICK t : Lifted(s) = <<t>> /\ Relifted(s, t)
      BY <1>1, <2>2, LiftedOther
    <3>2. \A b \in DOMAIN Blocks(s) : SomeStmts(LiftedAll(Blocks(s)[b]))
      BY <1>1 DEF IsStmt
    <3>3. AStmt(t)
      BY <1>1, <3>1, <3>2, ReliftedIs
    <3> QED  BY <3>1, <3>3, StmtsJoined
  <2> QED  BY <2>1, <2>2
<1>2. ASSUME NEW n \in Nat, \A m \in Nat : m < n => m \in T
      PROVE  n \in T
  <2> DEFINE L == {l \in Nat : \A stmts : IsStmts(n, stmts) /\ Len(stmts) = l
                                            => SomeStmts(LiftedAll(stmts))}
  <2>1. ASSUME NEW l \in Nat, \A k \in Nat : k < l => k \in L PROVE l \in L
    <3> SUFFICES ASSUME NEW stmts, IsStmts(n, stmts), Len(stmts) = l
                 PROVE  SomeStmts(LiftedAll(stmts))
      OBVIOUS
    <3>1. SomeStmts(stmts)
      BY DEF SomeStmts
    <3>2. CASE stmts = <<>>
      BY <3>2, LiftedAllIs, StmtsJoined
    <3>3. CASE stmts # <<>>
      <4> DEFINE h == Head(stmts)
                 t == Tail(stmts)
      <4>1. /\ stmts = <<h>> \o t /\ AStmt(h) /\ SomeStmts(t) /\ Len(t) = l - 1 /\ l \in Nat \ {0}
            /\ IsStmts(n, t) /\ n - 1 \in Nat /\ n - 1 < n /\ IsStmt(n - 1, h)
        BY <3>1, <3>3, SplitFirst
      <4> HIDE DEF h, t
      <4>2. l - 1 \in Nat /\ l - 1 < l
        BY <4>1
      <4>3. SomeStmts(LiftedAll(t))
        BY <2>1, <4>1, <4>2
      <4>4. Kept(n - 1)
        BY <1>2, <4>1
      <4>5. SomeStmts(Lifted(h))
        <5> HIDE DEF Kept
        <5> QED  BY <1>1, <4>1, <4>4
      <4>6. LiftedAll(stmts) = Lifted(h) \o LiftedAll(t)
        BY <4>1, LiftedAllIs
      <4>7. SomeStmts(Lifted(h) \o LiftedAll(t))
        BY <4>3, <4>5, StmtsJoined
      <4> QED  BY <4>6, <4>7
    <3> QED  BY <3>2, <3>3
  <2> HIDE DEF L
  <2>2. Nat \subseteq L
    BY <2>1, EveryNumberAtOnce
  <2>3. ASSUME NEW stmts, IsStmts(n, stmts) PROVE SomeStmts(LiftedAll(stmts))
    <3>1. Len(stmts) \in Nat
      BY <2>3, StmtsAre, SeqHas DEF SomeStmts
    <3> QED  BY <2>2, <2>3, <3>1 DEF L
  <2> QED  BY <2>3
<1> HIDE DEF T
<1>3. Nat \subseteq T
  BY <1>2, EveryNumberAtOnce
<1>4. \A n \in Nat : Kept(n)
  BY <1>3 DEF T
<1>5. ASSUME NEW s, AStmt(s) PROVE SomeStmts(Lifted(s))
  <2>1. PICK n \in Nat : IsStmt(n, s)
    BY <1>5 DEF AStmt
  <2>2. Kept(n)
    BY <1>4
  <2> HIDE DEF Kept
  <2> QED  BY <1>1, <1>5, <2>1, <2>2
<1> QED  BY <1>4, <1>5 DEF SomeStmts
-----------------------------------------------------------------------------
\* A statement and its elaboration are the same, their blocks compared after lifting;
\* then what is lifted out of them is the same.
Rebuilds(h, v) ==
  /\ h.op = v.op /\ StmtName(h) = StmtName(v)
  /\ MatchesAll(Exprs(h), Exprs(v)) /\ MatchesCode(StmtCode(h), StmtCode(v))
  /\ \A b \in DOMAIN Blocks(h) : SameCode(LiftedAll(Blocks(h)[b]), LiftedAll(Blocks(v)[b]))

\* Statements whose values match are lifted to the same code.
LEMMA LiftedSameValue ==
  ASSUME ShapesAsDefined, ComparedAsDefined, LiftedAsDefined
  PROVE  \A h, v : AStmt(h) /\ AStmt(v) /\ HasValue(h) /\ HasValue(v)
                     => (SameStmt(h, v) => SameCode(Lifted(h), Lifted(v)))
<1> DEFINE Kept(m, h) == \A v : AStmt(v) /\ HasValue(v)
                                  => (SameStmt(h, v) => SameCode(Lifted(h), Lifted(v)))
           T == {m \in Nat : \A h : AStmt(h) /\ HasValue(h) /\ IsExpr(m, Value(h)) => Kept(m, h)}
<1>0. SUFFICES Nat \subseteq T
  <2> SUFFICES ASSUME NEW h, AStmt(h), HasValue(h) PROVE \A m : Kept(m, h)
    OBVIOUS
  <2>1. PICK m \in Nat : IsExpr(m, Value(h))
    BY ValueIs DEF AnExpr
  <2>2. m \in T
    BY <1>0
  <2> QED  BY <2>1, <2>2
<1>1. ASSUME NEW m \in Nat, \A l \in Nat : l < m => l \in T
      PROVE  m \in T
  <2> SUFFICES ASSUME NEW h, AStmt(h), HasValue(h), IsExpr(m, Value(h)),
                      NEW v, AStmt(v), HasValue(v), SameStmt(h, v)
               PROVE  SameCode(Lifted(h), Lifted(v))
    OBVIOUS
  <2>1. ASSUME NEW x, AStmt(x), HasValue(x), IsExpr(m - 1, Value(x)), m - 1 \in Nat,
               NEW y, AStmt(y), HasValue(y), SameStmt(x, y)
        PROVE  SameCode(Lifted(x), Lifted(y))
    <3> HIDE DEF T
    <3>1. m - 1 \in T
      BY <1>1, <2>1
    <3> QED  BY <2>1, <3>1 DEF T
  <2> HIDE DEF T
  <2> DEFINE a == Uncast(Value(h))
             b == Uncast(Value(v))
             j == a.kids
             k == b.kids
  <2>2. h.op = v.op /\ Matches(Value(h), Value(v)) /\ (h.op = "assign" => Matches(h.target, v.target))
    BY SameValue DEF SameStmt
  <2>3. Matches(a, b) /\ IsExpr(m, a) /\ AnExpr(b) /\ a.op # "cast" /\ b.op # "cast"
    BY <2>2, ValueIs, UncastMatches, UncastHas DEF AnExpr
  <2>4. /\ m - 1 \in Nat /\ HasShape(a) /\ \A n \in DOMAIN j : IsExpr(m - 1, j[n])
    BY <2>3 DEF ShapesAsDefined, Def_IsExpr
  <2>5. HasShape(b) /\ \A n \in DOMAIN k : AnExpr(k[n])
    BY <2>3, ExprHas DEF SomeExprs
  <2>6. /\ DOMAIN j = 1 .. Len(j) /\ (a.op = "assign" => Len(j) = 2) /\ (a.op = "cond" => Len(j) = 3)
        /\ DOMAIN k = 1 .. Len(k) /\ (b.op = "assign" => Len(k) = 2) /\ (b.op = "cond" => Len(k) = 3)
    BY <2>4, <2>5, ShapeHas DEF Binary
  <2>7. IsAttributeOf(a, b) \/ IsSameAs(a, b)
    BY <2>3, MatchesIs
  <2>8. /\ (a.op \in {"assign", "cond"} \/ b.op \in {"assign", "cond"}) => IsSameAs(a, b)
        /\ IsSameAs(a, b) => a.op = b.op /\ \A n \in DOMAIN j : Matches(j[n], k[n])
    BY <2>7 DEF IsSameAs, IsAttributeOf
  <2> HIDE DEF a, b, j, k
  <2>9. ASSUME NEW x, NEW y, IsExpr(m - 1, x), AnExpr(y), Matches(x, y)
        PROVE  SameCode(Lifted(WithValue(h, x)), Lifted(WithValue(v, y)))
    <3>1. AnExpr(x)
      BY <2>4, <2>9 DEF AnExpr
    <3> DEFINE s == WithValue(h, x)
               t == WithValue(v, y)
    <3>2. /\ AStmt(s) /\ HasValue(s) /\ Value(s) = x /\ s.op = h.op
          /\ s.op = "assign" => s.target = h.target
      BY <3>1, WithValueIs
    <3>3. /\ AStmt(t) /\ HasValue(t) /\ Value(t) = y /\ t.op = v.op
          /\ t.op = "assign" => t.target = v.target
      BY <2>9, WithValueIs
    <3> HIDE DEF s, t
    <3>4. SameStmt(s, t)
      BY <2>2, <2>9, <3>2, <3>3, SameValue
    <3>5. SameCode(Lifted(s), Lifted(t))
      BY <2>1, <2>4, <2>9, <3>2, <3>3, <3>4
    <3> QED  BY <3>5 DEF s, t
  <2>10. CASE a.op = "assign"
    <3>1. /\ b.op = "assign" /\ Matches(j[1], k[1]) /\ Matches(j[2], k[2])
          /\ IsExpr(m - 1, j[1]) /\ IsExpr(m - 1, j[2]) /\ AnExpr(k[1]) /\ AnExpr(k[2])
      BY <2>4, <2>5, <2>6, <2>8, <2>10
    <3>2. AnExpr(j[1]) /\ AnExpr(j[2])
      BY <2>4, <3>1 DEF AnExpr
    <3> DEFINE s == Assign(j[1], j[2])
               t == Assign(k[1], k[2])
    <3>3. /\ AStmt(s) /\ HasValue(s) /\ Value(s) = j[2] /\ s.op = "assign" /\ s.target = j[1]
          /\ AStmt(t) /\ HasValue(t) /\ Value(t) = k[2] /\ t.op = "assign" /\ t.target = k[1]
      <4>1. s.target = j[1] /\ t.target = k[1]
        BY DEF Assign
      <4> QED  BY <3>1, <3>2, <4>1, AssignIs
    <3>4. Lifted(h) = Lifted(s) \o Lifted(WithValue(h, j[1]))
      BY <2>10, LiftedValue DEF a, j
    <3>5. Lifted(v) = Lifted(t) \o Lifted(WithValue(v, k[1]))
      BY <3>1, LiftedValue DEF b, k
    <3> HIDE DEF s, t
    <3>6. SameStmt(s, t)
      BY <3>1, <3>3, SameValue
    <3>7. SameCode(Lifted(s), Lifted(t))
      BY <2>1, <2>4, <3>1, <3>3, <3>6
    <3>8. SameCode(Lifted(WithValue(h, j[1])), Lifted(WithValue(v, k[1])))
      BY <2>9, <3>1
    <3>9. /\ SomeStmts(Lifted(s)) /\ SomeStmts(Lifted(t))
          /\ SomeStmts(Lifted(WithValue(h, j[1]))) /\ SomeStmts(Lifted(WithValue(v, k[1])))
      BY <3>1, <3>2, <3>3, WithValueIs, LiftedHas
    <3>10. /\ IsSeq(Lifted(s)) /\ IsSeq(Lifted(t))
           /\ IsSeq(Lifted(WithValue(h, j[1]))) /\ IsSeq(Lifted(WithValue(v, k[1])))
      BY <3>9, StmtsAre
    <3> QED  BY <3>4, <3>5, <3>7, <3>8, <3>10, SameCodeJoined
  <2>11. CASE a.op = "cond"
    <3>1. /\ b.op = "cond" /\ \A n \in 1 .. 3 : Matches(j[n], k[n]) /\ IsExpr(m - 1, j[n]) /\ AnExpr(k[n])
      BY <2>4, <2>5, <2>6, <2>8, <2>11
    <3> DEFINE yes == Lifted(WithValue(h, j[2]))
               no == Lifted(WithValue(h, j[3]))
               newyes == Lifted(WithValue(v, k[2]))
               newno == Lifted(WithValue(v, k[3]))
               s == If(j[1], yes, no)
               t == If(k[1], newyes, newno)
    <3>2. SameCode(yes, newyes) /\ SameCode(no, newno)
      BY <2>9, <3>1
    <3>3. Lifted(h) = <<s>> /\ Lifted(v) = <<t>>
      BY <2>11, <3>1, LiftedValue DEF a, b, j, k
    <3> HIDE DEF yes, no, newyes, newno
    <3>4. /\ s.op = "if" /\ s.cond = j[1] /\ s.yes = yes /\ s.no = no
          /\ t.op = "if" /\ t.cond = k[1] /\ t.yes = newyes /\ t.no = newno
      BY DEF If
    <3> HIDE DEF s, t
    <3>5. /\ Exprs(s) = <<j[1]>> /\ Exprs(t) = <<k[1]>> /\ StmtName(s) = "" /\ StmtName(t) = ""
          /\ StmtCode(s) = <<>> /\ StmtCode(t) = <<>>
          /\ Blocks(s) = <<yes, no>> /\ Blocks(t) = <<newyes, newno>>
      BY <3>4 DEF Exprs, StmtName, StmtCode, Blocks
    <3>6. MatchesAll(<<j[1]>>, <<k[1]>>) /\ MatchesCode(<<>>, <<>>)
      BY <3>1, OneIsSeq, EmptyIsSeq DEF MatchesAll, MatchesCode
    <3>7. \A n \in {1, 2} : SameCode(<<yes, no>>[n], <<newyes, newno>>[n])
      BY <3>2, TwoIsSeq
    <3>8. \A n \in DOMAIN Blocks(s) : SameCode(Blocks(s)[n], Blocks(t)[n])
      <4>1. DOMAIN Blocks(s) = {1, 2}
        <5>1. Blocks(s) = <<yes, no>>
          BY <3>5
        <5>2. DOMAIN <<yes, no>> = {1, 2}
          BY TwoIsSeq
        <5> QED  BY <5>1, <5>2, Zenon
      <4>2. \A n \in {1, 2} : SameCode(Blocks(s)[n], Blocks(t)[n])
        BY <3>5, <3>7
      <4> QED  BY <4>1, <4>2
    <3>9. MatchesAll(Exprs(s), Exprs(t)) /\ MatchesCode(StmtCode(s), StmtCode(t))
      BY <3>5, <3>6
    <3>10. SameStmt(s, t)
      BY <3>4, <3>5, <3>8, <3>9 DEF SameStmt
    <3> QED  BY <3>3, <3>10, OneSame
  <2>12. CASE a.op \notin {"assign", "cond"}
    <3>1. Lifted(h) = <<h>> /\ Lifted(v) = <<v>>
      BY <2>8, <2>12, LiftedValue DEF a, b
    <3> QED  BY <3>1, OneSame
  <2> QED  BY <2>10, <2>11, <2>12
<1> HIDE DEF T
<1> QED  BY <1>1, EveryNumberAtOnce

\* A statement and one rebuilt from its elaborated parts are lifted to the same code.
LEMMA LiftedSame ==
  ASSUME ShapesAsDefined, ComparedAsDefined, LiftedAsDefined, NEW h, NEW v, AStmt(h), AStmt(v),
         Rebuilds(h, v)
  PROVE  SameCode(Lifted(h), Lifted(v)) /\ (HasValue(h) <=> HasValue(v))
<1>1. HasValue(h) <=> HasValue(v)
  <2>1. CASE h.op = "return"
    <3>1. Exprs(h) = h.value /\ Exprs(v) = v.value /\ IsSeq(h.value) /\ IsSeq(v.value)
      BY <2>1, StmtIs DEF Rebuilds, Exprs, StmtShape
    <3>2. Len(h.value) = Len(v.value)
      BY <3>1 DEF Rebuilds, MatchesAll
    <3>3. h.value = <<>> <=> v.value = <<>>
      BY <3>1, <3>2, EmptyOnly
    <3> QED  BY <2>1, <3>3 DEF Rebuilds, HasValue
  <2>2. CASE h.op = "call"
    <3>1. h = Call(Value(h)) /\ v = Call(Value(v))
      BY <2>2, StmtIs DEF Rebuilds, StmtShape
    <3>2. h.value = <<Value(h)>> /\ v.value = <<Value(v)>>
      BY <3>1 DEF Call
    <3>3. h.value # <<>> /\ v.value # <<>>
      BY <3>2, Joined
    <3> QED  BY <2>2, <3>3 DEF Rebuilds, HasValue
  <2>3. CASE h.op = "assign"
    <3>1. h = Assign(h.target, Value(h)) /\ v = Assign(v.target, Value(v))
      BY <2>3, StmtIs DEF Rebuilds, StmtShape
    <3>2. h.value = <<Value(h)>> /\ v.value = <<Value(v)>>
      BY <3>1 DEF Assign
    <3>3. h.value # <<>> /\ v.value # <<>>
      BY <3>2, Joined
    <3> QED  BY <2>3, <3>3 DEF Rebuilds, HasValue
  <2> QED  BY <2>1, <2>2, <2>3 DEF Rebuilds, HasValue
<1>2. CASE HasValue(h)
  <2>1. SameStmt(h, v)
    BY <1>2, ValueIs, EmptyIsSeq DEF Rebuilds, SameStmt
  <2> QED  BY <1>1, <1>2, <2>1, LiftedSameValue
<1>3. CASE ~HasValue(h)
  <2>1. PICK t : Lifted(h) = <<t>> /\ Relifted(h, t)
    BY <1>3, LiftedOther
  <2>2. PICK u : Lifted(v) = <<u>> /\ Relifted(v, u)
    BY <1>1, <1>3, LiftedOther
  <2>3. DOMAIN Blocks(h) = DOMAIN Blocks(v) /\ DOMAIN Blocks(t) = DOMAIN Blocks(h)
    BY <2>1, SameBlocks DEF Rebuilds, Relifted
  <2>4. \A b \in DOMAIN Blocks(t) : SameCode(Blocks(t)[b], Blocks(u)[b])
    BY <2>1, <2>2, <2>3 DEF Rebuilds, Relifted
  <2>5. SameStmt(t, u)
    BY <2>1, <2>2, <2>4 DEF SameStmt, Rebuilds, Relifted
  <2> QED  BY <1>1, <2>1, <2>2, <2>5, OneSame
<1> QED  BY <1>2, <1>3
-----------------------------------------------------------------------------
\* A statement put together again from the elaboration of its parts
LEMMA SameExprsJoined ==
  ASSUME NEW a, NEW b, NEW c, NEW d, SomeExprs(a), SomeExprs(b), SameExprs(a, c), SameExprs(b, d)
  PROVE  SomeExprs(a \o b) /\ SameExprs(a \o b, c \o d)
<1>1. /\ IsSeq(a) /\ IsSeq(b) /\ IsSeq(c) /\ IsSeq(d) /\ Len(a) = Len(c) /\ Len(b) = Len(d)
      /\ Len(a) \in Nat /\ Len(b) \in Nat
      /\ DOMAIN a = 1 .. Len(a) /\ DOMAIN b = 1 .. Len(b)
      /\ DOMAIN c = 1 .. Len(a) /\ DOMAIN d = 1 .. Len(b)
  BY SeqHas DEF SomeExprs, SameExprs, MatchesAll
<1>2. /\ \A k \in 1 .. Len(a) : AnExpr(a[k]) /\ Elaborates(a[k], c[k])
      /\ \A k \in 1 .. Len(b) : AnExpr(b[k]) /\ Elaborates(b[k], d[k])
  BY <1>1 DEF SomeExprs, SameExprs, MatchesAll, Elaborates
<1> DEFINE s == a \o b
           t == c \o d
<1>3. /\ IsSeq(s) /\ Len(s) = Len(a) + Len(b)
      /\ \A k \in 1 .. Len(a) : s[k] = a[k]
      /\ \A k \in 1 .. Len(b) : s[Len(a) + k] = b[k]
  BY <1>1, ConcatHas
<1>4. /\ IsSeq(t) /\ Len(t) = Len(a) + Len(b)
      /\ \A k \in 1 .. Len(a) : t[k] = c[k]
      /\ \A k \in 1 .. Len(b) : t[Len(a) + k] = d[k]
  BY <1>1, ConcatHas
<1>5. DOMAIN s = 1 .. Len(a) + Len(b) /\ DOMAIN t = 1 .. Len(a) + Len(b)
  BY <1>3, <1>4, SeqHas
<1> HIDE DEF s, t
<1>6. ASSUME NEW k \in 1 .. Len(a) + Len(b) PROVE AnExpr(s[k]) /\ Elaborates(s[k], t[k])
  <2>1. k \in 1 .. Len(a) \/ (k - Len(a) \in 1 .. Len(b) /\ Len(a) + (k - Len(a)) = k)
    BY <1>1
  <2> QED  BY <1>2, <1>3, <1>4, <2>1
<1>7. SomeExprs(s) /\ SameExprs(s, t)
  BY <1>3, <1>4, <1>5, <1>6 DEF SomeExprs, SameExprs, MatchesAll, Elaborates
<1> QED  BY <1>7 DEF s, t

\* Lists of one expression and of none.
LEMMA SameOne ==
  /\ \A x, y : Elaborates(x, y) => SameExprs(<<x>>, <<y>>)
  /\ SameExprs(<<>>, <<>>) /\ SameText(<<>>, <<>>)
<1>1. ASSUME NEW x, NEW y, Elaborates(x, y) PROVE SameExprs(<<x>>, <<y>>)
  BY <1>1, OneIsSeq DEF SameExprs, SomeExprs, MatchesAll, Elaborates
<1>2. SameExprs(<<>>, <<>>) /\ SameText(<<>>, <<>>)
  BY ExprsAre, EmptyIsSeq DEF SameExprs, SameText, MatchesAll, MatchesCode
<1> QED  BY <1>1, <1>2

BlockElaborates(stmts) ==
  \A n : LET new == elab_stmts(n, stmts).v
         IN SomeStmts(new) /\ SameCode(LiftedAll(stmts), LiftedAll(new))

\* A statement of the same operation over elaborated parts is rebuilt from it.
LEMMA RebuiltStmt ==
  ASSUME ShapesAsDefined, NEW s, NEW v, StmtShape(v), v.op = s.op, StmtName(s) = StmtName(v),
         SameExprs(Exprs(s), Exprs(v)), SameText(StmtCode(s), StmtCode(v)),
         \A b \in DOMAIN Blocks(s) : /\ SomeStmts(Blocks(v)[b])
                                     /\ SameCode(LiftedAll(Blocks(s)[b]), LiftedAll(Blocks(v)[b]))
  PROVE  AStmt(v) /\ Rebuilds(s, v)
<1>1. DOMAIN Blocks(s) = DOMAIN Blocks(v)
  BY SameBlocks
<1> QED  BY <1>1, StmtIs DEF Rebuilds, SameExprs, SameText

\* elab_stmt rebuilds a statement without blocks that has no value to convert.
LEMMA ElabSimple ==
  ASSUME ShapesAsDefined, ComparedAsDefined, ElaborateAsDefined, NEW s, AStmt(s), NEW n,
         s.op \in {"call", "decl", "stack_array", "assert", "ghost", "label"}
  PROVE  AStmt(elab_stmt(n, s).v) /\ Rebuilds(s, elab_stmt(n, s).v)
<1> DEFINE v == elab_stmt(n, s).v
<1>1. StmtShape(s) /\ SomeExprs(Exprs(s)) /\ SomeCode(StmtCode(s)) /\ Blocks(s) = <<>>
  BY StmtIs DEF Blocks
<1>2. ASSUME NEW x, StmtShape(x), x.op = s.op, StmtName(s) = StmtName(x),
             SameExprs(Exprs(s), Exprs(x)), SameText(StmtCode(s), StmtCode(x))
      PROVE  AStmt(x) /\ Rebuilds(s, x)
  BY <1>1, <1>2, RebuiltStmt, EmptyIsSeq
<1>3. CASE s.op = "call"
  <2> DEFINE e == elab_rvalue(n, Value(s), None).v
  <2>1. v = Call(e)
    BY <1>3, ResultIs DEF elab_stmt
  <2>2. HasValue(s) /\ AnExpr(Value(s)) /\ Exprs(s) = <<Value(s)>>
    <3>1. s.value = <<Value(s)>>
      BY <1>1, <1>3 DEF StmtShape, Call
    <3>2. HasValue(s)
      BY <1>3, <3>1, Joined DEF HasValue
    <3> QED  BY <1>3, <3>2, ValueIs
  <2>3. Elaborates(Value(s), e)
    BY <2>2, ElabParts
  <2>4. v.op = "call" /\ v.value = <<e>> /\ Value(v) = e
    BY <2>1, OneIsSeq DEF Call, Value
  <2> HIDE DEF v, e
  <2>5. /\ StmtShape(v) /\ Exprs(v) = <<e>> /\ StmtCode(v) = <<>> /\ StmtCode(s) = <<>>
        /\ StmtName(v) = "" /\ StmtName(s) = ""
    BY <1>3, <2>1, <2>4 DEF StmtShape, Exprs, StmtCode, StmtName
  <2> QED  BY <1>2, <1>3, <2>2, <2>3, <2>4, <2>5, SameOne DEF v
<1>4. CASE s.op = "decl"
  <2> DEFINE ty == elab_type(n, s.ty).v
  <2>1. v = Decl(s.name, ty)
    BY <1>4, ResultIs DEF elab_stmt
  <2>2. v.op = "decl" /\ v.name = s.name /\ v.ty = ty
    BY <2>1 DEF Decl
  <2> HIDE DEF v, ty
  <2>3. /\ StmtShape(v) /\ Exprs(v) = <<>> /\ Exprs(s) = <<>> /\ StmtCode(v) = <<>>
        /\ StmtCode(s) = <<>> /\ StmtName(v) = s.name /\ StmtName(s) = s.name
    BY <1>4, <2>1, <2>2 DEF StmtShape, Exprs, StmtCode, StmtName
  <2> QED  BY <1>2, <1>4, <2>2, <2>3, SameOne DEF v
<1>5. CASE s.op = "stack_array"
  <2> DEFINE ty == elab_type(n, s.ty).v
             e == ToSize(n, elab_rvalue(n, s.size, None).v)
  <2>1. v = StackArray(s.name, ty, e)
    BY <1>5, ResultIs DEF elab_stmt
  <2>2. Exprs(s) = <<s.size>> /\ AnExpr(s.size)
    <3>1. Exprs(s) = <<s.size>>
      BY <1>5 DEF Exprs
    <3> QED  BY <1>1, <3>1, OneIsSeq DEF SomeExprs
  <2>3. Elaborates(s.size, e)
    BY <2>2, ElabParts, ConvertedIs
  <2>4. v.op = "stack_array" /\ v.name = s.name /\ v.ty = ty /\ v.size = e
    BY <2>1 DEF StackArray
  <2> HIDE DEF v, ty, e
  <2>5. /\ StmtShape(v) /\ Exprs(v) = <<e>> /\ StmtCode(v) = <<>>
        /\ StmtCode(s) = <<>> /\ StmtName(v) = s.name /\ StmtName(s) = s.name
    BY <1>5, <2>1, <2>4 DEF StmtShape, Exprs, StmtCode, StmtName
  <2> QED  BY <1>2, <1>5, <2>2, <2>3, <2>4, <2>5, SameOne DEF v
<1>6. CASE s.op = "assert"
  <2> DEFINE e == elab_slprop(n, s.pred).v
  <2>1. v = AssertStmt(e)
    BY <1>6, ResultIs DEF elab_stmt
  <2>2. Exprs(s) = <<s.pred>> /\ AnExpr(s.pred)
    <3>1. Exprs(s) = <<s.pred>>
      BY <1>6 DEF Exprs
    <3> QED  BY <1>1, <3>1, OneIsSeq DEF SomeExprs
  <2>3. Elaborates(s.pred, e)
    BY <2>2, ElabParts
  <2>4. v.op = "assert" /\ v.pred = e
    BY <2>1 DEF AssertStmt
  <2> HIDE DEF v, e
  <2>5. /\ StmtShape(v) /\ Exprs(v) = <<e>> /\ StmtCode(v) = <<>>
        /\ StmtCode(s) = <<>> /\ StmtName(v) = "" /\ StmtName(s) = ""
    BY <1>6, <2>1, <2>4 DEF StmtShape, Exprs, StmtCode, StmtName
  <2> QED  BY <1>2, <1>6, <2>2, <2>3, <2>4, <2>5, SameOne DEF v
<1>7. CASE s.op = "ghost"
  <2> DEFINE code == elab_code(n, s.code).v
  <2>1. v = GhostStmt(code)
    BY <1>7, ResultIs DEF elab_stmt
  <2>2. SameText(s.code, code)
    BY <1>1, <1>7, ElabParts DEF StmtCode
  <2>3. v.op = "ghost" /\ v.code = code
    BY <2>1 DEF GhostStmt
  <2> HIDE DEF v, code
  <2>4. /\ StmtShape(v) /\ Exprs(v) = <<>> /\ Exprs(s) = <<>> /\ StmtCode(v) = code
        /\ StmtCode(s) = s.code /\ StmtName(v) = "" /\ StmtName(s) = ""
    BY <1>7, <2>1, <2>3 DEF StmtShape, Exprs, StmtCode, StmtName
  <2> QED  BY <1>2, <1>7, <2>2, <2>3, <2>4, SameOne DEF v
<1>8. CASE s.op = "label"
  <2> DEFINE ens == elab_slprops(n, s.ensures).v
  <2>1. v = Label(s.label, ens)
    BY <1>8, ResultIs DEF elab_stmt
  <2>2. Exprs(s) = s.ensures /\ SameExprs(s.ensures, ens)
    BY <1>1, <1>8, ElabParts DEF Exprs
  <2>3. v.op = "label" /\ v.label = s.label /\ v.ensures = ens
    BY <2>1 DEF Label
  <2> HIDE DEF v, ens
  <2>4. /\ StmtShape(v) /\ Exprs(v) = ens /\ StmtCode(v) = <<>>
        /\ StmtCode(s) = <<>> /\ StmtName(v) = s.label /\ StmtName(s) = s.label
    BY <1>8, <2>1, <2>2, <2>3 DEF StmtShape, Exprs, StmtCode, StmtName, SameExprs, SomeExprs
  <2> QED  BY <1>2, <1>8, <2>2, <2>3, <2>4, SameOne DEF v
<1> QED  BY <1>3, <1>4, <1>5, <1>6, <1>7, <1>8

\* elab_stmt rebuilds an assignment, its value converted to the target's type.
LEMMA ElabAssignment ==
  ASSUME ShapesAsDefined, ComparedAsDefined, ElaborateAsDefined, NEW s, AStmt(s), NEW n,
         s.op = "assign"
  PROVE  AStmt(elab_stmt(n, s).v) /\ Rebuilds(s, elab_stmt(n, s).v)
<1> DEFINE v == elab_stmt(n, s).v
           x == elab_lvalue(n, s.target).v
           ty == infer_expr(n, x)
           e == elab_rvalue(n, Value(s), ty).v
<1>1. HasValue(s) /\ s.value = <<Value(s)>>
  <2>1. s = Assign(s.target, Value(s))
    BY StmtIs DEF StmtShape
  <2>2. s.value = <<Value(s)>>
    BY <2>1 DEF Assign
  <2> QED  BY <2>2, Joined DEF HasValue
<1>2. AnExpr(s.target) /\ AnExpr(Value(s))
  BY <1>1, ValueIs
<1>3. \E y : v = Assign(x, y) /\ (y = e \/ y = Converted(n, e, ty))
  <2>1. elab_stmt(n, s) = elab_assign(n, s)
    BY DEF elab_stmt
  <2>2. \E y : elab_assign(n, s).v = Assign(x, y) /\ (y = e \/ y = Converted(n, e, ty))
    BY ZenonT(40), ResultIs DEF elab_assign
  <2> QED  BY <2>1, <2>2
<1>4. PICK y : v = Assign(x, y) /\ (y = e \/ y = Converted(n, e, ty))
  BY <1>3
<1>5. Elaborates(s.target, x)
  <2>1. x = elab_rvalue(n, s.target, None).v
    BY ResultIs DEF elab_lvalue
  <2> HIDE DEF x
  <2> QED  BY <1>2, <2>1, ElabParts
<1>6. Elaborates(Value(s), y)
  BY <1>2, <1>4, ElabParts, ConvertedIs
<1>7. v.target = x /\ v.op = "assign"
  BY <1>4 DEF Assign
<1> HIDE DEF v, x, ty, e
<1>8. AStmt(v) /\ HasValue(v) /\ Value(v) = y
  BY <1>4, <1>5, <1>6, AssignIs DEF Elaborates
<1>9. SameStmt(s, v)
  BY <1>1, <1>5, <1>6, <1>7, <1>8, SameValue DEF Elaborates
<1>10. Blocks(s) = <<>>
  BY DEF Blocks
<1> QED  BY <1>8, <1>9, <1>10, EmptyIsSeq DEF SameStmt, Rebuilds, v

\* elab_stmt rebuilds a return, its value converted to the function's result type.
LEMMA ElabReturned ==
  ASSUME ShapesAsDefined, ComparedAsDefined, ElaborateAsDefined, NEW s, AStmt(s), NEW n,
         s.op = "return"
  PROVE  AStmt(elab_stmt(n, s).v) /\ Rebuilds(s, elab_stmt(n, s).v)
<1> DEFINE v == elab_stmt(n, s).v
           es == elab_rvalues(n, s.value, n.ret).v
           cast == [k \in DOMAIN es |-> Converted(n, es[k], n.ret)]
<1>1. Exprs(s) = s.value /\ SomeExprs(s.value) /\ IsSeq(s.value) /\ Len(s.value) <= 1
  BY StmtIs DEF Exprs, StmtShape
<1>2. SameExprs(s.value, es)
  BY <1>1, ElabParts
<1>3. v = Return(es) \/ v = Return(Each(cast))
  <2>1. elab_stmt(n, s) = elab_return(n, s)
    BY DEF elab_stmt
  <2>2. elab_return(n, s).v = Return(es) \/ elab_return(n, s).v = Return(Each(cast))
    BY ResultIs DEF elab_return
  <2> QED  BY <2>1, <2>2
<1>4. Len(es) \in Nat /\ DOMAIN es = 1 .. Len(es) /\ Len(es) = Len(s.value) /\ DOMAIN s.value = DOMAIN es
  BY <1>1, <1>2, SeqHas DEF SameExprs, SomeExprs, MatchesAll
<1>5. /\ cast = [k \in 1 .. Len(es) |-> cast[k]]
      /\ \A k \in DOMAIN es : cast[k] = Converted(n, es[k], n.ret)
  BY <1>4
<1> HIDE DEF cast, es
<1>6. IsSeq(cast) /\ Len(cast) = Len(es) /\ Each(cast) = cast /\ DOMAIN cast = DOMAIN es
  BY <1>4, <1>5, SeqIs, EachIsSame
<1>7. \A k \in DOMAIN es : Elaborates(s.value[k], cast[k])
  <2> SUFFICES ASSUME NEW k \in DOMAIN es PROVE Elaborates(s.value[k], cast[k])
    OBVIOUS
  <2>1. Elaborates(s.value[k], es[k])
    BY <1>2, <1>4 DEF SameExprs, SomeExprs, MatchesAll, Elaborates
  <2> QED  BY <1>5, <2>1, ConvertedIs
<1>8. SameExprs(s.value, cast)
  BY <1>4, <1>6, <1>7 DEF SameExprs, SomeExprs, MatchesAll, Elaborates
<1>9. PICK new : v = Return(new) /\ SameExprs(s.value, new) /\ Len(new) = Len(s.value)
  BY <1>2, <1>3, <1>4, <1>6, <1>8
<1>10. v.op = "return" /\ v.value = new
  BY <1>9 DEF Return
<1> HIDE DEF v
<1>11. StmtShape(v)
  BY <1>1, <1>9, <1>10 DEF StmtShape, SameExprs, SomeExprs
<1>12. /\ Exprs(v) = new /\ StmtCode(v) = <<>> /\ StmtCode(s) = <<>>
       /\ StmtName(v) = "" /\ StmtName(s) = "" /\ Blocks(s) = <<>>
  BY <1>10 DEF Exprs, StmtCode, StmtName, Blocks
<1>13. AStmt(v) /\ Rebuilds(s, v)
  BY <1>1, <1>9, <1>10, <1>11, <1>12, RebuiltStmt, SameOne, EmptyIsSeq
<1> QED  BY <1>13 DEF v

\* Both parts of a list of expressions are lists of expressions.
LEMMA PartsOfExprs ==
  ASSUME NEW a, NEW b, IsSeq(a), IsSeq(b), SomeExprs(a \o b)
  PROVE  SomeExprs(a) /\ SomeExprs(b)
<1> DEFINE s == a \o b
<1>1. /\ Len(a) \in Nat /\ Len(b) \in Nat /\ DOMAIN a = 1 .. Len(a) /\ DOMAIN b = 1 .. Len(b)
  BY SeqHas
<1>2. /\ IsSeq(s) /\ Len(s) = Len(a) + Len(b)
      /\ \A k \in 1 .. Len(a) : s[k] = a[k]
      /\ \A k \in 1 .. Len(b) : s[Len(a) + k] = b[k]
  BY ConcatHas
<1>3. DOMAIN s = 1 .. Len(a) + Len(b)
  BY <1>2, SeqHas
<1>4. \A k \in DOMAIN s : AnExpr(s[k])
  BY DEF SomeExprs
<1> HIDE DEF s
<1>5. \A k \in 1 .. Len(a) : k \in 1 .. Len(a) + Len(b)
  BY <1>1
<1>6. \A k \in 1 .. Len(b) : Len(a) + k \in 1 .. Len(a) + Len(b)
  BY <1>1
<1> QED  BY <1>1, <1>2, <1>3, <1>4, <1>5, <1>6 DEF SomeExprs

\* elab_stmt rebuilds a statement with blocks, when its blocks are elaborated rightly.
LEMMA ElabNested ==
  ASSUME ShapesAsDefined, ComparedAsDefined, ElaborateAsDefined, NEW s, AStmt(s), NEW n,
         s.op \in {"if", "while", "goto_block"},
         \A b \in DOMAIN Blocks(s) : BlockElaborates(Blocks(s)[b])
  PROVE  AStmt(elab_stmt(n, s).v) /\ Rebuilds(s, elab_stmt(n, s).v)
<1> DEFINE v == elab_stmt(n, s).v
<1>1. StmtShape(s) /\ SomeExprs(Exprs(s))
  BY StmtIs
<1>2. StmtCode(s) = <<>>
  BY DEF StmtCode
<1>3. CASE s.op = "if"
  <2> DEFINE c == elab_bool(n, s.cond).v
             yes == elab_stmts(n, s.yes).v
             no == elab_stmts(n, s.no).v
  <2>1. v = If(c, yes, no)
    BY <1>3, ResultIs DEF elab_stmt
  <2>2. Exprs(s) = <<s.cond>> /\ Blocks(s) = <<s.yes, s.no>> /\ StmtName(s) = ""
    BY <1>3 DEF Exprs, Blocks, StmtName
  <2>3. AnExpr(s.cond)
    BY <1>1, <2>2, OneIsSeq DEF SomeExprs
  <2>4. Elaborates(s.cond, c)
    BY <2>3, ElabParts
  <2>10. DOMAIN Blocks(s) = {1, 2} /\ Blocks(s)[1] = s.yes /\ Blocks(s)[2] = s.no
    <3>1. /\ DOMAIN <<s.yes, s.no>> = {1, 2}
          /\ <<s.yes, s.no>>[1] = s.yes /\ <<s.yes, s.no>>[2] = s.no
      BY TwoIsSeq
    <3> QED  BY <2>2, <3>1, Zenon
  <2>5. BlockElaborates(s.yes) /\ BlockElaborates(s.no)
    <3>1. 1 \in DOMAIN Blocks(s) /\ 2 \in DOMAIN Blocks(s)
      BY <2>10
    <3>2. BlockElaborates(Blocks(s)[1]) /\ BlockElaborates(Blocks(s)[2])
      BY <3>1
    <3> QED  BY <2>10, <3>2
  <2>6. /\ SomeStmts(yes) /\ SameCode(LiftedAll(s.yes), LiftedAll(yes))
        /\ SomeStmts(no) /\ SameCode(LiftedAll(s.no), LiftedAll(no))
    BY <2>5 DEF BlockElaborates
  <2>7. v.op = "if" /\ v.cond = c /\ v.yes = yes /\ v.no = no
    BY <2>1 DEF If
  <2> HIDE DEF v, c, yes, no
  <2>8. /\ StmtShape(v) /\ Exprs(v) = <<c>> /\ StmtCode(v) = <<>> /\ StmtName(v) = ""
        /\ Blocks(v) = <<yes, no>>
    BY <2>1, <2>7 DEF StmtShape, Exprs, StmtCode, StmtName, Blocks
  <2>12. Blocks(v)[1] = yes /\ Blocks(v)[2] = no
    <3>1. <<yes, no>>[1] = yes /\ <<yes, no>>[2] = no
      BY TwoIsSeq
    <3> QED  BY <2>8, <3>1, Zenon
  <2>9. \A b \in DOMAIN Blocks(s) : /\ SomeStmts(Blocks(v)[b])
                                    /\ SameCode(LiftedAll(Blocks(s)[b]), LiftedAll(Blocks(v)[b]))
    BY <2>6, <2>10, <2>12
  <2>11. SameExprs(Exprs(s), Exprs(v)) /\ SameText(StmtCode(s), StmtCode(v))
    BY <1>2, <2>2, <2>4, <2>8, SameOne
  <2> QED  BY <1>3, <2>2, <2>7, <2>8, <2>9, <2>11, RebuiltStmt DEF v
<1>4. CASE s.op = "while"
  <2> DEFINE c == elab_bool(n, s.cond).v
             inv == elab_slprops(n, s.inv).v
             req == elab_bools(n, s.requires).v
             ens == elab_bools(n, s.ensures).v
             body == elab_stmts(n, s.body).v
  <2>1. v = While(c, inv, req, ens, body)
    <3>1. elab_stmt(n, s) = elab_while(n, s)
      BY <1>4 DEF elab_stmt
    <3> QED  BY <3>1, ResultIs DEF elab_while
  <2>2. /\ Exprs(s) = <<s.cond>> \o s.inv \o s.requires \o s.ensures
        /\ Blocks(s) = <<s.body>> /\ StmtName(s) = ""
        /\ IsSeq(s.inv) /\ IsSeq(s.requires) /\ IsSeq(s.ensures)
    BY <1>1, <1>4 DEF Exprs, Blocks, StmtName, StmtShape
  <2>3. AnExpr(s.cond) /\ SomeExprs(s.inv) /\ SomeExprs(s.requires) /\ SomeExprs(s.ensures)
    <3> DEFINE p == <<s.cond>> \o s.inv
               q == p \o s.requires
    <3>1. SomeExprs(q \o s.ensures)
      BY <1>1, <2>2
    <3>2. IsSeq(p)
      BY <2>2, OneIsSeq, ConcatHas
    <3>3. IsSeq(q)
      <4> HIDE DEF p
      <4> QED  BY <2>2, <3>2, ConcatHas
    <3>4. SomeExprs(q) /\ SomeExprs(s.ensures)
      <4> HIDE DEF q
      <4> QED  BY <2>2, <3>1, <3>3, PartsOfExprs
    <3>5. SomeExprs(p) /\ SomeExprs(s.requires)
      <4> HIDE DEF p
      <4> QED  BY <2>2, <3>2, <3>4, PartsOfExprs
    <3>6. SomeExprs(<<s.cond>>) /\ SomeExprs(s.inv)
      BY <2>2, <3>5, OneIsSeq, PartsOfExprs
    <3> QED  BY <3>4, <3>5, <3>6, OneIsSeq DEF SomeExprs
  <2>4. /\ Elaborates(s.cond, c) /\ SameExprs(s.inv, inv) /\ SameExprs(s.requires, req)
        /\ SameExprs(s.ensures, ens)
    BY <2>3, ElabParts
  <2>5. BlockElaborates(s.body)
    BY <2>2, OneIsSeq
  <2>6. SomeStmts(body) /\ SameCode(LiftedAll(s.body), LiftedAll(body))
    BY <2>5 DEF BlockElaborates
  <2>7. /\ v.op = "while" /\ v.cond = c /\ v.inv = inv /\ v.requires = req /\ v.ensures = ens
        /\ v.body = body
    BY <2>1 DEF While
  <2> HIDE DEF v, c, inv, req, ens, body
  <2>8. /\ Exprs(v) = <<c>> \o inv \o req \o ens /\ StmtCode(v) = <<>> /\ StmtName(v) = ""
        /\ Blocks(v) = <<body>>
    BY <2>7 DEF Exprs, StmtCode, StmtName, Blocks
  <2>9. StmtShape(v)
    BY <2>1, <2>4, <2>7 DEF StmtShape, SameExprs, SomeExprs
  <2>10. SameExprs(Exprs(s), Exprs(v))
    <3>1. SameExprs(<<s.cond>>, <<c>>) /\ SomeExprs(<<s.cond>>)
      BY <2>3, <2>4, SameOne, ExprsAre
    <3>2. SameExprs(<<s.cond>> \o s.inv, <<c>> \o inv) /\ SomeExprs(<<s.cond>> \o s.inv)
      BY <2>3, <2>4, <3>1, SameExprsJoined
    <3> DEFINE p == <<s.cond>> \o s.inv
               newp == <<c>> \o inv
    <3> HIDE DEF p, newp
    <3>3. SameExprs(p, newp) /\ SomeExprs(p)
      BY <3>2 DEF p, newp
    <3>4. SameExprs(p \o s.requires, newp \o req) /\ SomeExprs(p \o s.requires)
      BY <2>3, <2>4, <3>3, SameExprsJoined
    <3>5. SameExprs(p \o s.requires \o s.ensures, newp \o req \o ens)
      BY <2>3, <2>4, <3>4, SameExprsJoined
    <3> QED  BY <2>2, <2>8, <3>5 DEF p, newp
  <2>11. SameText(StmtCode(s), StmtCode(v))
    BY <1>2, <2>8, SameOne
  <2>12. \A b \in DOMAIN Blocks(s) : /\ SomeStmts(Blocks(v)[b])
                                     /\ SameCode(LiftedAll(Blocks(s)[b]), LiftedAll(Blocks(v)[b]))
    <3>1. DOMAIN <<s.body>> = {1} /\ <<s.body>>[1] = s.body /\ <<body>>[1] = body
      BY OneIsSeq
    <3>2. DOMAIN Blocks(s) = {1} /\ Blocks(s)[1] = s.body /\ Blocks(v)[1] = body
      BY <2>2, <2>8, <3>1, Zenon
    <3> QED  BY <2>6, <3>2
  <2> QED  BY <1>4, <2>2, <2>7, <2>8, <2>9, <2>10, <2>11, <2>12, RebuiltStmt DEF v
<1>5. CASE s.op = "goto_block"
  <2> DEFINE body == elab_stmts(n, s.body).v
             ens == elab_slprops(n, s.ensures).v
  <2>1. v = GotoBlock(s.label, body, ens)
    BY <1>5, ResultIs DEF elab_stmt
  <2>2. Exprs(s) = s.ensures /\ Blocks(s) = <<s.body>> /\ StmtName(s) = s.label
    BY <1>5 DEF Exprs, Blocks, StmtName
  <2>3. SameExprs(s.ensures, ens)
    BY <1>1, <2>2, ElabParts
  <2>4. BlockElaborates(s.body)
    BY <2>2, OneIsSeq
  <2>5. SomeStmts(body) /\ SameCode(LiftedAll(s.body), LiftedAll(body))
    BY <2>4 DEF BlockElaborates
  <2>6. v.op = "goto_block" /\ v.label = s.label /\ v.body = body /\ v.ensures = ens
    BY <2>1 DEF GotoBlock
  <2> HIDE DEF v, body, ens
  <2>7. /\ Exprs(v) = ens /\ StmtCode(v) = <<>> /\ StmtName(v) = s.label /\ Blocks(v) = <<body>>
    BY <2>6 DEF Exprs, StmtCode, StmtName, Blocks
  <2>8. StmtShape(v)
    BY <2>1, <2>3, <2>6 DEF StmtShape, SameExprs, SomeExprs
  <2>9. SameText(StmtCode(s), StmtCode(v))
    BY <1>2, <2>7, SameOne
  <2>10. \A b \in DOMAIN Blocks(s) : /\ SomeStmts(Blocks(v)[b])
                                     /\ SameCode(LiftedAll(Blocks(s)[b]), LiftedAll(Blocks(v)[b]))
    BY <2>2, <2>5, <2>7, OneIsSeq
  <2> QED  BY <1>5, <2>2, <2>3, <2>6, <2>7, <2>8, <2>9, <2>10, RebuiltStmt DEF v
<1> QED  BY <1>3, <1>4, <1>5

\* Every statement
LEMMA ElabStmt ==
  ASSUME ShapesAsDefined, ComparedAsDefined, ElaborateAsDefined, NEW s, AStmt(s), NEW n,
         \A b \in DOMAIN Blocks(s) : BlockElaborates(Blocks(s)[b])
  PROVE  AStmt(elab_stmt(n, s).v) /\ Rebuilds(s, elab_stmt(n, s).v)
<1>1. CASE s.op \in {"call", "decl", "stack_array", "assert", "ghost", "label"}
  BY <1>1, ElabSimple
<1>2. CASE s.op = "assign"
  BY <1>2, ElabAssignment
<1>3. CASE s.op = "return"
  BY <1>3, ElabReturned
<1>4. CASE s.op \in {"if", "while", "goto_block"}
  BY <1>4, ElabNested
<1>5. CASE s.op \notin {"call", "decl", "stack_array", "assert", "ghost", "label", "assign",
                        "return", "if", "while", "goto_block"}
  <2>1. elab_stmt(n, s).v = s
    BY <1>5, ResultIs DEF elab_stmt
  <2>2. StmtShape(s) /\ Exprs(s) = <<>> /\ StmtCode(s) = <<>> /\ Blocks(s) = <<>>
    BY <1>5, StmtIs DEF Exprs, StmtCode, Blocks
  <2> QED  BY <2>1, <2>2, RebuiltStmt, SameOne, EmptyIsSeq
<1> QED  BY <1>1, <1>2, <1>3, <1>4, <1>5
-----------------------------------------------------------------------------
\* Sequences put together, and taken apart at an element.
LEMMA ConcatGroups ==
  /\ \A a, b, c : IsSeq(a) /\ IsSeq(b) /\ IsSeq(c) => (a \o b) \o c = a \o (b \o c)
  /\ \A a : IsSeq(a) => <<>> \o a = a /\ a \o <<>> = a
<1>1. ASSUME NEW a, NEW b, NEW c, IsSeq(a), IsSeq(b), IsSeq(c)
      PROVE  (a \o b) \o c = a \o (b \o c)
  <2> DEFINE S == {a[k] : k \in DOMAIN a} \cup {b[k] : k \in DOMAIN b} \cup {c[k] : k \in DOMAIN c}
  <2>1. a \in Seq(S) /\ b \in Seq(S) /\ c \in Seq(S)
    BY <1>1, SeqHas
  <2> HIDE DEF S
  <2> QED  BY <2>1, ConcatAssociative
<1>2. ASSUME NEW a, IsSeq(a) PROVE <<>> \o a = a /\ a \o <<>> = a
  <2>1. a \in Seq({a[k] : k \in DOMAIN a})
    BY <1>2 DEF IsSeq
  <2> QED  BY <2>1, ConcatEmptySeq
<1> QED  BY SMTT(30), <1>1, <1>2

Placed(P, h, t) == P \o (<<h>> \o t)

\* What stands before, at and after one place of a block.
LEMMA SplitAt ==
  ASSUME NEW P, NEW h, NEW t, IsSeq(P), IsSeq(t),
         NEW k, k = Len(P) + 1
  PROVE  LET s == Placed(P, h, t)
         IN /\ IsSeq(s) /\ k \in 1 .. Len(s) /\ s[k] = h /\ Len(P) \in Nat
            /\ SubSeq(s, 1, k - 1) = P /\ SubSeq(s, k + 1, Len(s)) = t
<1> DEFINE r == <<h>> \o t
           s == P \o r
           m == Len(P)
<1>1. m \in Nat /\ DOMAIN P = 1 .. m /\ Len(t) \in Nat /\ DOMAIN t = 1 .. Len(t)
  BY SeqHas
<1>2. IsSeq(r) /\ Len(r) = Len(t) + 1 /\ r[1] = h /\ \A j \in 1 .. Len(t) : r[j + 1] = t[j]
  BY Before1
<1>3. /\ IsSeq(s) /\ Len(s) = m + (Len(t) + 1)
      /\ \A j \in 1 .. m : s[j] = P[j]
      /\ \A j \in 1 .. Len(t) + 1 : s[m + j] = r[j]
  <2>1. IsSeq(P) /\ IsSeq(r)
    BY <1>2
  <2> HIDE DEF r
  <2>2. /\ IsSeq(s) /\ Len(s) = m + Len(r)
        /\ \A j \in 1 .. m : s[j] = P[j]
        /\ \A j \in 1 .. Len(r) : s[m + j] = r[j]
    BY <2>1, ConcatHas
  <2> HIDE DEF s, m
  <2> QED  BY <1>2, <2>2
<1> HIDE DEF r, s, m
<1>5. s[m + 1] = h
  BY <1>1, <1>2, <1>3
<1>6. SubSeq(s, 1, m) = P
  <2> DEFINE u == SubSeq(s, 1, m)
             S == {s[j] : j \in DOMAIN s}
  <2>1. DOMAIN s = 1 .. Len(s) /\ \A j \in 1 .. m : s[j] \in S
    BY <1>1, <1>3, SeqHas
  <2> HIDE DEF S
  <2>2. /\ u \in Seq(S) /\ Len(u) = IF 1 <= m THEN m - 1 + 1 ELSE 0
        /\ \A j \in 1 .. m - 1 + 1 : u[j] = s[1 + j - 1]
    BY <1>1, <2>1, SubSeqProperties
  <2> HIDE DEF u
  <2>3. Len(u) = m /\ \A j \in 1 .. m : u[j] = s[j]
    BY <1>1, <2>2
  <2>4. u = P
    BY <1>1, <1>3, <2>2, <2>3, SeqAny, SameSeq DEF m
  <2> QED  BY <2>4 DEF u
<1>7. SubSeq(s, m + 2, Len(s)) = t
  <2> DEFINE u == SubSeq(s, m + 2, Len(s))
             S == {s[j] : j \in DOMAIN s}
  <2>1. DOMAIN s = 1 .. Len(s) /\ \A j \in m + 2 .. Len(s) : s[j] \in S
    BY <1>1, <1>3, SeqHas
  <2> HIDE DEF S
  <2>2. /\ u \in Seq(S) /\ Len(u) = IF m + 2 <= Len(s) THEN Len(s) - (m + 2) + 1 ELSE 0
        /\ \A j \in 1 .. Len(s) - (m + 2) + 1 : u[j] = s[m + 2 + j - 1]
    BY <1>1, <1>3, <2>1, SubSeqProperties
  <2> HIDE DEF u
  <2>3. Len(u) = Len(t) /\ \A j \in 1 .. Len(t) : u[j] = s[m + 2 + j - 1]
    BY <1>1, <1>3, <2>2
  <2>4. ASSUME NEW j \in 1 .. Len(t) PROVE u[j] = t[j]
    <3>1. m + 2 + j - 1 = m + (j + 1) /\ j + 1 \in 1 .. Len(t) + 1
      BY <1>1
    <3> QED  BY <1>2, <1>3, <2>3, <3>1
  <2>5. IsSeq(u)
    BY <2>2, SeqAny
  <2>6. u = t
    BY <2>3, <2>4, <2>5, SameSeq
  <2> QED  BY <2>6 DEF u
<1>8. m + 1 - 1 = m /\ m + 1 + 1 = m + 2 /\ m + 1 \in 1 .. Len(s)
  BY <1>1, <1>3
<1> QED  BY <1>1, <1>3, <1>5, <1>6, <1>7, <1>8 DEF m, s, r, Placed
-----------------------------------------------------------------------------
\* The loop of the pass over the statements of a block.

\* Settling the kind of a declared pointer changes no more than a type.
LEMMA RefinedIs ==
  ASSUME ShapesAsDefined, NEW n, NEW stmts, NEW k, NEW h, stmts[k] = h, AStmt(h)
  PROVE  \E s : /\ refine_decl_pointer_kind(n, stmts, k) = s /\ AStmt(s) /\ s.op = h.op
                /\ StmtName(s) = StmtName(h) /\ Exprs(s) = Exprs(h)
                /\ StmtCode(s) = StmtCode(h) /\ Blocks(s) = Blocks(h)
<1> DEFINE s == refine_decl_pointer_kind(n, stmts, k)
<1>1. CASE s = h
  BY <1>1
<1>2. CASE s # h
  <2>1. h.op = "decl" /\ \E x : s = [h EXCEPT !.ty.kind = x]
    BY <1>2 DEF refine_decl_pointer_kind
  <2> HIDE DEF s
  <2>2. h = Decl(h.name, h.ty)
    BY <2>1, StmtIs DEF StmtShape
  <2>3. \E ty : s = Decl(h.name, ty)
    BY <2>1, <2>2 DEF Decl
  <2>4. s.op = "decl" /\ s.name = h.name /\ s = Decl(s.name, s.ty)
    BY <2>3 DEF Decl
  <2>5. /\ Exprs(s) = <<>> /\ Exprs(h) = <<>> /\ StmtCode(s) = <<>> /\ StmtCode(h) = <<>>
        /\ Blocks(s) = <<>> /\ Blocks(h) = <<>> /\ StmtName(s) = s.name /\ StmtName(h) = h.name
    BY <2>1, <2>4 DEF Exprs, StmtCode, Blocks, StmtName
  <2>6. StmtShape(s)
    BY <2>4 DEF StmtShape
  <2>7. AStmt(s)
    BY <2>5, <2>6, StmtIs, ExprsAre, EmptyIsSeq
  <2> QED  BY <2>1, <2>4, <2>5, <2>7 DEF s
<1> QED  BY <1>1, <1>2

\* The reference of a block of one statement.
LEMMA LiftedOne ==
  ASSUME ShapesAsDefined, LiftedAsDefined, NEW s, AStmt(s)
  PROVE  LiftedAll(<<s>>) = Lifted(s)
<1>1. <<s>> \o <<>> = <<s>>
  BY OneIsSeq, ConcatGroups
<1>2. Lifted(s) \o <<>> = Lifted(s)
  BY LiftedHas, StmtsAre, ConcatGroups
<1> QED  BY <1>1, <1>2, StmtsJoined, LiftedAllIs

\* A conditional is lowered to what lifting makes of it.
LEMMA LoweredIs ==
  ASSUME ShapesAsDefined, LiftedAsDefined, NEW v, AStmt(v)
  PROVE  LET w == lower_expr(v)
         IN /\ AStmt(w) /\ Lifted(w) = Lifted(v)
            /\ HasValue(w) /\ Value(w).op = "assign" => w = v
<1> DEFINE w == lower_expr(v)
           k == Value(v).kids
           yes == WithValue(v, k[2])
           no == WithValue(v, k[3])
<1>1. CASE ~(HasValue(v) /\ Value(v).op = "cond")
  BY <1>1 DEF lower_expr
<1>2. CASE HasValue(v) /\ Value(v).op = "cond"
  <2>1. w = If(k[1], <<yes>>, <<no>>)
    BY <1>2 DEF lower_expr
  <2>2. HasShape(Value(v)) /\ SomeExprs(k) /\ Uncast(Value(v)) = Value(v)
    BY <1>2, ValueIs, ExprHas, UncastHas
  <2>3. AnExpr(k[1]) /\ AnExpr(k[2]) /\ AnExpr(k[3])
    BY <1>2, <2>2, ShapeHas DEF SomeExprs
  <2>4. AStmt(yes) /\ AStmt(no)
    BY <1>2, <2>3, WithValueIs
  <2>5. Lifted(v) = <<If(k[1], Lifted(yes), Lifted(no))>>
    BY <1>2, <2>2, LiftedValue
  <2> HIDE DEF yes, no, w
  <2>6. SomeStmts(<<yes>>) /\ SomeStmts(<<no>>)
    BY <2>4, StmtsJoined
  <2>7. AStmt(w) /\ ~HasValue(w)
    BY <2>1, <2>3, <2>6, IfIs
  <2>8. LiftedAll(<<yes>>) = Lifted(yes) /\ LiftedAll(<<no>>) = Lifted(no)
    BY <2>4, LiftedOne
  <2>9. w.op = "if" /\ w.cond = k[1] /\ w.yes = <<yes>> /\ w.no = <<no>>
    BY <2>1 DEF If
  <2>10. Lifted(w) = <<If(w.cond, LiftedAll(w.yes), LiftedAll(w.no))>>
    BY <2>7, <2>9 DEF LiftedAsDefined, Def_Lifted
  <2>11. Lifted(w) = Lifted(v)
    BY <2>5, <2>8, <2>9, <2>10
  <2> QED  BY <2>7, <2>11 DEF w
<1> QED  BY <1>1, <1>2

\* What the loop makes of the statements T, after the statements P.
Goes(T) ==
  \A n, P : SomeStmts(P) =>
    \E R : /\ SomeStmts(R) /\ SameCode(LiftedAll(T), LiftedAll(R))
           /\ elab_from(n, P \o T, Len(P) + 1).v = P \o R

\* The loop over an empty block is done.
LEMMA GoesNowhere ==
  ASSUME ShapesAsDefined, ComparedAsDefined, LiftedAsDefined, ElaborateAsDefined
  PROVE  Goes(<<>>)
<1> SUFFICES ASSUME NEW n, NEW P, SomeStmts(P)
             PROVE  elab_from(n, P \o <<>>, Len(P) + 1).v = P \o <<>>
  <2>1. SomeStmts(<<>>) /\ SomeStmts(LiftedAll(<<>>))
    BY StmtsJoined, LiftedHas
  <2> QED  BY <2>1, SameCodeItself DEF Goes
<1>1. IsSeq(P) /\ Len(P) \in Nat
  BY StmtsAre, SeqHas
<1>2. P \o <<>> = P
  BY <1>1, ConcatGroups
<1>3. Len(P) + 1 \in 1 .. Len(P) + 1 /\ Len(P) + 1 > Len(P)
  BY <1>1
<1>4. elab_from(n, P, Len(P) + 1) = Plainly(P)
  BY <1>3 DEF ElaborateAsDefined, Def_elab_from
<1> QED  BY <1>2, <1>4, ResultIs

\* One turn of the loop: the statement that is next is elaborated, what it lowers
\* to takes its place, and the loop goes on behind it, or at it.
LEMMA TurnIs ==
  ASSUME ShapesAsDefined, ComparedAsDefined, ElaborateAsDefined, NEW n, NEW P, NEW h, NEW t,
         SomeStmts(P), AStmt(h), SomeStmts(t),
         \A b \in DOMAIN Blocks(h) : BlockElaborates(Blocks(h)[b])
  PROVE  \E v, m : /\ AStmt(v) /\ Rebuilds(h, v)
                   /\ LET l == lower_assign_expr(lower_expr(v))
                      IN elab_from(n, P \o (<<h>> \o t), Len(P) + 1).v
                           = IF Len(l) > 1 THEN elab_from(n, P \o l \o t, Len(P) + 1).v
                             ELSE elab_from(m, P \o l \o t, Len(P) + 1 + 1).v
<1> DEFINE s == P \o (<<h>> \o t)
           k == Len(P) + 1
<1>1. IsSeq(P) /\ IsSeq(t)
  BY StmtsAre
<1>2. SomeStmts(s)
  BY StmtsJoined
<1>3. /\ k \in 1 .. Len(s) /\ Len(s) \in Nat /\ s[k] = h
      /\ SubSeq(s, 1, k - 1) = P /\ SubSeq(s, k + 1, Len(s)) = t
  <2>1. Len(s) \in Nat
    BY <1>2, StmtsAre, SeqHas
  <2>2. /\ k \in 1 .. Len(s) /\ s[k] = h
        /\ SubSeq(s, 1, k - 1) = P /\ SubSeq(s, k + 1, Len(s)) = t
    <3>1. s = Placed(P, h, t) /\ k = Len(P) + 1
      BY DEF Placed
    <3> HIDE DEF s, k
    <3> QED  BY SMTT(30), <1>1, <3>1, SplitAt
  <2> QED  BY <2>1, <2>2
<1> HIDE DEF s, k
<1>4. PICK h2 : /\ refine_decl_pointer_kind(n, s, k) = h2 /\ AStmt(h2) /\ h2.op = h.op
                /\ StmtName(h2) = StmtName(h) /\ Exprs(h2) = Exprs(h)
                /\ StmtCode(h2) = StmtCode(h) /\ Blocks(h2) = Blocks(h)
  BY <1>3, RefinedIs
<1> DEFINE r == elab_stmt(n, h2)
           v == r.v
           l == lower_assign_expr(lower_expr(v))
           after == P \o l \o t
           m == PushStmt(n, l[1])
<1>5. AStmt(v) /\ Rebuilds(h2, v)
  <2>1. \A b \in DOMAIN Blocks(h2) : BlockElaborates(Blocks(h2)[b])
    BY <1>4, Zenon
  <2>2. AStmt(elab_stmt(n, h2).v) /\ Rebuilds(h2, elab_stmt(n, h2).v)
    BY <1>4, <2>1, ElabStmt
  <2> QED  BY <2>2
<1>6. Rebuilds(h, v)
  BY <1>4, <1>5 DEF Rebuilds
<1>7. elab_from(n, s, k) = elab_at(n, s, k, r)
  <2>1. k \in 1 .. Len(s) + 1 /\ ~(k > Len(s))
    BY <1>3
  <2>2. elab_from(n, s, k) = Def_elab_from(n, s, k)
    BY <1>2, <2>1 DEF ElaborateAsDefined
  <2> QED  BY <1>4, <2>1, <2>2 DEF Def_elab_from
<1> HIDE DEF r
<1>8. elab_at(n, s, k, r) = GoOn(n, s, k, l, r.reports)
  BY DEF elab_at
<1> HIDE DEF l
<1>9. GoOn(n, s, k, l, r.reports)
        = WithReports(IF Len(l) > 1 THEN elab_from(n, after, k) ELSE elab_from(m, after, k + 1),
                      r.reports)
  BY <1>3 DEF GoOn
<1> HIDE DEF after, m
<1>10. elab_from(n, s, k).v = IF Len(l) > 1 THEN elab_from(n, after, k).v
                              ELSE elab_from(m, after, k + 1).v
  BY <1>7, <1>8, <1>9 DEF WithReports, Result
<1> QED  BY <1>5, <1>6, <1>10 DEF s, k, l, after, v

\* After a statement, the loop goes on with the rest, what was lifted out included.
LEMMA GoesOn ==
  ASSUME ShapesAsDefined, ComparedAsDefined, LiftedAsDefined, ElaborateAsDefined,
         NEW h, NEW t, AStmt(h), SomeStmts(t), Goes(t),
         \A b \in DOMAIN Blocks(h) : BlockElaborates(Blocks(h)[b]),
         \A v : AStmt(v) /\ Rebuilds(h, v) /\ HasValue(v) /\ Value(v).op = "assign" =>
           LET k == Value(v).kids
           IN Goes(<<Assign(k[1], k[2])>> \o (<<WithValue(v, k[1])>> \o t))
  PROVE  Goes(<<h>> \o t)
<1> DEFINE T == <<h>> \o t
<1> SUFFICES ASSUME NEW n, NEW P, SomeStmts(P)
             PROVE  \E R : /\ SomeStmts(R) /\ SameCode(LiftedAll(T), LiftedAll(R))
                           /\ elab_from(n, P \o T, Len(P) + 1).v = P \o R
  BY DEF Goes
<1>1. PICK v, m : /\ AStmt(v) /\ Rebuilds(h, v)
                  /\ LET l == lower_assign_expr(lower_expr(v))
                     IN elab_from(n, P \o T, Len(P) + 1).v
                          = IF Len(l) > 1 THEN elab_from(n, P \o l \o t, Len(P) + 1).v
                            ELSE elab_from(m, P \o l \o t, Len(P) + 1 + 1).v
  BY TurnIs
<1> DEFINE w == lower_expr(v)
           end == elab_from(n, P \o T, Len(P) + 1).v
<1>2. /\ AStmt(w) /\ Lifted(w) = Lifted(v)
      /\ HasValue(w) /\ Value(w).op = "assign" => w = v
  BY <1>1, LoweredIs
<1>3. SameCode(Lifted(h), Lifted(v))
  BY <1>1, LiftedSame
<1>4. LiftedAll(T) = Lifted(h) \o LiftedAll(t)
  BY LiftedAllIs
<1>5. /\ IsSeq(P) /\ Len(P) \in Nat /\ IsSeq(t)
      /\ SomeStmts(LiftedAll(t)) /\ IsSeq(LiftedAll(t))
      /\ SomeStmts(Lifted(h)) /\ IsSeq(Lifted(h)) /\ SomeStmts(Lifted(v)) /\ IsSeq(Lifted(v))
  BY <1>1, StmtsAre, SeqHas, LiftedHas
<1>6. CASE HasValue(w) /\ Value(w).op = "assign"
  <2> DEFINE k == Value(v).kids
             a == Assign(k[1], k[2])
             x == WithValue(v, k[1])
             rest == <<a>> \o (<<x>> \o t)
  <2>1. w = v /\ HasValue(v) /\ Value(v).op = "assign"
    BY <1>2, <1>6
  <2>2. lower_assign_expr(w) = <<a, x>>
    BY <2>1 DEF lower_assign_expr
  <2>3. Uncast(Value(v)) = Value(v) /\ AnExpr(k[1]) /\ AnExpr(k[2])
    <3>1. AnExpr(Value(v))
      BY <1>1, <2>1, ValueIs
    <3>2. HasShape(Value(v)) /\ SomeExprs(k)
      BY <3>1, ExprHas
    <3> QED  BY <2>1, <3>1, <3>2, ShapeHas, UncastHas DEF SomeExprs, Binary
  <2>4. AStmt(a) /\ AStmt(x) /\ Lifted(v) = Lifted(a) \o Lifted(x)
    BY <1>1, <2>1, <2>3, AssignIs, WithValueIs, LiftedValue
  <2>5. Goes(rest)
    BY <1>1, <2>1
  <2> HIDE DEF a, x, k
  <2>6. Len(<<a, x>>) > 1 /\ <<a, x>> = <<a>> \o <<x>>
    <3>1. <<a>> \o <<x>> = <<a, x>>
      BY Joined
    <3>2. Len(<<a, x>>) = 2
      BY TwoIsSeq
    <3> DEFINE two == <<a, x>>
    <3> HIDE DEF two
    <3>3. Len(two) > 1
      BY <3>2 DEF two
    <3> QED  BY <3>1, <3>3 DEF two
  <2>7. end = elab_from(n, P \o <<a, x>> \o t, Len(P) + 1).v
    BY <1>1, <2>2, <2>6
  <2>8. P \o <<a, x>> \o t = P \o rest
    <3>1. IsSeq(<<a>>) /\ IsSeq(<<x>>) /\ IsSeq(<<a, x>>)
      BY OneIsSeq, TwoIsSeq
    <3>2. P \o <<a, x>> \o t = P \o (<<a, x>> \o t)
      BY SMTT(30), <1>5, <3>1, ConcatGroups
    <3>3. <<a, x>> \o t = rest
      BY <1>5, <2>6, <3>1, ConcatGroups
    <3> QED  BY <3>2, <3>3
  <2>9. PICK R : /\ SomeStmts(R) /\ SameCode(LiftedAll(rest), LiftedAll(R))
                 /\ elab_from(n, P \o rest, Len(P) + 1).v = P \o R
    <3> HIDE DEF rest
    <3> QED  BY <2>5 DEF Goes
  <2>10. LiftedAll(rest) = Lifted(v) \o LiftedAll(t)
    <3> DEFINE y == <<x>> \o t
    <3>1. SomeStmts(y) /\ LiftedAll(y) = Lifted(x) \o LiftedAll(t)
      BY <2>4, StmtsJoined, LiftedAllIs
    <3> HIDE DEF y
    <3>2. LiftedAll(<<a>> \o y) = Lifted(a) \o LiftedAll(y)
      BY <2>4, <3>1, LiftedAllIs
    <3>3. IsSeq(Lifted(a)) /\ IsSeq(Lifted(x))
      BY <2>4, LiftedHas, StmtsAre
    <3>4. Lifted(a) \o (Lifted(x) \o LiftedAll(t)) = (Lifted(a) \o Lifted(x)) \o LiftedAll(t)
      <4> DEFINE p == Lifted(a)
                 q == Lifted(x)
                 u == LiftedAll(t)
      <4> HIDE DEF p, q, u
      <4>1. IsSeq(p) /\ IsSeq(q) /\ IsSeq(u)
        BY <1>5, <3>3 DEF p, q, u
      <4>2. p \o (q \o u) = (p \o q) \o u
        BY <4>1, ConcatGroups
      <4> QED  BY <4>2 DEF p, q, u
    <3> QED  BY <2>4, <3>1, <3>2, <3>4 DEF y
  <2>11. SameCode(LiftedAll(T), LiftedAll(rest))
    <3>1. SameCode(LiftedAll(t), LiftedAll(t))
      BY <1>5, SameCodeItself
    <3> QED  BY <1>3, <1>4, <1>5, <2>10, <3>1, SameCodeJoined
  <2>12. SomeStmts(LiftedAll(T)) /\ SomeStmts(LiftedAll(rest)) /\ SomeStmts(LiftedAll(R))
    BY <1>4, <1>5, <2>9, <2>10, StmtsJoined, LiftedHas
  <2>13. SameCode(LiftedAll(T), LiftedAll(R))
    BY <2>9, <2>11, <2>12, SameCodeThrough
  <2> QED  BY <2>7, <2>8, <2>9, <2>13
<1>7. CASE ~(HasValue(w) /\ Value(w).op = "assign")
  <2>1. lower_assign_expr(w) = <<w>>
    BY <1>7 DEF lower_assign_expr
  <2> DEFINE P2 == P \o <<w>>
  <2>2. Len(<<w>>) = 1 /\ IsSeq(<<w>>)
    BY OneIsSeq
  <2>3. end = elab_from(m, P2 \o t, Len(P) + 1 + 1).v
    BY <1>1, <2>1, <2>2
  <2>4. SomeStmts(<<w>>)
    BY <1>2, StmtsJoined
  <2> HIDE DEF w, end
  <2>5. SomeStmts(P2) /\ Len(P2) = Len(P) + 1
    BY <1>5, <2>2, <2>4, StmtsJoined, ConcatHas
  <2> HIDE DEF P2
  <2>6. PICK R : /\ SomeStmts(R) /\ SameCode(LiftedAll(t), LiftedAll(R))
                 /\ elab_from(m, P2 \o t, Len(P2) + 1).v = P2 \o R
    BY <2>5 DEF Goes
  <2>7. IsSeq(R) /\ SomeStmts(LiftedAll(R)) /\ IsSeq(LiftedAll(R))
    BY <2>6, StmtsAre, LiftedHas
  <2> DEFINE all == <<w>> \o R
  <2>8. P2 \o R = P \o all /\ SomeStmts(all)
    BY SMTT(30), <1>5, <2>2, <2>4, <2>6, <2>7, ConcatGroups, StmtsJoined DEF P2
  <2>9. LiftedAll(all) = Lifted(v) \o LiftedAll(R)
    BY <1>2, <2>6, LiftedAllIs
  <2>10. SameCode(LiftedAll(T), LiftedAll(all))
    BY <1>3, <1>4, <1>5, <2>6, <2>7, <2>9, SameCodeJoined
  <2> QED  BY <2>3, <2>5, <2>6, <2>8, <2>10 DEF end
<1> QED  BY <1>6, <1>7

\* However deep assignments are nested in it, the loop gets past a statement.
LEMMA GoesPast ==
  ASSUME ShapesAsDefined, ComparedAsDefined, LiftedAsDefined, ElaborateAsDefined
  PROVE  \A h, t : AStmt(h) /\ HasValue(h) /\ SomeStmts(t) /\ Goes(t) => Goes(<<h>> \o t)
<1> DEFINE Ready(d, o, h, t) == /\ IsExpr(d, o) /\ AnExpr(o) /\ Matches(o, Value(h))
                                /\ AStmt(h) /\ HasValue(h) /\ SomeStmts(t) /\ Goes(t)
           T == {d \in Nat : \A o, h, t : Ready(d, o, h, t) => Goes(<<h>> \o t)}
<1>1. ASSUME NEW d \in Nat, \A c \in Nat : c < d => c \in T
      PROVE  d \in T
  <2> SUFFICES ASSUME NEW o, NEW h, NEW t, Ready(d, o, h, t) PROVE Goes(<<h>> \o t)
    OBVIOUS
  <2>1. ASSUME NEW q, IsExpr(d - 1, q), d - 1 \in Nat,
               NEW x, NEW y, AStmt(x), HasValue(x), SomeStmts(y), Goes(y), Matches(q, Value(x))
        PROVE  Goes(<<x>> \o y)
    <3> HIDE DEF T
    <3>1. d - 1 \in T /\ AnExpr(q)
      BY <1>1, <2>1 DEF AnExpr
    <3> QED  BY <2>1, <3>1 DEF T
  <2> HIDE DEF T
  <2>2. d - 1 \in Nat /\ HasShape(o) /\ \A k \in DOMAIN o.kids : IsExpr(d - 1, o.kids[k])
    BY DEF ShapesAsDefined, Def_IsExpr
  <2>3. ASSUME NEW v, AStmt(v), Rebuilds(h, v), HasValue(v), Value(v).op = "assign"
        PROVE  LET k == Value(v).kids
               IN Goes(<<Assign(k[1], k[2])>> \o (<<WithValue(v, k[1])>> \o t))
    <3> DEFINE e == Value(v)
               k == e.kids
               a == Assign(k[1], k[2])
               x == WithValue(v, k[1])
    <3>1. SameStmt(h, v)
      BY <2>3, ValueIs, EmptyIsSeq DEF Rebuilds, SameStmt
    <3>2. Matches(Value(h), e) /\ AnExpr(Value(h)) /\ AnExpr(e)
      BY <2>3, <3>1, SameValue, ValueIs DEF Rebuilds
    <3>3. Matches(o, e)
      BY <3>2, MatchesTransitive
    <3>4. IsSameAs(o, e)
      BY <2>3, <3>3, MatchesIs DEF IsAttributeOf
    <3>5. HasShape(e) /\ SomeExprs(k)
      BY <3>2, ExprHas
    <3> HIDE DEF e, k
    <3>6. o.op = "assign" /\ \A n \in DOMAIN o.kids : Matches(o.kids[n], k[n])
      BY <2>3, <3>4 DEF IsSameAs, e, k
    <3>7. DOMAIN o.kids = 1 .. 2 /\ DOMAIN k = 1 .. 2
      BY <2>2, <2>3, <3>5, <3>6, ShapeHas DEF Binary, e, k
    <3>8. /\ Matches(o.kids[1], k[1]) /\ Matches(o.kids[2], k[2]) /\ AnExpr(k[1]) /\ AnExpr(k[2])
          /\ IsExpr(d - 1, o.kids[1]) /\ IsExpr(d - 1, o.kids[2])
      BY <2>2, <3>5, <3>6, <3>7 DEF SomeExprs
    <3>9. AStmt(a) /\ HasValue(a) /\ Value(a) = k[2]
      BY <3>8, AssignIs
    <3>10. AStmt(x) /\ HasValue(x) /\ Value(x) = k[1]
      BY <2>3, <3>8, WithValueIs
    <3> HIDE DEF a, x
    <3> DEFINE y == <<x>> \o t
    <3>11. SomeStmts(y) /\ Goes(y)
      BY <2>1, <2>2, <3>8, <3>10, StmtsJoined
    <3> HIDE DEF y
    <3>12. Goes(<<a>> \o y)
      BY <2>1, <2>2, <3>8, <3>9, <3>11
    <3> QED  BY <3>12 DEF a, x, y, k, e
  <2>4. \A b \in DOMAIN Blocks(h) : BlockElaborates(Blocks(h)[b])
    BY ValueIs, EmptyIsSeq
  <2> QED  BY <2>3, <2>4, GoesOn
<1> HIDE DEF T
<1>2. Nat \subseteq T
  BY <1>1, EveryNumberAtOnce
<1>3. ASSUME NEW h, NEW t, AStmt(h), HasValue(h), SomeStmts(t), Goes(t)
      PROVE  Goes(<<h>> \o t)
  <2>1. AnExpr(Value(h)) /\ Matches(Value(h), Value(h))
    BY <1>3, ValueIs, MatchesItself
  <2>2. PICK d \in Nat : IsExpr(d, Value(h))
    BY <2>1 DEF AnExpr
  <2>3. d \in T
    BY <1>2
  <2> QED  BY <1>3, <2>1, <2>2, <2>3 DEF T
<1> QED  BY <1>3

\* Every block is elaborated to statements that do the same.
LEMMA ElabBlocks ==
  ASSUME ShapesAsDefined, ComparedAsDefined, LiftedAsDefined, ElaborateAsDefined
  PROVE  \A stmts : SomeStmts(stmts) => BlockElaborates(stmts)
<1>1. ASSUME NEW stmts, SomeStmts(stmts), Goes(stmts) PROVE BlockElaborates(stmts)
  <2> SUFFICES ASSUME NEW n
               PROVE  LET new == elab_stmts(n, stmts).v
                      IN SomeStmts(new) /\ SameCode(LiftedAll(stmts), LiftedAll(new))
    BY DEF BlockElaborates
  <2>1. elab_stmts(n, stmts) = elab_from(n, stmts, 1)
    BY <1>1, PiecesAre DEF NewStmts
  <2>2. IsSeq(stmts) /\ <<>> \o stmts = stmts /\ Len(<<>>) + 1 = 1 /\ SomeStmts(<<>>)
    BY <1>1, StmtsAre, StmtsJoined, ConcatGroups, EmptyIsSeq
  <2>3. PICK R : /\ SomeStmts(R) /\ SameCode(LiftedAll(stmts), LiftedAll(R))
                 /\ elab_from(n, <<>> \o stmts, Len(<<>>) + 1).v = <<>> \o R
    BY <1>1, <2>2 DEF Goes
  <2>4. <<>> \o R = R
    BY <2>3, StmtsAre, ConcatGroups
  <2>5. elab_stmts(n, stmts).v = R
    BY <2>1, <2>2, <2>3, <2>4
  <2> QED  BY <2>3, <2>5
<1> DEFINE Deeply(n) == \A stmts : IsStmts(n, stmts) => Goes(stmts)
           T == {n \in Nat : Deeply(n)}
<1>2. ASSUME NEW n \in Nat, \A m \in Nat : m < n => m \in T
      PROVE  n \in T
  <2> DEFINE L == {l \in Nat : \A stmts : IsStmts(n, stmts) /\ Len(stmts) = l => Goes(stmts)}
  <2>1. ASSUME NEW l \in Nat, \A k \in Nat : k < l => k \in L PROVE l \in L
    <3> SUFFICES ASSUME NEW stmts, IsStmts(n, stmts), Len(stmts) = l
                 PROVE  Goes(stmts)
      OBVIOUS
    <3>1. SomeStmts(stmts)
      BY DEF SomeStmts
    <3>2. CASE stmts = <<>>
      BY <3>2, GoesNowhere
    <3>3. CASE stmts # <<>>
      <4> DEFINE h == Head(stmts)
                 t == Tail(stmts)
      <4>1. /\ stmts = <<h>> \o t /\ AStmt(h) /\ SomeStmts(t) /\ Len(t) = l - 1 /\ l \in Nat \ {0}
            /\ IsStmts(n, t) /\ n - 1 \in Nat /\ n - 1 < n /\ IsStmt(n - 1, h)
        BY <3>1, <3>3, SplitFirst
      <4> HIDE DEF h, t
      <4>2. l - 1 \in Nat /\ l - 1 < l
        BY <4>1
      <4>3. Goes(t)
        BY <2>1, <4>1, <4>2
      <4>4. Deeply(n - 1)
        BY <1>2, <4>1
      <4>5. \A b \in DOMAIN Blocks(h) : BlockElaborates(Blocks(h)[b])
        <5> SUFFICES ASSUME NEW b \in DOMAIN Blocks(h) PROVE BlockElaborates(Blocks(h)[b])
          OBVIOUS
        <5>1. IsStmts(n - 1, Blocks(h)[b])
          BY <4>1 DEF IsStmt
        <5>2. Goes(Blocks(h)[b])
          BY <4>4, <5>1
        <5>3. SomeStmts(Blocks(h)[b])
          BY <4>1, <5>1 DEF SomeStmts
        <5> QED  BY <1>1, <5>2, <5>3
      <4>6. CASE HasValue(h)
        BY <4>1, <4>3, <4>6, GoesPast
      <4>7. CASE ~HasValue(h)
        <5>1. \A v : AStmt(v) /\ Rebuilds(h, v) => ~HasValue(v)
          BY <4>1, <4>7, LiftedSame
        <5> QED  BY <4>1, <4>3, <4>5, <5>1, GoesOn
      <4> QED  BY <4>6, <4>7
    <3> QED  BY <3>2, <3>3
  <2> HIDE DEF L
  <2>2. Nat \subseteq L
    BY <2>1, EveryNumberAtOnce
  <2>3. ASSUME NEW stmts, IsStmts(n, stmts) PROVE Goes(stmts)
    <3>1. Len(stmts) \in Nat
      BY <2>3, StmtsAre, SeqHas DEF SomeStmts
    <3> QED  BY <2>2, <2>3, <3>1 DEF L
  <2> QED  BY <2>3
<1> HIDE DEF T
<1>3. Nat \subseteq T
  BY <1>2, EveryNumberAtOnce
<1>4. \A n \in Nat : Deeply(n)
  BY <1>3 DEF T
<1> QED  BY <1>1, <1>4 DEF SomeStmts
-----------------------------------------------------------------------------
\* Declarations: the parts that elaboration goes into, and what it keeps of them.
CodeShape(d) ==
  /\ IsFn(d) => /\ {"op", "requires", "ensures", "decreases", "body"} \subseteq DOMAIN d
                /\ IsSeq(d.requires) /\ IsSeq(d.ensures) /\ IsSeq(d.decreases)
  /\ d.op = "let" => /\ {"op", "requires", "ensures", "body"} \subseteq DOMAIN d
                     /\ IsSeq(d.requires) /\ IsSeq(d.ensures)
  /\ d.op \in {"struct_defn", "union_defn"} => "op" \in DOMAIN d
  /\ d.op \in {"include", "opaque"} => {"op", "code"} \subseteq DOMAIN d
  /\ d.op = "global" => {"op", "init"} \subseteq DOMAIN d
HasCode(d) ==
  CodeShape(d) /\ SomeExprs(DeclExprs(d)) /\ SomeCode(DeclCode(d)) /\ SomeStmts(Body(d))
Keeps(o, d) ==
  /\ o.op = d.op
  /\ MatchesAll(DeclExprs(o), DeclExprs(d)) /\ MatchesCode(DeclCode(o), DeclCode(d))
  /\ SameCode(LiftedAll(Body(o)), LiftedAll(Body(d)))

\* A declaration of the input has expressions, code and blocks of the known shapes.
LEMMA DeclHasCode ==
  ASSUME ShapesAsDefined, NEW n \in Nat, NEW d, IsDecl(n, d)
  PROVE  HasCode(d)
<1>1. DeclShape(n, d) /\ IsExprs(n, DeclExprs(d)) /\ IsCode(n, DeclCode(d)) /\ IsStmts(n, Body(d))
  BY DEF IsDecl
<1>2. SomeExprs(DeclExprs(d)) /\ SomeCode(DeclCode(d)) /\ SomeStmts(Body(d))
  BY <1>1, CodeIs DEF IsExprs, SomeExprs, AnExpr, SomeStmts
<1>3. CASE IsFn(d)
  BY <1>1, <1>2, <1>3 DEF HasCode, CodeShape, DeclShape, IsFn
<1>4. CASE d.op = "let"
  BY <1>1, <1>2, <1>4 DEF HasCode, CodeShape, DeclShape, IsFn
<1>5. CASE d.op \in {"struct_defn", "union_defn", "global"}
  BY <1>1, <1>2, <1>5 DEF HasCode, CodeShape, DeclShape, IsFn
<1>6. CASE d.op \in {"include", "opaque"}
  <2>1. d = Include(d.code) \/ d = OpaqueType(d.name, d.code)
    BY <1>1, <1>6 DEF DeclShape, IsFn
  <2>2. {"op", "code"} \subseteq DOMAIN d
    BY <2>1 DEF Include, OpaqueType
  <2> QED  BY <1>2, <1>6, <2>2 DEF HasCode, CodeShape, IsFn
<1>7. CASE d.op \notin {"fn_decl", "fn_defn", "let", "struct_defn", "union_defn", "global",
                        "include", "opaque"}
  BY <1>2, <1>7 DEF HasCode, CodeShape, IsFn
<1> QED  BY <1>3, <1>4, <1>5, <1>6, <1>7 DEF IsFn

\* A declaration keeps the code of itself.
LEMMA KeepsItself ==
  ASSUME ShapesAsDefined, ComparedAsDefined, LiftedAsDefined, NEW d, HasCode(d)
  PROVE  Keeps(d, d)
<1>1. SomeStmts(LiftedAll(Body(d)))
  BY LiftedHas DEF HasCode
<1> QED  BY <1>1, PartsMatchThemselves, SameCodeItself DEF HasCode, Keeps

\* Keeping the code composes over the declarations.
LEMMA KeepsThrough ==
  ASSUME ShapesAsDefined, ComparedAsDefined, LiftedAsDefined,
         NEW a, NEW b, NEW c, HasCode(a), HasCode(b), HasCode(c), Keeps(a, b), Keeps(b, c)
  PROVE  Keeps(a, c)
<1>1. /\ SomeStmts(LiftedAll(Body(a))) /\ SomeStmts(LiftedAll(Body(b)))
      /\ SomeStmts(LiftedAll(Body(c)))
  BY LiftedHas DEF HasCode
<1>2. SameCode(LiftedAll(Body(a)), LiftedAll(Body(c)))
  BY <1>1, SameCodeThrough DEF Keeps
<1>3. MatchesAll(DeclExprs(a), DeclExprs(c)) /\ MatchesCode(DeclCode(a), DeclCode(c))
  BY PartsMatchThrough DEF Keeps, HasCode
<1> QED  BY <1>2, <1>3 DEF Keeps

\* The three clauses of a function, taken from their list.
LEMMA ThreeParts ==
  ASSUME NEW a, NEW b, NEW c, IsSeq(a), IsSeq(b), IsSeq(c), SomeExprs(a \o b \o c)
  PROVE  SomeExprs(a) /\ SomeExprs(b) /\ SomeExprs(c)
<1> DEFINE p == a \o b
<1>1. IsSeq(p) /\ SomeExprs(p \o c)
  BY ConcatHas
<1>2. SomeExprs(p) /\ SomeExprs(c)
  <2> HIDE DEF p
  <2> QED  BY <1>1, PartsOfExprs
<1> QED  BY <1>2, PartsOfExprs

\* The three clauses of a function, elaborated each, as one list.
LEMMA ThreeSame ==
  ASSUME NEW a, NEW b, NEW c, SomeExprs(a), SomeExprs(b), SomeExprs(c),
         NEW x, NEW y, NEW z, SameExprs(a, x), SameExprs(b, y), SameExprs(c, z)
  PROVE  SameExprs(a \o b \o c, x \o y \o z)
<1> DEFINE p == a \o b
           q == x \o y
<1>1. SomeExprs(p) /\ SameExprs(p, q)
  BY SameExprsJoined
<1> HIDE DEF p, q
<1>2. SameExprs(p \o c, q \o z)
  BY <1>1, SameExprsJoined
<1> QED  BY <1>2 DEF p, q

\* The head of a function is elaborated and its body left.
LEMMA FnDeclKeeps ==
  ASSUME ShapesAsDefined, ComparedAsDefined, LiftedAsDefined, ElaborateAsDefined,
         NEW n, NEW d, IsFn(d), HasCode(d)
  PROVE  LET v == elab_fn_decl(n, d).v
         IN HasCode(v) /\ Keeps(d, v) /\ v.body = d.body
<1> DEFINE v == elab_fn_decl(n, d).v
<1> DEFINE ghosts == elab_args(n, d.ghosts)
           ghostEnv == PushArgs(n, ghosts.v, "rvalue")
           args == elab_args(ghostEnv, d.args)
           argEnv == PushArgs(ghostEnv, args.v, "rvalue")
           ret == elab_type(argEnv, d.ret)
           retEnv == PushReturn(argEnv, ret.v)
           req == elab_slprops(argEnv, d.requires).v
           ens == elab_slprops(retEnv, d.ensures).v
           dec == elab_rvalues(retEnv, d.decreases, None).v
<1>1. v = [d EXCEPT !.ghosts = ghosts.v, !.args = args.v, !.requires = req, !.ret = ret.v,
                    !.ensures = ens, !.decreases = dec]
  <2>1. elab_fn_decl(n, d) = NewFnDecl(n, d)
    BY PiecesAre
  <2>2. \E reports : NewFnDecl(n, d)
          = Result([d EXCEPT !.ghosts = ghosts.v, !.args = args.v, !.requires = req,
                             !.ret = ret.v, !.ensures = ens, !.decreases = dec], reports)
    BY Zenon DEF NewFnDecl
  <2> HIDE DEF ghosts, args, ret, req, ens, dec
  <2> QED  BY <2>1, <2>2, ResultIs
<1>2. /\ {"op", "requires", "ensures", "decreases", "body"} \subseteq DOMAIN d
      /\ IsSeq(d.requires) /\ IsSeq(d.ensures) /\ IsSeq(d.decreases)
      /\ DeclExprs(d) = d.requires \o d.ensures \o d.decreases
      /\ SomeExprs(DeclExprs(d)) /\ SomeCode(DeclCode(d)) /\ SomeStmts(Body(d))
  <2>1. CodeShape(d) /\ SomeExprs(DeclExprs(d)) /\ SomeCode(DeclCode(d)) /\ SomeStmts(Body(d))
    BY DEF HasCode
  <2>2. DeclExprs(d) = d.requires \o d.ensures \o d.decreases
    BY DEF DeclExprs, IsFn
  <2> QED  BY <2>1, <2>2 DEF CodeShape
<1>3. SomeExprs(d.requires) /\ SomeExprs(d.ensures) /\ SomeExprs(d.decreases)
  BY <1>2, ThreeParts
<1>4. SameExprs(d.requires, req) /\ SameExprs(d.ensures, ens) /\ SameExprs(d.decreases, dec)
  BY <1>3, ElabParts
<1> HIDE DEF ghosts, args, ret, req, ens, dec
<1>5. /\ v.op = d.op /\ v.requires = req /\ v.ensures = ens /\ v.decreases = dec
      /\ v.body = d.body /\ DOMAIN v = DOMAIN d
  BY <1>1, <1>2
<1> HIDE DEF v
<1>6. /\ DeclExprs(v) = req \o ens \o dec /\ DeclCode(v) = <<>> /\ DeclCode(d) = <<>>
      /\ Body(v) = Body(d)
  BY <1>5 DEF DeclExprs, DeclCode, Body, IsFn
<1>7. SameExprs(DeclExprs(d), DeclExprs(v))
  BY <1>2, <1>3, <1>4, <1>6, ThreeSame
<1>8. CodeShape(v)
  BY <1>2, <1>4, <1>5 DEF CodeShape, SameExprs, SomeExprs, IsFn
<1>9. HasCode(v)
  BY <1>2, <1>6, <1>7, <1>8 DEF HasCode, SameExprs
<1>10. SomeStmts(LiftedAll(Body(d)))
  BY <1>2, LiftedHas
<1>11. SameCode(LiftedAll(Body(d)), LiftedAll(Body(v))) /\ MatchesCode(DeclCode(d), DeclCode(v))
  BY <1>2, <1>6, <1>10, SameCodeItself, PartsMatchThemselves
<1>12. Keeps(d, v)
  BY <1>5, <1>7, <1>11 DEF Keeps, SameExprs
<1> QED  BY <1>5, <1>9, <1>12 DEF v

\* What is not a function definition has no statements to keep.
LEMMA KeptWithoutBody ==
  ASSUME ShapesAsDefined, ComparedAsDefined, LiftedAsDefined, NEW d, NEW v, d.op = v.op,
         CodeShape(v), SameExprs(DeclExprs(d), DeclExprs(v)),
         SameText(DeclCode(d), DeclCode(v)) \/ (DeclCode(d) = <<>> /\ DeclCode(v) = <<>>),
         Body(d) = <<>>, Body(v) = <<>>
  PROVE  HasCode(v) /\ Keeps(d, v)
<1>1. SomeStmts(<<>>) /\ SameText(DeclCode(d), DeclCode(v))
  BY StmtsJoined, SameOne
<1>2. SameCode(LiftedAll(<<>>), LiftedAll(<<>>))
  BY <1>1, LiftedHas, SameCodeItself
<1> QED  BY <1>1, <1>2 DEF HasCode, Keeps, SameExprs, SameText

\* elab_decl keeps the code of a _let.
LEMMA LetKeeps ==
  ASSUME ShapesAsDefined, ComparedAsDefined, LiftedAsDefined, ElaborateAsDefined,
         NEW n, NEW d, d.op = "let", HasCode(d)
  PROVE  HasCode(elab_let(n, d).v) /\ Keeps(d, elab_let(n, d).v)
<1> DEFINE v == elab_let(n, d).v
           ret == elab_type(n, d.ret)
           args == elab_fields(n, d.args)
           argEnv == PushArgs(n, args.v, "lvalue")
           req == elab_rvalues(argEnv, d.requires, None).v
           ens == elab_rvalues(argEnv, d.ensures, None).v
           body == elab_rvalue(argEnv, d.body, ret.v).v
<1>1. v = [d EXCEPT !.ret = ret.v, !.args = args.v, !.requires = req, !.ensures = ens,
                    !.body = body]
  <2>1. \E reports : elab_let(n, d)
          = Result([d EXCEPT !.ret = ret.v, !.args = args.v, !.requires = req, !.ensures = ens,
                             !.body = body], reports)
    BY Zenon DEF elab_let
  <2> HIDE DEF args, ret, req, ens, body
  <2> QED  BY <2>1, ResultIs
<1>2. /\ {"op", "requires", "ensures", "body"} \subseteq DOMAIN d
      /\ IsSeq(d.requires) /\ IsSeq(d.ensures)
      /\ DeclExprs(d) = d.requires \o d.ensures \o <<d.body>>
      /\ SomeExprs(DeclExprs(d))
  <2>1. CodeShape(d) /\ SomeExprs(DeclExprs(d))
    BY DEF HasCode
  <2>2. DeclExprs(d) = d.requires \o d.ensures \o <<d.body>>
    BY DEF DeclExprs, IsFn
  <2> QED  BY <2>1, <2>2 DEF CodeShape
<1>3. SomeExprs(d.requires) /\ SomeExprs(d.ensures) /\ SomeExprs(<<d.body>>) /\ AnExpr(d.body)
  <2>1. IsSeq(<<d.body>>)
    BY OneIsSeq
  <2>2. SomeExprs(d.requires) /\ SomeExprs(d.ensures) /\ SomeExprs(<<d.body>>)
    BY <1>2, <2>1, ThreeParts
  <2> QED  BY <2>2, OneIsSeq DEF SomeExprs
<1>4. SameExprs(d.requires, req) /\ SameExprs(d.ensures, ens) /\ SameExprs(<<d.body>>, <<body>>)
  BY <1>3, ElabParts, SameOne
<1> HIDE DEF args, ret, req, ens, body
<1>5. v.op = "let" /\ v.requires = req /\ v.ensures = ens /\ v.body = body /\ DOMAIN v = DOMAIN d
  BY <1>1, <1>2
<1> HIDE DEF v
<1>6. /\ DeclExprs(v) = req \o ens \o <<body>> /\ DeclCode(v) = <<>> /\ DeclCode(d) = <<>>
      /\ Body(v) = <<>> /\ Body(d) = <<>>
  BY <1>5 DEF DeclExprs, DeclCode, Body, IsFn
<1>7. SameExprs(DeclExprs(d), DeclExprs(v))
  BY <1>2, <1>3, <1>4, <1>6, ThreeSame
<1>8. CodeShape(v)
  BY <1>2, <1>4, <1>5 DEF CodeShape, SameExprs, SomeExprs, IsFn
<1> QED  BY <1>5, <1>6, <1>7, <1>8, KeptWithoutBody DEF v

\* elab_decl keeps the code of an include or opaque text.
LEMMA TextKeeps ==
  ASSUME ShapesAsDefined, ComparedAsDefined, LiftedAsDefined, ElaborateAsDefined,
         NEW n, NEW d, d.op \in {"include", "opaque"}, HasCode(d),
         NEW v, v = [d EXCEPT !.code = elab_code(n, d.code).v]
  PROVE  HasCode(v) /\ Keeps(d, v)
<1> DEFINE code == elab_code(n, d.code).v
<1>1. {"op", "code"} \subseteq DOMAIN d /\ SomeCode(d.code) /\ DeclCode(d) = d.code
  BY DEF HasCode, CodeShape, DeclCode
<1>2. SameText(d.code, code)
  BY <1>1, ElabParts
<1> HIDE DEF code
<1>3. v.op = d.op /\ v.code = code /\ DOMAIN v = DOMAIN d
  BY <1>1 DEF code
<1>4. /\ DeclExprs(v) = <<>> /\ DeclExprs(d) = <<>> /\ DeclCode(v) = code
      /\ Body(v) = <<>> /\ Body(d) = <<>>
  BY <1>3 DEF DeclExprs, DeclCode, Body, IsFn
<1>5. CodeShape(v)
  BY <1>1, <1>3 DEF CodeShape, IsFn
<1> QED  BY <1>1, <1>2, <1>3, <1>4, <1>5, SameOne, KeptWithoutBody DEF SameText

\* elab_decl keeps the initializer of a global.
LEMMA GlobalKeeps ==
  ASSUME ShapesAsDefined, ComparedAsDefined, LiftedAsDefined, ElaborateAsDefined,
         NEW n, NEW d, d.op = "global", HasCode(d)
  PROVE  HasCode(elab_global(n, d).v) /\ Keeps(d, elab_global(n, d).v)
<1> DEFINE v == elab_global(n, d).v
           ty == elab_type(n, d.ty)
           init == elab_rvalues(n, d.init, ty.v).v
<1>1. v = [d EXCEPT !.ty = ty.v, !.init = init]
  <2>1. \E reports : elab_global(n, d) = Result([d EXCEPT !.ty = ty.v, !.init = init], reports)
    BY Zenon DEF elab_global
  <2> HIDE DEF ty, init
  <2> QED  BY <2>1, ResultIs
<1>2. {"op", "init"} \subseteq DOMAIN d /\ DeclExprs(d) = d.init /\ SomeExprs(d.init)
  BY DEF HasCode, CodeShape, DeclExprs, IsFn
<1>3. SameExprs(d.init, init)
  BY <1>2, ElabParts
<1> HIDE DEF ty, init
<1>4. v.op = "global" /\ v.init = init /\ DOMAIN v = DOMAIN d
  BY <1>1, <1>2
<1> HIDE DEF v
<1>5. /\ DeclExprs(v) = init /\ DeclCode(v) = <<>> /\ DeclCode(d) = <<>>
      /\ Body(v) = <<>> /\ Body(d) = <<>>
  BY <1>4 DEF DeclExprs, DeclCode, Body, IsFn
<1>6. CodeShape(v)
  BY <1>2, <1>4 DEF CodeShape, IsFn
<1> QED  BY <1>2, <1>3, <1>4, <1>5, <1>6, KeptWithoutBody DEF v

\* Every declaration
LEMMA DeclKeeps ==
  ASSUME ShapesAsDefined, ComparedAsDefined, LiftedAsDefined, ElaborateAsDefined,
         NEW n, NEW d, HasCode(d)
  PROVE  HasCode(elab_decl(n, d).v) /\ Keeps(d, elab_decl(n, d).v)
<1> DEFINE v == elab_decl(n, d).v
<1>0. elab_decl(n, d) = NewDecl(n, d)
  BY PiecesAre
<1>1. CASE d.op = "fn_defn"
  <2> DEFINE head == elab_fn_decl(n, d).v
             m == PushFnBody(n, head)
             body == elab_stmts(m, d.body).v
  <2>1. v = [head EXCEPT !.body = body]
    <3>1. NewDecl(n, d) = elab_fn_defn(n, d)
      BY <1>1 DEF NewDecl
    <3>2. \E reports : elab_fn_defn(n, d) = Result([head EXCEPT !.body = body], reports)
      BY Zenon DEF elab_fn_defn
    <3> HIDE DEF head, body
    <3> QED  BY <1>0, <3>1, <3>2, ResultIs
  <2>2. HasCode(head) /\ Keeps(d, head) /\ head.body = d.body
    BY <1>1, FnDeclKeeps DEF IsFn
  <2>3. head.op = "fn_defn" /\ IsFn(head) /\ SomeStmts(d.body)
    BY <1>1, <2>2 DEF Keeps, IsFn, HasCode, Body
  <2>4. SomeStmts(body) /\ SameCode(LiftedAll(d.body), LiftedAll(body))
    BY <2>3, ElabBlocks DEF BlockElaborates
  <2> HIDE DEF head, body
  <2>5. {"op", "requires", "ensures", "decreases", "body"} \subseteq DOMAIN head
    BY <2>2, <2>3 DEF HasCode, CodeShape
  <2>6. /\ v.op = "fn_defn" /\ v.body = body /\ v.requires = head.requires
        /\ v.ensures = head.ensures /\ v.decreases = head.decreases /\ DOMAIN v = DOMAIN head
    BY <2>1, <2>3, <2>5
  <2> HIDE DEF v
  <2>7. /\ DeclExprs(v) = DeclExprs(head) /\ DeclCode(v) = DeclCode(head)
        /\ Body(v) = body /\ Body(d) = d.body
    BY <1>1, <2>3, <2>6 DEF DeclExprs, DeclCode, Body, IsFn
  <2>8. CodeShape(v)
    BY <2>2, <2>3, <2>5, <2>6 DEF HasCode, CodeShape, IsFn
  <2>9. HasCode(v)
    BY <2>2, <2>4, <2>7, <2>8 DEF HasCode
  <2>10. Keeps(d, v)
    BY <1>1, <2>2, <2>4, <2>6, <2>7 DEF Keeps
  <2> QED  BY <2>9, <2>10 DEF v
<1>2. CASE d.op = "fn_decl"
  <2>1. v = elab_fn_decl(n, d).v
    BY <1>0, <1>2 DEF NewDecl
  <2> HIDE DEF v
  <2> QED  BY <1>2, <2>1, FnDeclKeeps DEF IsFn, v
<1>3. CASE d.op = "let"
  <2>1. v = elab_let(n, d).v
    BY <1>0, <1>3 DEF NewDecl
  <2> QED  BY <1>3, <2>1, LetKeeps
<1>4. CASE d.op = "global"
  <2>1. v = elab_global(n, d).v
    BY <1>0, <1>4 DEF NewDecl
  <2> QED  BY <1>4, <2>1, GlobalKeeps
<1>5. CASE d.op \in {"include", "opaque"}
  <2>1. v = [d EXCEPT !.code = elab_code(n, d.code).v]
    BY <1>0, <1>5, ResultIs DEF NewDecl
  <2> QED  BY <1>5, <2>1, TextKeeps
<1>6. CASE d.op \notin {"fn_decl", "fn_defn", "let", "global", "include", "opaque"}
  <2>1. v.op = d.op /\ ("op" \in DOMAIN d => "op" \in DOMAIN v)
    <3>1. CASE d.op = "typedef"
      <4>1. \E ty : v = Typedef(d.name, ty)
        BY <1>0, <3>1, ResultIs DEF NewDecl
      <4> QED  BY <3>1, <4>1 DEF Typedef
    <3>2. CASE d.op \in {"struct_defn", "union_defn"}
      <4>1. v = [d EXCEPT !.fields = elab_fields(n, d.fields).v]
        BY <1>0, <3>2, ResultIs DEF NewDecl
      <4>2. "op" \in DOMAIN d
        BY <3>2 DEF HasCode, CodeShape
      <4> HIDE DEF v
      <4> QED  BY <4>1, <4>2
    <3>3. CASE d.op \notin {"typedef", "struct_defn", "union_defn"}
      BY <1>0, <1>6, <3>3, ResultIs DEF NewDecl
    <3> QED  BY <3>1, <3>2, <3>3
  <2> HIDE DEF v
  <2>2. /\ DeclExprs(v) = <<>> /\ DeclExprs(d) = <<>> /\ DeclCode(v) = <<>> /\ DeclCode(d) = <<>>
        /\ Body(v) = <<>> /\ Body(d) = <<>>
    BY <1>6, <2>1 DEF DeclExprs, DeclCode, Body, IsFn
  <2>3. CodeShape(v)
    BY <1>6, <2>1 DEF HasCode, CodeShape, IsFn
  <2> QED  BY <2>1, <2>2, <2>3, SameOne, KeptWithoutBody DEF v
<1> QED  BY <1>1, <1>2, <1>3, <1>4, <1>5, <1>6
-----------------------------------------------------------------------------
\* Merging leaves declarations that elaboration can go into.
WithoutAsDefined ==
  \A unit, merged : \A k \in Nat :
    IsSeq(unit) => Without(unit, merged, k) = Def_Without(unit, merged, k)
AllHaveCode(unit) == IsSeq(unit) /\ \A k \in DOMAIN unit : HasCode(unit[k])

\* A prototype with the merged specifications has expressions and code of the known shapes.
LEMMA WithSpecsHasCode ==
  ASSUME ShapesAsDefined, ComparedAsDefined, NEW unit, AllHaveCode(unit),
         NEW merged, merged \subseteq DOMAIN unit, NEW k \in DOMAIN unit
  PROVE  HasCode(WithSpecs(unit, merged, k))
<1> DEFINE v == WithSpecs(unit, merged, k)
           d == unit[k]
           givers == {j \in merged : /\ unit[j].op = "fn_decl" /\ unit[j].name = unit[k].name
                                     /\ HasSpecs(unit[j])}
           first == CHOOSE j \in givers : \A m \in givers : j <= m
           g == unit[first]
<1>1. HasCode(d)
  BY DEF AllHaveCode
<1>2. CASE v = d
  BY <1>1, <1>2
<1>3. CASE v # d
  <2>1. d.op = "fn_defn" /\ givers # {} /\ v = [d EXCEPT !.requires = g.requires, !.ensures = g.ensures]
    BY <1>3 DEF WithSpecs
  <2>2. first \in givers
    <3>1. givers \subseteq Nat
      BY SeqHas DEF AllHaveCode
    <3> HIDE DEF givers
    <3>2. \E j \in givers : \A m \in givers : j <= m
      BY <2>1, <3>1, Least
    <3> QED  BY <3>2
  <2>3. HasCode(g) /\ g.op = "fn_decl"
    BY <2>2 DEF AllHaveCode
  <2> HIDE DEF v, g, d
  <2>4. ASSUME NEW x, HasCode(x), IsFn(x)
        PROVE  /\ {"op", "requires", "ensures", "decreases", "body"} \subseteq DOMAIN x
               /\ IsSeq(x.requires) /\ IsSeq(x.ensures) /\ IsSeq(x.decreases)
               /\ SomeExprs(x.requires) /\ SomeExprs(x.ensures) /\ SomeExprs(x.decreases)
    <3>1. /\ {"op", "requires", "ensures", "decreases", "body"} \subseteq DOMAIN x
          /\ IsSeq(x.requires) /\ IsSeq(x.ensures) /\ IsSeq(x.decreases)
          /\ SomeExprs(DeclExprs(x))
      BY <2>4 DEF HasCode, CodeShape
    <3>2. DeclExprs(x) = x.requires \o x.ensures \o x.decreases
      BY <2>4 DEF DeclExprs, IsFn
    <3> QED  BY <3>1, <3>2, ThreeParts
  <2>5. IsFn(d) /\ IsFn(g)
    BY <2>1, <2>3 DEF IsFn
  <2>6. {"op", "requires", "ensures", "decreases", "body"} \subseteq DOMAIN d
    BY <1>1, <2>4, <2>5
  <2>7. /\ v.op = "fn_defn" /\ v.requires = g.requires /\ v.ensures = g.ensures
        /\ v.decreases = d.decreases /\ v.body = d.body /\ DOMAIN v = DOMAIN d
    BY <2>1, <2>6
  <2>8. SomeExprs(v.requires) /\ SomeExprs(v.ensures) /\ SomeExprs(v.decreases)
    BY <1>1, <2>3, <2>4, <2>5, <2>7
  <2>9. SomeExprs(v.requires \o v.ensures \o v.decreases)
    <3> DEFINE a == v.requires
               b == v.ensures
               c == v.decreases
    <3>1. SameExprs(a, a) /\ SameExprs(b, b) /\ SameExprs(c, c)
      BY <2>8, PartsMatchThemselves DEF SameExprs
    <3> HIDE DEF a, b, c
    <3>2. SameExprs(a \o b \o c, a \o b \o c)
      BY <2>8, <3>1, ThreeSame DEF a, b, c
    <3> QED  BY <3>2 DEF SameExprs, a, b, c
  <2>10. /\ DeclExprs(v) = v.requires \o v.ensures \o v.decreases
         /\ DeclCode(v) = DeclCode(d) /\ Body(v) = Body(d)
    BY <2>1, <2>7 DEF DeclExprs, DeclCode, Body, IsFn
  <2>11. CodeShape(v)
    BY <2>6, <2>7, <2>8 DEF CodeShape, IsFn, SomeExprs
  <2> QED  BY <1>1, <2>9, <2>10, <2>11 DEF HasCode, v
<1> QED  BY <1>2, <1>3

\* What merging leaves are declarations of the unit, some with the contract of another.
FromUnit(unit, merged, new) ==
  IsSeq(new) /\ \A j \in DOMAIN new : \E k \in DOMAIN unit : new[j] = WithSpecs(unit, merged, k)

\* merge gives declarations of the unit, some of them with the specifications of others.
LEMMA MergedIs ==
  ASSUME WithoutAsDefined, NEW unit, IsSeq(unit)
  PROVE  \E merged : merged \subseteq DOMAIN unit /\ FromUnit(unit, merged, merge(unit).unit)
<1> DEFINE mismatches == Mismatches(EnvOf(NewEnv, unit), unit)
           merged == {k \in DOMAIN mismatches : mismatches[k] = {}} \cup StructsDefined(unit)
<1>1. merge(unit).unit = Without(unit, merged, 1)
  BY DEF merge, MergedUnit
<1>2. merged \subseteq DOMAIN unit
  BY DEF Mismatches, Declared, StructsDefined
<1> HIDE DEF mismatches, merged
<1>3. Len(unit) \in Nat /\ DOMAIN unit = 1 .. Len(unit)
  BY SeqHas
<1> DEFINE T == {l \in Nat : \A k \in 1 .. Len(unit) + 1 :
                   Len(unit) + 1 - k = l => FromUnit(unit, merged, Without(unit, merged, k))}
<1>4. 0 \in T
  <2> SUFFICES ASSUME NEW k \in 1 .. Len(unit) + 1, Len(unit) + 1 - k = 0
               PROVE  FromUnit(unit, merged, Without(unit, merged, k))
    OBVIOUS
  <2>1. k \in Nat /\ k > Len(unit)
    BY <1>3
  <2>2. Without(unit, merged, k) = <<>>
    BY <1>3, <2>1 DEF WithoutAsDefined, Def_Without
  <2> QED  BY <2>2, EmptyIsSeq DEF FromUnit
<1>5. ASSUME NEW l \in Nat, l \in T PROVE l + 1 \in T
  <2> SUFFICES ASSUME NEW k \in 1 .. Len(unit) + 1, Len(unit) + 1 - k = l + 1
               PROVE  FromUnit(unit, merged, Without(unit, merged, k))
    OBVIOUS
  <2> DEFINE rest == Without(unit, merged, k + 1)
             one == IF k \in merged THEN <<>> ELSE <<WithSpecs(unit, merged, k)>>
  <2>1. /\ k \in Nat /\ ~(k > Len(unit)) /\ k \in DOMAIN unit
        /\ k + 1 \in 1 .. Len(unit) + 1 /\ Len(unit) + 1 - (k + 1) = l
    BY <1>3
  <2>2. Without(unit, merged, k) = one \o rest
    BY <1>3, <2>1 DEF WithoutAsDefined, Def_Without
  <2>3. FromUnit(unit, merged, rest)
    BY <1>5, <2>1
  <2>4. FromUnit(unit, merged, one)
    BY <2>1, EmptyIsSeq, OneIsSeq DEF FromUnit
  <2> HIDE DEF rest, one
  <2>5. FromUnit(unit, merged, one \o rest)
    <3> DEFINE Good(x) == \E j \in DOMAIN unit : x = WithSpecs(unit, merged, j)
    <3>1. /\ IsSeq(one) /\ \A j \in DOMAIN one : Good(one[j])
          /\ IsSeq(rest) /\ \A j \in DOMAIN rest : Good(rest[j])
      BY <2>3, <2>4 DEF FromUnit
    <3> HIDE DEF Good
    <3>2. /\ Len(one) \in Nat /\ DOMAIN one = 1 .. Len(one)
          /\ Len(rest) \in Nat /\ DOMAIN rest = 1 .. Len(rest)
      BY <3>1, SeqHas
    <3> DEFINE both == one \o rest
    <3>3. /\ IsSeq(both) /\ Len(both) = Len(one) + Len(rest)
          /\ \A j \in 1 .. Len(one) : both[j] = one[j]
          /\ \A j \in 1 .. Len(rest) : both[Len(one) + j] = rest[j]
      BY <3>1, ConcatHas
    <3>4. DOMAIN both = 1 .. Len(one) + Len(rest)
      BY <3>3, SeqHas
    <3> HIDE DEF both
    <3>5. ASSUME NEW j \in DOMAIN both PROVE Good(both[j])
      <4>1. CASE j <= Len(one)
        BY <3>1, <3>2, <3>3, <3>4, <4>1
      <4>2. CASE ~(j <= Len(one))
        <5>1. j - Len(one) \in 1 .. Len(rest) /\ Len(one) + (j - Len(one)) = j
          BY <3>2, <3>4, <4>2
        <5>2. both[j] = rest[j - Len(one)]
          BY <3>3, <5>1
        <5> QED  BY <3>1, <3>2, <5>1, <5>2
      <4> QED  BY <4>1, <4>2
    <3> QED  BY <3>3, <3>5 DEF FromUnit, Good, both
  <2> QED  BY <2>2, <2>5
<1> HIDE DEF T
<1>6. Nat \subseteq T
  BY <1>4, <1>5, EveryNumber
<1>7. Len(unit) \in T /\ 1 \in 1 .. Len(unit) + 1 /\ Len(unit) + 1 - 1 = Len(unit)
  BY <1>3, <1>6
<1> QED  BY <1>1, <1>2, <1>7 DEF T

\* merge gives declarations of the known shapes.
LEMMA MergedHasCode ==
  ASSUME ShapesAsDefined, ComparedAsDefined, WithoutAsDefined, NEW unit, AllHaveCode(unit)
  PROVE  AllHaveCode(merge(unit).unit)
<1>1. PICK merged : merged \subseteq DOMAIN unit /\ FromUnit(unit, merged, merge(unit).unit)
  BY MergedIs DEF AllHaveCode
<1> DEFINE new == merge(unit).unit
<1> HIDE DEF new
<1>2. IsSeq(new) /\ \A j \in DOMAIN new : \E k \in DOMAIN unit : new[j] = WithSpecs(unit, merged, k)
  BY <1>1 DEF FromUnit, new
<1>3. \A k \in DOMAIN unit : HasCode(WithSpecs(unit, merged, k))
  BY <1>1, WithSpecsHasCode
<1> QED  BY <1>2, <1>3 DEF AllHaveCode, new
-----------------------------------------------------------------------------
\* The recursive functions the invariant CodeIsKept is about, as defined
AsDefined ==
  /\ ShapesAsDefined /\ ComparedAsDefined /\ LiftedAsDefined /\ ElaborateAsDefined
  /\ WithoutAsDefined

\* Whatever pass is running, the unit is what elab found, but for what it may change.
CodeInv ==
  /\ AllHaveCode(original) /\ AllHaveCode(decls) /\ Len(original) = Len(decls)
  /\ \A k \in DOMAIN decls : Keeps(original[k], decls[k])

\* One declaration is elaborated twice if it is a recursive function.
LEMMA NextKeeps ==
  ASSUME AsDefined, NEW n, NEW d, HasCode(d)
  PROVE  HasCode(elab_next(n, d).decl) /\ Keeps(d, elab_next(n, d).decl)
<1> DEFINE early == PreRegister(n, d)
           x == early.decl.v
           v == elab_next(n, d).decl
<1>1. v = elab_decl(early.env, x).v
  BY DEF elab_next, Fully, Registered
<1>2. HasCode(x) /\ Keeps(d, x)
  <2>1. CASE d.op = "fn_defn" /\ d.rec
    <3>1. x = elab_fn_decl(n, d).v
      BY <2>1 DEF PreRegister, Early
    <3> HIDE DEF x
    <3> QED  BY <2>1, <3>1, FnDeclKeeps DEF IsFn, AsDefined
  <2>2. CASE ~(d.op = "fn_defn" /\ d.rec)
    <3>1. x = d
      BY <2>2, ResultIs DEF PreRegister
    <3> QED  BY <3>1, KeepsItself DEF AsDefined
  <2> QED  BY <2>1, <2>2
<1> HIDE DEF early, x, v
<1>3. HasCode(v) /\ Keeps(x, v)
  BY <1>1, <1>2, DeclKeeps DEF AsDefined
<1>4. Keeps(d, v)
  BY <1>2, <1>3, KeepsThrough DEF AsDefined
<1> QED  BY <1>3, <1>4 DEF v

\* A unit that nothing was done to keeps its code.
LEMMA SameUnit ==
  ASSUME AsDefined, NEW unit, AllHaveCode(unit), original = unit, decls = unit
  PROVE  CodeInv
BY KeepsItself DEF CodeInv, AllHaveCode, AsDefined

\* The invariant holds of the unit the pass is given, merged.
LEMMA CodeInvInit ==
  ASSUME AsDefined, Init
  PROVE  CodeInv
<1>1. MaxDepth \in Nat /\ IsUnit(MaxDepth, original) /\ decls = original
  BY UnitsAssumption DEF Init
<1>2. AllHaveCode(original)
  BY <1>1, DeclHasCode DEF IsUnit, AllHaveCode, AsDefined
<1> QED  BY <1>1, <1>2, SameUnit

\* Every step of the pass keeps the invariant.
LEMMA CodeInvNext ==
  ASSUME AsDefined, CodeInv, [Next]_vars
  PROVE  CodeInv'
<1>1. CASE MergeStep
  <2>1. original' = merge(decls).unit /\ decls' = merge(decls).unit
    BY <1>1 DEF MergeStep
  <2>2. AllHaveCode(merge(decls).unit)
    BY MergedHasCode DEF CodeInv, AsDefined
  <2> DEFINE unit == merge(decls).unit
  <2> HIDE DEF unit
  <2>3. AllHaveCode(unit) /\ original' = unit /\ decls' = unit
    BY <2>1, <2>2 DEF unit
  <2> QED  BY <2>3, KeepsItself DEF CodeInv, AllHaveCode, AsDefined
<1>2. CASE ElabStep
  <2> DEFINE v == elab_next(env, decls[i]).decl
  <2>1. original' = original /\ decls' = [decls EXCEPT ![i] = v]
    BY <1>2 DEF ElabStep
  <2>2. IsSeq(decls) /\ Len(decls) \in Nat /\ DOMAIN decls = 1 .. Len(decls)
    BY SeqHas DEF CodeInv, AllHaveCode
  <2>3. i \in DOMAIN decls => HasCode(v) /\ Keeps(decls[i], v)
    BY NextKeeps DEF CodeInv, AllHaveCode
  <2> HIDE DEF v
  <2>4. /\ IsSeq(decls') /\ Len(decls') = Len(decls) /\ DOMAIN decls' = DOMAIN decls
        /\ \A k \in DOMAIN decls : decls'[k] = IF k = i THEN v ELSE decls[k]
    <3> DEFINE s == [decls EXCEPT ![i] = v]
    <3>1. s = [k \in 1 .. Len(decls) |-> s[k]]
      BY <2>2
    <3>2. \A k \in DOMAIN decls : s[k] = IF k = i THEN v ELSE decls[k]
      OBVIOUS
    <3> HIDE DEF s
    <3>3. IsSeq(s) /\ Len(s) = Len(decls) /\ DOMAIN s = DOMAIN decls
      BY <2>2, <3>1, SeqIs
    <3> QED  BY <2>1, <3>2, <3>3 DEF s
  <2>5. \A k \in DOMAIN decls : HasCode(decls'[k]) /\ Keeps(original[k], decls'[k])
    <3> SUFFICES ASSUME NEW k \in DOMAIN decls
                 PROVE  HasCode(decls'[k]) /\ Keeps(original[k], decls'[k])
      OBVIOUS
    <3>1. HasCode(decls[k]) /\ Keeps(original[k], decls[k])
      BY DEF CodeInv, AllHaveCode
    <3>2. HasCode(original[k])
      BY <2>2, SeqHas DEF CodeInv, AllHaveCode
    <3>3. CASE k = i
      BY <2>3, <2>4, <3>1, <3>2, <3>3, KeepsThrough DEF AsDefined
    <3>4. CASE k # i
      BY <2>4, <3>1, <3>4
    <3> QED  BY <3>3, <3>4
  <2> QED  BY <2>1, <2>4, <2>5 DEF CodeInv, AllHaveCode
<1>3. CASE UNCHANGED <<original, decls>>
  BY <1>3 DEF CodeInv, AllHaveCode
<1> QED
  BY <1>1, <1>2, <1>3 DEF Next, CheckNamesStep, CheckTypesStep, EmitStep, NextPass, vars

\* The invariant implies the property.
LEMMA CodeInvShows ==
  ASSUME AsDefined, CodeInv
  PROVE  CodeIsKept
BY DEF CodeInv, CodeIsKept, Keeps

\* In every unit whose parts are as the IR allows, elaboration neither loses, adds,
\* reorders nor swaps code, whatever is wrong with the unit (elab.rs).
THEOREM ElabKeepsCode ==
  ASSUME AsDefined
  PROVE  Spec => []CodeIsKept
<1>1. Init => CodeInv
  BY CodeInvInit
<1>2. CodeInv /\ [Next]_vars => CodeInv'
  BY CodeInvNext
<1>3. CodeInv => CodeIsKept
  BY CodeInvShows
<1> QED  BY <1>1, <1>2, <1>3, PTL DEF Spec
-----------------------------------------------------------------------------
\* A type of some depth is elaborated to one of that depth.
LEMMA ElabType ==
  ASSUME ShapesAsDefined, ElaborateAsDefined
  PROVE  \A t, n : SomeType(t) => SomeType(elab_type(n, t).v)
<1> DEFINE Holds(m) == \A t, n : IsType(m, t) => IsType(m, elab_type(n, t).v)
           T == {m \in Nat : Holds(m)}
<1>1. ASSUME NEW m \in Nat, \A l \in Nat : l < m => l \in T
      PROVE  m \in T
  <2> SUFFICES ASSUME NEW t, NEW n, IsType(m, t) PROVE IsType(m, elab_type(n, t).v)
    OBVIOUS
  <2> DEFINE v == elab_type(n, t).v
  <2>1. Def_IsType(m, t) /\ m - 1 \in Nat /\ m - 1 < m
    BY DEF ShapesAsDefined, Def_IsType
  <2>2. \A u, x : IsType(m - 1, u) => IsType(m - 1, elab_type(x, u).v)
    BY <1>1, <2>1
  <2>3. elab_type(n, t) = NewType(n, t)
    BY PiecesAre DEF SomeType
  <2>4. CASE t.k = "ptr"
    <3>1. \E kind : v = Ptr(elab_type(n, t.to).v, kind)
      BY <2>3, <2>4, ResultIs DEF NewType, Refinements
    <3>2. IsType(m - 1, elab_type(n, t.to).v)
      BY <2>1, <2>2, <2>4 DEF Def_IsType
    <3> HIDE DEF v
    <3>3. v.k = "ptr" /\ v = Ptr(v.to, v.kind) /\ IsType(m - 1, v.to)
      BY <3>1, <3>2 DEF Ptr
    <3>4. Def_IsType(m, v)
      BY <2>1, <3>3 DEF Def_IsType, Refinements
    <3> QED  BY <3>4 DEF ShapesAsDefined, v
  <2>5. CASE t.k = "plain"
    <3>1. v = Plain(elab_type(n, t.of).v)
      BY <2>3, <2>5, ResultIs DEF NewType, Refinements
    <3>2. IsType(m - 1, elab_type(n, t.of).v)
      BY <2>1, <2>2, <2>5 DEF Def_IsType
    <3> HIDE DEF v
    <3>3. v.k = "plain" /\ v = Plain(v.of) /\ IsType(m - 1, v.of)
      BY <3>1, <3>2 DEF Plain
    <3>4. Def_IsType(m, v)
      BY <2>1, <3>3 DEF Def_IsType, Refinements
    <3> QED  BY <3>4 DEF ShapesAsDefined, v
  <2>6. CASE t.k \in Refinements
    <3>1. \E p : v = Refine(t.k, elab_type(n, t.of).v, p)
      BY <2>3, <2>6, ResultIs DEF NewType, Refinements
    <3>2. IsType(m - 1, elab_type(n, t.of).v)
      BY <2>1, <2>2, <2>6 DEF Def_IsType
    <3> HIDE DEF v
    <3>3. v.k = t.k /\ v = Refine(v.k, v.of, v.pred) /\ IsType(m - 1, v.of)
      BY <3>1, <3>2 DEF Refine
    <3>4. Def_IsType(m, v)
      BY <2>1, <2>6, <3>3 DEF Def_IsType, Refinements
    <3> QED  BY <3>4 DEF ShapesAsDefined, v
  <2>7. CASE t.k = "refine_value"
    <3>1. \E b, p : v = [t EXCEPT !.of = elab_type(n, t.of).v, !.binding = b, !.pred = p]
      <4> DEFINE x == [t EXCEPT !.of = elab_type(n, t.of).v,
                                !.binding = elab_type(n, t.binding).v,
                                !.pred = elab_slprop(PushThis(n, elab_type(n, t.of).v), t.pred).v]
      <4>1. v = x
        BY <2>3, <2>7, ResultIs DEF NewType, Refinements
      <4> QED  BY <4>1
    <3>2. /\ IsType(m - 1, elab_type(n, t.of).v)
          /\ t = RefineValue(t.of, t.binder, t.binding, t.pred)
      BY <2>1, <2>2, <2>7 DEF Def_IsType
    <3> HIDE DEF v
    <3>3. /\ v.k = "refine_value" /\ IsType(m - 1, v.of)
          /\ v = RefineValue(v.of, v.binder, v.binding, v.pred)
      <4> DEFINE of == elab_type(n, t.of).v
      <4>1. PICK b, p : v = [t EXCEPT !.of = of, !.binding = b, !.pred = p]
        BY <3>1
      <4>2. PICK a, r, c, d : t = RefineValue(a, r, c, d)
        BY <3>2
      <4>3. IsType(m - 1, of)
        BY <3>2
      <4> HIDE DEF of
      <4>4. v = RefineValue(of, r, b, p)
        BY <4>1, <4>2 DEF RefineValue
      <4> QED  BY <4>3, <4>4 DEF RefineValue
    <3>4. Def_IsType(m, v)
      BY <2>1, <3>3 DEF Def_IsType, Refinements
    <3> QED  BY <3>4 DEF ShapesAsDefined, v
  <2>8. CASE t.k \notin {"ptr", "plain", "refine_value"} \cup Refinements
    BY <2>3, <2>8, ResultIs DEF NewType
  <2> QED  BY <2>4, <2>5, <2>6, <2>7, <2>8
<1> HIDE DEF T
<1>2. Nat \subseteq T
  BY <1>1, EveryNumberAtOnce
<1>3. \A m \in Nat : Holds(m)
  BY <1>2 DEF T
<1> QED  BY <1>3 DEF SomeType
-----------------------------------------------------------------------------
\* Arguments and fields of types of some depth, and the loop over arguments as defined
SomeArg(a) ==
  /\ {"name", "ty", "mode"} \subseteq DOMAIN a /\ SomeType(a.ty)
  /\ a.mode \in {"regular", "consumed", "const", "out"}
SomeArgs(args) == IsSeq(args) /\ \A k \in DOMAIN args : SomeArg(args[k])
ArgsAsDefined == \A n, args : IsSeq(args) => elab_args(n, args) = Def_elab_args(n, args)

\* Both loops that elaborate arguments give arguments of the same names and modes.
LEMMA ElabArgs ==
  ASSUME ShapesAsDefined, ElaborateAsDefined, ArgsAsDefined
  PROVE  \A n, args : SomeArgs(args) => SomeArgs(elab_args(n, args).v)
<1> DEFINE T == {l \in Nat : \A n, args : SomeArgs(args) /\ Len(args) = l
                                => SomeArgs(elab_args(n, args).v)}
<1>1. 0 \in T
  <2> SUFFICES ASSUME NEW n, NEW args, SomeArgs(args), Len(args) = 0
               PROVE  SomeArgs(elab_args(n, args).v)
    OBVIOUS
  <2>1. args = <<>>
    BY EmptyOnly DEF SomeArgs
  <2>2. elab_args(n, args).v = args
    BY <2>1, ResultIs DEF SomeArgs, ArgsAsDefined, Def_elab_args
  <2> QED  BY <2>2
<1>2. ASSUME NEW l \in Nat, l \in T PROVE l + 1 \in T
  <2> SUFFICES ASSUME NEW n, NEW args, SomeArgs(args), Len(args) = l + 1
               PROVE  SomeArgs(elab_args(n, args).v)
    OBVIOUS
  <2>1. IsSeq(args) /\ args # <<>> /\ DOMAIN args = 1 .. l + 1
    BY EmptyIsSeq, SeqHas DEF SomeArgs
  <2>2. /\ IsSeq(Tail(args)) /\ Len(Tail(args)) = l
        /\ SomeArg(Head(args)) /\ \A k \in 1 .. l : Tail(args)[k] = args[k + 1]
    <3>1. /\ Head(args) = args[1] /\ IsSeq(Tail(args)) /\ Len(args) = l + 1
          /\ Len(Tail(args)) = l /\ \A k \in 1 .. l : Tail(args)[k] = args[k + 1]
      BY <2>1, HeadTail
    <3>2. SomeArg(args[1])
      BY <2>1 DEF SomeArgs
    <3> QED  BY <3>1, <3>2
  <2>3. SomeArgs(Tail(args))
    BY <2>1, <2>2, SeqHas DEF SomeArgs
  <2> DEFINE ty == elab_type(n, Head(args).ty)
             arg == [Head(args) EXCEPT !.ty = ty.v]
             rest == elab_args(PushVar(n, arg.name, arg.ty, "rvalue"), Tail(args))
  <2>4. elab_args(n, args).v = <<arg>> \o rest.v
    <3>1. elab_args(n, args) = Def_elab_args(n, args)
      BY <2>1 DEF ArgsAsDefined
    <3>2. \E reports : Def_elab_args(n, args) = Result(<<arg>> \o rest.v, reports)
      BY <2>1, Zenon DEF Def_elab_args
    <3> HIDE DEF arg, rest
    <3> QED  BY <3>1, <3>2, ResultIs
  <2>5. SomeArg(arg)
    <3>1. SomeType(ty.v)
      BY <2>2, ElabType DEF SomeArg
    <3> HIDE DEF ty
    <3> QED  BY <2>2, <3>1 DEF SomeArg
  <2>6. SomeArgs(rest.v)
    BY <1>2, <2>2, <2>3
  <2> HIDE DEF arg, rest
  <2>7. SomeArgs(<<arg>> \o rest.v)
    <3> DEFINE r == rest.v
    <3>1. SomeArgs(r)
      BY <2>6
    <3> HIDE DEF r
    <3>2. /\ IsSeq(<<arg>> \o r) /\ Len(<<arg>> \o r) = Len(r) + 1 /\ (<<arg>> \o r)[1] = arg
          /\ \A k \in 1 .. Len(r) : (<<arg>> \o r)[k + 1] = r[k]
      BY <3>1, Before1 DEF SomeArgs
    <3>3. /\ DOMAIN (<<arg>> \o r) = 1 .. Len(r) + 1 /\ DOMAIN r = 1 .. Len(r) /\ Len(r) \in Nat
      BY <3>1, <3>2, SeqHas DEF SomeArgs
    <3>4. ASSUME NEW k \in 1 .. Len(r) + 1 PROVE SomeArg((<<arg>> \o r)[k])
      <4>1. CASE k = 1
        BY <2>5, <3>2, <4>1
      <4>2. CASE k # 1
        <5>1. k - 1 \in 1 .. Len(r) /\ (k - 1) + 1 = k
          BY <3>3, <4>2
        <5> QED  BY <3>1, <3>2, <3>3, <5>1 DEF SomeArgs
      <4> QED  BY <4>1, <4>2
    <3> QED  BY <3>2, <3>3, <3>4 DEF SomeArgs, r
  <2> QED  BY <2>4, <2>7
<1> HIDE DEF T
<1>3. Nat \subseteq T
  BY <1>1, <1>2, EveryNumber
<1>4. \A n, args : SomeArgs(args) => Len(args) \in Nat
  BY SeqHas DEF SomeArgs
<1> QED  BY <1>3, <1>4 DEF T

\* elab_decl elaborates the types of the fields of a structure or union.
LEMMA ElabFields ==
  ASSUME ShapesAsDefined, ElaborateAsDefined, NEW n, NEW fields, SomeArgs(fields)
  PROVE  SomeArgs(elab_fields(n, fields).v)
<1> DEFINE tys == [k \in DOMAIN fields |-> elab_type(n, fields[k].ty)]
           new == [k \in DOMAIN fields |-> [fields[k] EXCEPT !.ty = tys[k].v]]
<1>1. Len(fields) \in Nat /\ DOMAIN fields = 1 .. Len(fields)
  BY SeqHas DEF SomeArgs
<1>2. IsSeq(tys) /\ IsSeq(new) /\ DOMAIN new = DOMAIN fields
  <2>1. tys = [k \in 1 .. Len(fields) |-> tys[k]] /\ new = [k \in 1 .. Len(fields) |-> new[k]]
    BY <1>1
  <2> HIDE DEF tys, new
  <2> QED  BY <1>1, <2>1, SeqIs
<1>3. elab_fields(n, fields).v = new
  <2>1. Each(tys) = tys /\ Each(new) = new
    BY <1>2, EachIsSame
  <2>2. \E reports :
          elab_fields(n, fields)
            = Result(Each([k \in DOMAIN fields |-> [fields[k] EXCEPT !.ty = Each(tys)[k].v]]), reports)
    BY Zenon DEF elab_fields
  <2>3. \E reports : elab_fields(n, fields) = Result(Each(new), reports)
    BY <2>1, <2>2
  <2> QED  BY <2>1, <2>3, ResultIs
<1>4. ASSUME NEW k \in DOMAIN fields PROVE SomeArg(new[k])
  <2>1. SomeArg(fields[k]) /\ SomeType(tys[k].v)
    BY ElabType DEF SomeArgs, SomeArg
  <2>2. new[k] = [fields[k] EXCEPT !.ty = tys[k].v]
    OBVIOUS
  <2> HIDE DEF new, tys
  <2> QED  BY <2>1, <2>2 DEF SomeArg
<1> QED  BY <1>2, <1>3, <1>4 DEF SomeArgs
-----------------------------------------------------------------------------
\* Declarations whose arguments and fields have types of some depth
DeclOps ==
  {"fn_decl", "fn_defn", "let", "typedef", "struct_defn", "union_defn", "struct_decl", "include",
   "opaque", "global"}
HasTypes(d) ==
  /\ d.op \in DeclOps /\ (d.op # "struct_decl" => "op" \in DOMAIN d)
  /\ IsFn(d) => {"args", "ret"} \subseteq DOMAIN d /\ SomeArgs(d.args) /\ SomeType(d.ret)
  /\ d.op = "let" => "args" \in DOMAIN d /\ SomeArgs(d.args)
  /\ d.op = "typedef" => SomeType(d.ty)
  /\ d.op \in {"struct_defn", "union_defn"} => "fields" \in DOMAIN d /\ SomeArgs(d.fields)
AllHaveTypes(unit) == IsSeq(unit) /\ \A k \in DOMAIN unit : HasTypes(unit[k])

\* A declaration of the input has them.
LEMMA DeclHasTypes ==
  ASSUME NEW n \in Nat, NEW d, IsDecl(n, d)
  PROVE  HasTypes(d)
<1>1. DeclShape(n, d)
  BY DEF IsDecl
<1>2. \A args : IsArgs(n, args) => SomeArgs(args)
  BY DEF IsArgs, SomeArgs, SomeArg, SomeType
<1>3. \A t : IsType(n, t) => SomeType(t)
  BY DEF SomeType
<1>4. CASE IsFn(d)
  <2>1. /\ {"op", "args", "ret"} \subseteq DOMAIN d /\ IsArgs(n, d.args) /\ IsType(n, d.ret)
        /\ d.op \in {"fn_decl", "fn_defn"}
    BY <1>1, <1>4 DEF DeclShape, IsFn
  <2> QED  BY <1>2, <1>3, <2>1 DEF HasTypes, DeclOps
<1>5. CASE d.op = "let"
  <2>1. {"op", "args"} \subseteq DOMAIN d /\ IsArgs(n, d.args)
    BY <1>1, <1>5 DEF DeclShape, IsFn
  <2> QED  BY <1>2, <1>5, <2>1 DEF HasTypes, DeclOps, IsFn
<1>6. CASE d.op = "typedef"
  <2>1. d = Typedef(d.name, d.ty) /\ IsType(n, d.ty)
    BY <1>1, <1>6 DEF DeclShape, IsFn
  <2>2. "op" \in DOMAIN d
    BY <2>1 DEF Typedef
  <2> QED  BY <1>3, <1>6, <2>1, <2>2 DEF HasTypes, DeclOps, IsFn
<1>7. CASE d.op \in {"struct_defn", "union_defn"}
  <2>1. {"op", "fields"} \subseteq DOMAIN d /\ IsArgs(n, d.fields)
    BY <1>1, <1>7 DEF DeclShape, IsFn
  <2> QED  BY <1>2, <1>7, <2>1 DEF HasTypes, DeclOps, IsFn
<1>8. CASE d.op \in {"include", "opaque", "global"}
  <2>1. \/ d = Include(d.code) \/ d = OpaqueType(d.name, d.code) \/ "op" \in DOMAIN d
    BY <1>1, <1>8 DEF DeclShape, IsFn
  <2>2. "op" \in DOMAIN d
    BY <2>1 DEF Include, OpaqueType
  <2> QED  BY <1>8, <2>2 DEF HasTypes, DeclOps, IsFn
<1>9. CASE ~IsFn(d) /\ d.op \notin {"let", "typedef", "struct_defn", "union_defn", "include",
                                   "opaque", "global"}
  <2>1. d.op = "struct_decl"
    BY <1>1, <1>9 DEF DeclShape
  <2> QED  BY <1>9, <2>1 DEF HasTypes, DeclOps
<1> QED  BY <1>4, <1>5, <1>6, <1>7, <1>8, <1>9

\* elab_fn_decl elaborates the types of arguments and result.
LEMMA FnDeclHasTypes ==
  ASSUME ShapesAsDefined, ElaborateAsDefined, ArgsAsDefined,
         NEW n, NEW d, IsFn(d), HasTypes(d)
  PROVE  HasTypes(elab_fn_decl(n, d).v) /\ elab_fn_decl(n, d).v.op = d.op
<1> DEFINE v == elab_fn_decl(n, d).v
           ghosts == elab_args(n, d.ghosts)
           ghostEnv == PushArgs(n, ghosts.v, "rvalue")
           args == elab_args(ghostEnv, d.args)
           argEnv == PushArgs(ghostEnv, args.v, "rvalue")
           ret == elab_type(argEnv, d.ret)
           retEnv == PushReturn(argEnv, ret.v)
           req == elab_slprops(argEnv, d.requires).v
           ens == elab_slprops(retEnv, d.ensures).v
           dec == elab_rvalues(retEnv, d.decreases, None).v
<1>1. v = [d EXCEPT !.ghosts = ghosts.v, !.args = args.v, !.requires = req, !.ret = ret.v,
                    !.ensures = ens, !.decreases = dec]
  <2>1. elab_fn_decl(n, d) = NewFnDecl(n, d)
    BY PiecesAre
  <2>2. \E reports : NewFnDecl(n, d)
          = Result([d EXCEPT !.ghosts = ghosts.v, !.args = args.v, !.requires = req,
                             !.ret = ret.v, !.ensures = ens, !.decreases = dec], reports)
    BY Zenon DEF NewFnDecl
  <2> HIDE DEF ghosts, args, ret, req, ens, dec
  <2> QED  BY <2>1, <2>2, ResultIs
<1>2. /\ {"op", "args", "ret"} \subseteq DOMAIN d /\ SomeArgs(d.args) /\ SomeType(d.ret)
      /\ d.op \in {"fn_decl", "fn_defn"}
  BY DEF HasTypes, IsFn
<1>3. SomeArgs(args.v) /\ SomeType(ret.v)
  BY <1>2, ElabArgs, ElabType
<1> HIDE DEF ghosts, args, ret, req, ens, dec, v
<1>4. v.op = d.op /\ v.args = args.v /\ v.ret = ret.v /\ DOMAIN v = DOMAIN d
  BY <1>1, <1>2
<1>5. HasTypes(v)
  BY <1>2, <1>3, <1>4 DEF HasTypes, DeclOps, IsFn
<1> QED  BY <1>4, <1>5 DEF v

\* elab_decl elaborates the types of every declaration.
LEMMA ElabDeclHasTypes ==
  ASSUME ShapesAsDefined, ElaborateAsDefined, ArgsAsDefined, NEW n, NEW d, HasTypes(d)
  PROVE  HasTypes(elab_decl(n, d).v)
<1> DEFINE v == elab_decl(n, d).v
<1>0. elab_decl(n, d) = NewDecl(n, d)
  BY PiecesAre
<1>1. CASE d.op = "fn_defn"
  <2> DEFINE head == elab_fn_decl(n, d).v
             body == elab_stmts(PushFnBody(n, head), d.body).v
  <2>1. v = [head EXCEPT !.body = body]
    <3>1. NewDecl(n, d) = elab_fn_defn(n, d)
      BY <1>1 DEF NewDecl
    <3>2. \E reports : elab_fn_defn(n, d) = Result([head EXCEPT !.body = body], reports)
      BY Zenon DEF elab_fn_defn
    <3> HIDE DEF head, body
    <3> QED  BY <1>0, <3>1, <3>2, ResultIs
  <2>2. HasTypes(head) /\ head.op = "fn_defn"
    BY <1>1, FnDeclHasTypes DEF IsFn
  <2> HIDE DEF head, body
  <2>3. /\ {"op", "args", "ret"} \subseteq DOMAIN head /\ SomeArgs(head.args)
        /\ SomeType(head.ret)
    BY <2>2 DEF HasTypes, IsFn
  <2> HIDE DEF v
  <2>4. v.op = "fn_defn" /\ v.args = head.args /\ v.ret = head.ret /\ DOMAIN v = DOMAIN head
    BY <2>1, <2>2, <2>3
  <2> QED  BY <2>3, <2>4 DEF HasTypes, DeclOps, IsFn, v
<1>2. CASE d.op = "fn_decl"
  <2>1. v = elab_fn_decl(n, d).v
    BY <1>0, <1>2 DEF NewDecl
  <2> QED  BY <1>2, <2>1, FnDeclHasTypes DEF IsFn
<1>3. CASE d.op = "let"
  <2> DEFINE args == elab_fields(n, d.args)
  <2>1. \E ret, req, ens, body :
          v = [d EXCEPT !.ret = ret, !.args = args.v, !.requires = req, !.ensures = ens,
                        !.body = body]
    <3>1. NewDecl(n, d) = elab_let(n, d)
      BY <1>3 DEF NewDecl
    <3>2. PICK ret, req, ens, body, reports :
            elab_let(n, d) = Result([d EXCEPT !.ret = ret, !.args = args.v, !.requires = req,
                                              !.ensures = ens, !.body = body], reports)
      BY Zenon DEF elab_let
    <3> HIDE DEF args
    <3>3. v = [d EXCEPT !.ret = ret, !.args = args.v, !.requires = req, !.ensures = ens,
                        !.body = body]
      BY <1>0, <3>1, <3>2, ResultIs
    <3> HIDE DEF v
    <3> QED  BY <3>3
  <2>2. {"op", "args"} \subseteq DOMAIN d /\ SomeArgs(d.args)
    BY <1>3 DEF HasTypes
  <2>3. SomeArgs(args.v)
    BY <2>2, ElabFields
  <2> HIDE DEF args, v
  <2>4. v.op = "let" /\ v.args = args.v /\ DOMAIN v = DOMAIN d
    BY <1>3, <2>1, <2>2
  <2> QED  BY <2>2, <2>3, <2>4 DEF HasTypes, DeclOps, IsFn, v
<1>4. CASE d.op = "typedef"
  <2>1. v = Typedef(d.name, elab_type(n, d.ty).v)
    BY <1>0, <1>4, ResultIs DEF NewDecl
  <2>2. SomeType(elab_type(n, d.ty).v)
    BY <1>4, ElabType DEF HasTypes
  <2> DEFINE ty == elab_type(n, d.ty).v
  <2> HIDE DEF ty, v
  <2>3. v.op = "typedef" /\ v.ty = ty /\ SomeType(ty) /\ "op" \in DOMAIN v
    BY <2>1, <2>2 DEF Typedef, ty
  <2> QED  BY <2>3 DEF HasTypes, DeclOps, IsFn, v
<1>5. CASE d.op \in {"struct_defn", "union_defn"}
  <2>1. v = [d EXCEPT !.fields = elab_fields(n, d.fields).v]
    BY <1>0, <1>5, ResultIs DEF NewDecl
  <2>2. {"op", "fields"} \subseteq DOMAIN d /\ SomeArgs(d.fields)
    BY <1>5 DEF HasTypes
  <2>3. SomeArgs(elab_fields(n, d.fields).v)
    BY <2>2, ElabFields
  <2> HIDE DEF v
  <2>4. v.op = d.op /\ v.fields = elab_fields(n, d.fields).v /\ DOMAIN v = DOMAIN d
    BY <2>1, <2>2
  <2> QED  BY <1>5, <2>2, <2>3, <2>4 DEF HasTypes, DeclOps, IsFn, v
<1>6. CASE d.op \in {"include", "opaque", "global", "struct_decl"}
  <2>1. v.op = d.op /\ (d.op # "struct_decl" => "op" \in DOMAIN v)
    <3>1. CASE d.op \in {"include", "opaque"}
      <4>1. v = [d EXCEPT !.code = elab_code(n, d.code).v] /\ "op" \in DOMAIN d
        BY <1>0, <3>1, ResultIs DEF NewDecl, HasTypes
      <4> HIDE DEF v
      <4> QED  BY <4>1
    <3>2. CASE d.op = "global"
      <4>1. \E ty, init : v = [d EXCEPT !.ty = ty, !.init = init]
        <5>1. NewDecl(n, d) = elab_global(n, d)
          BY <3>2 DEF NewDecl
        <5>2. PICK ty, init, reports :
                elab_global(n, d) = Result([d EXCEPT !.ty = ty, !.init = init], reports)
          BY Zenon DEF elab_global
        <5>3. v = [d EXCEPT !.ty = ty, !.init = init]
          BY <1>0, <5>1, <5>2, ResultIs
        <5> QED  BY <5>3, Zenon
      <4>2. "op" \in DOMAIN d
        BY <3>2 DEF HasTypes
      <4> HIDE DEF v
      <4> QED  BY <4>1, <4>2
    <3>3. CASE d.op = "struct_decl"
      BY <1>0, <3>3, ResultIs DEF NewDecl
    <3> QED  BY <1>6, <3>1, <3>2, <3>3
  <2> HIDE DEF v
  <2> QED  BY <1>6, <2>1 DEF HasTypes, DeclOps, IsFn, v
<1> QED  BY <1>1, <1>2, <1>3, <1>4, <1>5, <1>6 DEF HasTypes, DeclOps

\* So does each turn of the loop of the pass, which elaborates some declarations twice.
LEMMA ElabNextHasTypes ==
  ASSUME ShapesAsDefined, ElaborateAsDefined, ArgsAsDefined, NEW n, NEW d, HasTypes(d)
  PROVE  HasTypes(elab_next(n, d).decl)
<1> DEFINE early == PreRegister(n, d)
           x == early.decl.v
           v == elab_next(n, d).decl
<1>1. v = elab_decl(early.env, x).v
  BY DEF elab_next, Fully, Registered
<1>2. HasTypes(x)
  <2>1. CASE d.op = "fn_defn" /\ d.rec
    <3>1. x = elab_fn_decl(n, d).v
      BY <2>1 DEF PreRegister, Early
    <3> HIDE DEF x
    <3> QED  BY <2>1, <3>1, FnDeclHasTypes DEF IsFn
  <2>2. CASE ~(d.op = "fn_defn" /\ d.rec)
    <3>1. x = d
      BY <2>2, ResultIs DEF PreRegister
    <3> QED  BY <3>1
  <2> QED  BY <2>1, <2>2
<1> HIDE DEF early, x, v
<1>3. HasTypes(v)
  BY <1>1, <1>2, ElabDeclHasTypes
<1> QED  BY <1>3 DEF v

\* merge changes no types.
LEMMA MergedHasTypes ==
  ASSUME WithoutAsDefined, NEW unit, AllHaveTypes(unit)
  PROVE  AllHaveTypes(merge(unit).unit)
<1>1. PICK merged : merged \subseteq DOMAIN unit /\ FromUnit(unit, merged, merge(unit).unit)
  BY MergedIs DEF AllHaveTypes
<1>2. ASSUME NEW k \in DOMAIN unit PROVE HasTypes(WithSpecs(unit, merged, k))
  <2> DEFINE d == unit[k]
             v == WithSpecs(unit, merged, k)
  <2>1. v = d \/ (d.op = "fn_defn" /\ \E r, e : v = [d EXCEPT !.requires = r, !.ensures = e])
    BY DEF WithSpecs
  <2>2. HasTypes(d)
    BY DEF AllHaveTypes
  <2> HIDE DEF d, v
  <2>3. CASE v # d
    <3>1. /\ {"op", "args", "ret"} \subseteq DOMAIN d /\ d.op = "fn_defn"
          /\ SomeArgs(d.args) /\ SomeType(d.ret)
      BY <2>1, <2>2, <2>3 DEF HasTypes, IsFn
    <3>2. v.op = "fn_defn" /\ v.args = d.args /\ v.ret = d.ret /\ DOMAIN v = DOMAIN d
      BY <2>1, <2>3, <3>1
    <3> QED  BY <3>1, <3>2 DEF HasTypes, DeclOps, IsFn, v
  <2> QED  BY <2>2, <2>3 DEF v
<1> DEFINE new == merge(unit).unit
<1> HIDE DEF new
<1>3. IsSeq(new) /\ \A j \in DOMAIN new : \E k \in DOMAIN unit : new[j] = WithSpecs(unit, merged, k)
  BY <1>1 DEF FromUnit, new
<1> QED  BY <1>2, <1>3 DEF AllHaveTypes, new
-----------------------------------------------------------------------------
\* The emitter's functions over types and fields as defined
EmittedAsDefined ==
  /\ \A em, t, v, c, this :
       SomeType(t) => emit_type_slprop(em, t, v, c, this) = Def_emit_type_slprop(em, t, v, c, this)
  /\ \A em, fields, v, c :
       IsSeq(fields) => FieldsSlprop(em, fields, v, c) = Def_FieldsSlprop(em, fields, v, c)

\* A value that is bound has the number of those bound before it in its name.
NumberedFrom(bs, n) ==
  IsSeq(bs) /\ \A b \in DOMAIN bs : bs[b].name[1] = "val" => bs[b].name[3] = n + b - 1
Numbered(c) == NumberedFrom(c.binders, 0)

\* The emitter's tables list types of values.
Tables(em) ==
  /\ DOMAIN em = {"vals", "uninit_vals", "defining"}
  /\ \A id \in DOMAIN em.vals : IsSeq(em.vals[id])
  /\ \A id \in DOMAIN em.uninit_vals : IsSeq(em.uninit_vals[id])

\* A claim goes on counting where the last one ended.
LEMMA ClaimNumbered ==
  ASSUME NEW c, Numbered(c), NEW bs, NumberedFrom(bs, Len(c.binders)), NEW props
  PROVE  Numbered(Claim(c, bs, props))
<1> DEFINE a == c.binders
           s == a \o bs
<1>1. Claim(c, bs, props).binders = s
  BY DEF Claim
<1>2. IsSeq(a) /\ IsSeq(bs)
  BY DEF Numbered, NumberedFrom
<1>3. /\ IsSeq(s) /\ Len(s) = Len(a) + Len(bs) /\ Len(a) \in Nat /\ Len(bs) \in Nat
      /\ DOMAIN a = 1 .. Len(a) /\ DOMAIN bs = 1 .. Len(bs) /\ DOMAIN s = 1 .. Len(s)
      /\ \A k \in 1 .. Len(a) : s[k] = a[k]
      /\ \A k \in 1 .. Len(bs) : s[Len(a) + k] = bs[k]
  BY <1>2, ConcatHas, SeqHas
<1>4. /\ \A b \in DOMAIN a : a[b].name[1] = "val" => a[b].name[3] = 0 + b - 1
      /\ \A b \in DOMAIN bs : bs[b].name[1] = "val" => bs[b].name[3] = Len(a) + b - 1
  BY DEF Numbered, NumberedFrom
<1> HIDE DEF s, a
<1>5. ASSUME NEW b \in DOMAIN s, s[b].name[1] = "val" PROVE s[b].name[3] = 0 + b - 1
  <2>1. CASE b <= Len(a)
    BY <1>3, <1>4, <1>5, <2>1
  <2>2. CASE ~(b <= Len(a))
    <3>1. b - Len(a) \in 1 .. Len(bs) /\ Len(a) + (b - Len(a)) = b
      BY <1>3, <2>2
    <3>2. s[b] = bs[b - Len(a)]
      BY <1>3, <3>1
    <3>3. bs[b - Len(a)].name[3] = Len(a) + (b - Len(a)) - 1
      BY <1>3, <1>4, <1>5, <3>1, <3>2
    <3> QED  BY <1>3, <3>1, <3>2, <3>3
  <2> QED  BY <1>3, <2>1, <2>2
<1> QED  BY <1>1, <1>3, <1>5 DEF Numbered, NumberedFrom

\* No values, one value, two values, or one value of each type of a list
LEMMA ValuesNumbered ==
  ASSUME NEW n \in Nat, NEW this
  PROVE  /\ NumberedFrom(<<>>, n)
         /\ \A ty : NumberedFrom(<<Binder(ValName(this, n), ty)>>, n)
         /\ \A ty, uy : NumberedFrom(<<Binder(ValName(this, n), ty),
                                       Binder(ValName(this, n + 1), uy)>>, n)
         /\ \A x, ty : NumberedFrom(<<Binder(<<"binder", x>>, ty)>>, n)
<1>1. NumberedFrom(<<>>, n)
  BY EmptyIsSeq DEF NumberedFrom
<1>2. \A m \in Nat : ValName(this, m)[1] = "val" /\ ValName(this, m)[3] = m
  BY DEF ValName
<1>3. \A x, ty : Binder(x, ty).name = x
  BY DEF Binder
<1>4. ASSUME NEW ty PROVE NumberedFrom(<<Binder(ValName(this, n), ty)>>, n)
  <2> DEFINE x == Binder(ValName(this, n), ty)
  <2>1. x.name[3] = n /\ n = n + 1 - 1
    BY <1>2, <1>3
  <2> HIDE DEF x
  <2> QED  BY <2>1, OneIsSeq DEF NumberedFrom, x
<1>5. ASSUME NEW ty, NEW uy
      PROVE  NumberedFrom(<<Binder(ValName(this, n), ty), Binder(ValName(this, n + 1), uy)>>, n)
  <2> DEFINE x == Binder(ValName(this, n), ty)
             y == Binder(ValName(this, n + 1), uy)
  <2>1. x.name[3] = n /\ n = n + 1 - 1 /\ y.name[3] = n + 1 /\ n + 1 = n + 2 - 1
    BY <1>2, <1>3
  <2> HIDE DEF x, y
  <2> QED  BY <2>1, TwoIsSeq DEF NumberedFrom, x, y
<1>6. ASSUME NEW z, NEW ty PROVE NumberedFrom(<<Binder(<<"binder", z>>, ty)>>, n)
  <2> DEFINE x == Binder(<<"binder", z>>, ty)
  <2>1. x.name[1] # "val"
    BY <1>3
  <2> HIDE DEF x
  <2> QED  BY <2>1, OneIsSeq DEF NumberedFrom, x
<1> QED  BY <1>1, <1>4, <1>5, <1>6

\* The predicate of a named type takes a value for each type in the table.
LEMMA NamedNumbered ==
  ASSUME NEW em, Tables(em), NEW t, NEW v, NEW c, Numbered(c), NEW this
  PROVE  Numbered(NamedSlprop(em, t, v, c, this))
<1> DEFINE n == Len(c.binders)
           tys == ValParams(em, v, t)
           vals == [k \in DOMAIN tys |-> ValName(this, n + k - 1)]
           bs == [k \in DOMAIN tys |-> Binder(vals[k], tys[k])]
<1>1. n \in Nat
  BY SeqHas DEF Numbered, NumberedFrom
<1>2. IsSeq(tys)
  BY EmptyIsSeq DEF ValParams, Tables
<1>3. NamedSlprop(em, t, v, c, this) = Claim(c, bs, <<Prop("pred", v, t, this, vals)>>)
  BY Zenon DEF NamedSlprop
<1>4. Len(tys) \in Nat /\ DOMAIN tys = 1 .. Len(tys)
  BY <1>2, SeqHas
<1> HIDE DEF n, tys
<1>5. \A b \in DOMAIN bs : bs[b].name = ValName(this, n + b - 1)
  BY DEF Binder
<1>6. IsSeq(bs) /\ DOMAIN bs = 1 .. Len(tys)
  <2>1. bs = [k \in 1 .. Len(tys) |-> bs[k]]
    BY <1>4
  <2> HIDE DEF bs
  <2> QED  BY <1>4, <2>1, SeqIs
<1>7. \A b \in DOMAIN bs : bs[b].name[3] = n + b - 1
  BY <1>5 DEF ValName
<1> HIDE DEF bs, vals
<1>8. NumberedFrom(bs, n)
  BY <1>6, <1>7 DEF NumberedFrom
<1> QED  BY <1>3, <1>8, ClaimNumbered DEF n

\* emit_type_slprop goes on counting.
LEMMA SlpropNumbered ==
  ASSUME ShapesAsDefined, EmittedAsDefined, NEW em, Tables(em)
  PROVE  \A t, v, c, this : SomeType(t) /\ Numbered(c)
                              => Numbered(emit_type_slprop(em, t, v, c, this))
<1> DEFINE Holds(m) == \A t, v, c, this : IsType(m, t) /\ Numbered(c)
                                            => Numbered(emit_type_slprop(em, t, v, c, this))
           T == {m \in Nat : Holds(m)}
<1>1. ASSUME NEW m \in Nat, \A l \in Nat : l < m => l \in T
      PROVE  m \in T
  <2> SUFFICES ASSUME NEW t, NEW v, NEW c, NEW this, IsType(m, t), Numbered(c)
               PROVE  Numbered(emit_type_slprop(em, t, v, c, this))
    OBVIOUS
  <2>1. Def_IsType(m, t) /\ m - 1 \in Nat /\ m - 1 < m
    BY DEF ShapesAsDefined, Def_IsType
  <2>2. \A u, w, d, that : IsType(m - 1, u) /\ Numbered(d)
                             => Numbered(emit_type_slprop(em, u, w, d, that))
    BY <1>1, <2>1
  <2>3. emit_type_slprop(em, t, v, c, this) = Def_emit_type_slprop(em, t, v, c, this)
    BY DEF EmittedAsDefined, SomeType
  <2> DEFINE n == Len(c.binders)
  <2>4. n \in Nat
    BY SeqHas DEF Numbered, NumberedFrom
  <2>5. CASE t.k = "ptr" /\ t.kind \in {"ref", "unknown"}
    <3> DEFINE val == ValName(this, n)
               held == Claim(c, <<Binder(val, t.to)>>, <<Prop("pts_to", v, None, this, <<val>>)>>)
               none == Claim(c, <<>>, <<Prop("pts_to_uninit", v, None, this, <<>>)>>)
    <3>1. emit_type_slprop(em, t, v, c, this) = RefSlprop(em, t, v, c, this)
      BY <2>3, <2>5 DEF Def_emit_type_slprop, NamedTypes, Refinements
    <3>2. NumberedFrom(<<Binder(val, t.to)>>, n) /\ NumberedFrom(<<>>, n)
      BY <2>4, ValuesNumbered
    <3> HIDE DEF val
    <3>3. Numbered(held) /\ Numbered(none)
      BY <3>2, ClaimNumbered
    <3>4. Numbered(emit_type_slprop(em, t.to, v, held, Deref(this)))
      BY <2>1, <2>2, <2>5, <3>3 DEF Def_IsType
    <3>5. RefSlprop(em, t, v, c, this)
            \in {none, held, emit_type_slprop(em, t.to, v, held, Deref(this))}
      BY DEF RefSlprop, val
    <3> HIDE DEF held, none
    <3> QED  BY <3>1, <3>3, <3>4, <3>5
  <2>6. CASE t.k = "ptr" /\ t.kind = "array"
    <3> DEFINE val == ValName(this, n)
               mask == ValName(this, n + 1)
               bs == <<Binder(val, [k |-> "seq", of |-> t.to]), Binder(mask, Basic("mask"))>>
    <3>1. emit_type_slprop(em, t, v, c, this) = ArraySlprop(t, v, c, this)
      BY <2>3, <2>6 DEF Def_emit_type_slprop, NamedTypes, Refinements
    <3>2. \E props : ArraySlprop(t, v, c, this) = Claim(c, bs, props)
      BY Zenon DEF ArraySlprop
    <3>3. NumberedFrom(bs, n)
      BY <2>4, ValuesNumbered
    <3> HIDE DEF bs
    <3> QED  BY <3>1, <3>2, <3>3, ClaimNumbered
  <2>7. CASE t.k \in NamedTypes
    <3>1. emit_type_slprop(em, t, v, c, this) = NamedSlprop(em, t, v, c, this)
      BY <2>3, <2>7 DEF Def_emit_type_slprop, NamedTypes, Refinements
    <3> QED  BY <3>1, NamedNumbered
  <2>8. CASE t.k \in Refinements \cup {"refine_value"}
    <3> DEFINE inner == emit_type_slprop(em, t.of, v, c, this)
    <3>1. emit_type_slprop(em, t, v, c, this) = RefinedSlprop(t, v, inner, this)
      BY <2>3, <2>8 DEF Def_emit_type_slprop, NamedTypes, Refinements
    <3>2. Numbered(inner)
      BY <2>1, <2>2, <2>8 DEF Def_IsType
    <3>3. Len(inner.binders) \in Nat
      BY <3>2, SeqHas DEF Numbered, NumberedFrom
    <3> HIDE DEF inner
    <3>4. \/ RefinedSlprop(t, v, inner, this) = inner
          \/ \E bs, props : /\ RefinedSlprop(t, v, inner, this) = Claim(inner, bs, props)
                            /\ bs \in {<<>>, <<Binder(<<"binder", t.binder>>, t.binding)>>}
      BY Zenon DEF RefinedSlprop, Refining
    <3>5. \A bs \in {<<>>, <<Binder(<<"binder", t.binder>>, t.binding)>>} :
            NumberedFrom(bs, Len(inner.binders))
      BY <3>3, ValuesNumbered
    <3> QED  BY <3>1, <3>2, <3>4, <3>5, ClaimNumbered
  <2>9. CASE /\ t.k \notin NamedTypes \cup Refinements \cup {"refine_value"}
             /\ ~(t.k = "ptr" /\ t.kind \in {"ref", "unknown", "array"})
    BY <2>3, <2>9 DEF Def_emit_type_slprop
  <2> QED  BY <2>5, <2>6, <2>7, <2>8, <2>9
<1> HIDE DEF T
<1>2. Nat \subseteq T
  BY <1>1, EveryNumberAtOnce
<1>3. \A m \in Nat : Holds(m)
  BY <1>2 DEF T
<1> QED  BY <1>3 DEF SomeType

\* So do the fields of a structure, one after the other.
LEMMA FieldsNumbered ==
  ASSUME ShapesAsDefined, EmittedAsDefined, NEW em, Tables(em), NEW v
  PROVE  \A fields, c : SomeArgs(fields) /\ Numbered(c)
                          => Numbered(FieldsSlprop(em, fields, v, c))
<1> DEFINE T == {l \in Nat : \A fields, c : SomeArgs(fields) /\ Len(fields) = l /\ Numbered(c)
                                => Numbered(FieldsSlprop(em, fields, v, c))}
<1>1. 0 \in T
  <2> SUFFICES ASSUME NEW fields, NEW c, SomeArgs(fields), Len(fields) = 0, Numbered(c)
               PROVE  Numbered(FieldsSlprop(em, fields, v, c))
    OBVIOUS
  <2>1. fields = <<>> /\ IsSeq(fields)
    BY EmptyOnly DEF SomeArgs
  <2> QED  BY <2>1 DEF EmittedAsDefined, Def_FieldsSlprop
<1>2. ASSUME NEW l \in Nat, l \in T PROVE l + 1 \in T
  <2> SUFFICES ASSUME NEW fields, NEW c, SomeArgs(fields), Len(fields) = l + 1, Numbered(c)
               PROVE  Numbered(FieldsSlprop(em, fields, v, c))
    OBVIOUS
  <2>1. IsSeq(fields) /\ fields # <<>> /\ DOMAIN fields = 1 .. l + 1
    BY EmptyIsSeq, SeqHas DEF SomeArgs
  <2>2. /\ Head(fields) = fields[1] /\ IsSeq(Tail(fields)) /\ Len(Tail(fields)) = l
        /\ \A k \in 1 .. l : Tail(fields)[k] = fields[k + 1]
    BY <2>1, HeadTail
  <2>3. SomeArgs(Tail(fields)) /\ SomeArg(Head(fields))
    BY <2>1, <2>2, SeqHas DEF SomeArgs
  <2> DEFINE d == emit_type_slprop(em, Head(fields).ty, v, c, Member(Var("this"), Head(fields).name))
  <2>4. Numbered(d)
    BY <2>3, SlpropNumbered DEF SomeArg
  <2>5. FieldsSlprop(em, fields, v, c) = FieldsSlprop(em, Tail(fields), v, d)
    BY <2>1 DEF EmittedAsDefined, Def_FieldsSlprop
  <2> HIDE DEF d
  <2> QED  BY <1>2, <2>2, <2>3, <2>4, <2>5
<1> HIDE DEF T
<1>3. Nat \subseteq T
  BY <1>1, <1>2, EveryNumber
<1>4. \A fields : SomeArgs(fields) => Len(fields) \in Nat
  BY SeqHas DEF SomeArgs
<1> QED  BY <1>3, <1>4 DEF T
-----------------------------------------------------------------------------
\* Items whose claims are numbered, and parameters whose claims are
GoodParams(params) ==
  IsSeq(params) /\ \A k \in DOMAIN params :
                     Numbered(params[k].pre) /\ Numbered(params[k].kept) /\ Numbered(params[k].post)
GoodItem(x) ==
  /\ {"what", "defines", "text", "claims", "params"} \subseteq DOMAIN x
  /\ Numbered(x.claims) /\ GoodParams(x.params)
GoodItems(items) == IsSeq(items) /\ \A k \in DOMAIN items : GoodItem(items[k])

\* Nothing claimed is nothing to number.
LEMMA NothingNumbered == Numbered(NoClaims)
<1>1. NoClaims.binders = <<>>
  BY DEF NoClaims
<1> QED  BY <1>1, EmptyIsSeq DEF Numbered, NumberedFrom

\* Each way to make an item.
LEMMA ItemGood ==
  ASSUME NEW what, NEW defines, NEW text
  PROVE  GoodItem(Item(what, defines, text)) /\ GoodItem(Inductive(what, defines, text))
<1>1. \A x : GoodItem(Item(what, defines, x))
  <2> TAKE x
  <2> DEFINE it == Item(what, defines, x)
  <2>1. /\ DOMAIN it = {"what", "defines", "text", "claims", "params"}
        /\ it.claims = NoClaims /\ it.params = <<>>
    BY DEF Item
  <2> HIDE DEF it
  <2> QED  BY <2>1, NothingNumbered, EmptyIsSeq DEF GoodItem, GoodParams, it
<1> QED  BY <1>1 DEF Inductive

\* The item of a predicate is as good as its claims,
LEMMA PredItemGood ==
  ASSUME NEW v, NEW t, NEW c, Numbered(c), NEW text
  PROVE  GoodItem(PredItem(v, t, c, text))
<1> DEFINE it == Item("pred", {PredId(v, t)}, {TypeId(t)} \cup text)
<1>1. GoodItem(it)
  BY ItemGood
<1>2. PredItem(v, t, c, text) = [it EXCEPT !.claims = c]
  BY DEF PredItem
<1> HIDE DEF it
<1> QED  BY <1>1, <1>2 DEF GoodItem

\* and good if it claims nothing.
LEMMA NoPredItemGood ==
  ASSUME NEW v, NEW t
  PROVE  GoodItem(NoPredItem(v, t))
BY NothingNumbered, PredItemGood DEF NoPredItem

\* A signature is as good as its parameters.
LEMMA SignatureGood ==
  ASSUME NEW f, NEW params, GoodParams(params), NEW text
  PROVE  GoodItem(Signature(f, params, text))
<1> DEFINE it == Item("fn", {FnId(f)}, text)
<1>1. GoodItem(it)
  BY ItemGood
<1>2. Signature(f, params, text) = [it EXCEPT !.params = params]
  BY DEF Signature
<1> HIDE DEF it
<1> QED  BY <1>1, <1>2 DEF GoodItem

\* What an item is called and what its text is does not matter.
LEMMA GoodWithText ==
  ASSUME NEW x, GoodItem(x), NEW text
  PROVE  /\ \A y : y = [x EXCEPT !.text = text] => GoodItem(y)
         /\ \A y : y = [x EXCEPT !.what = text] => GoodItem(y)
BY DEF GoodItem

\* Items after items.
LEMMA GoodJoined ==
  ASSUME NEW items, NEW more, GoodItems(items), GoodItems(more)
  PROVE  GoodItems(items \o more)
<1> DEFINE s == items \o more
           n == Len(items)
<1>1. /\ IsSeq(s) /\ Len(s) = n + Len(more) /\ n \in Nat /\ Len(more) \in Nat
      /\ DOMAIN s = 1 .. Len(s) /\ DOMAIN items = 1 .. n /\ DOMAIN more = 1 .. Len(more)
      /\ \A k \in 1 .. n : s[k] = items[k]
      /\ \A k \in 1 .. Len(more) : s[n + k] = more[k]
  BY ConcatHas, SeqHas DEF GoodItems
<1> HIDE DEF s, n
<1>2. ASSUME NEW k \in DOMAIN s PROVE GoodItem(s[k])
  <2>1. CASE k <= n
    BY <1>1, <2>1 DEF GoodItems
  <2>2. CASE ~(k <= n)
    <3>1. k - n \in 1 .. Len(more) /\ n + (k - n) = k
      BY <1>1, <2>2
    <3> QED  BY <1>1, <3>1 DEF GoodItems
  <2> QED  BY <2>1, <2>2
<1> QED  BY <1>1, <1>2 DEF GoodItems, s

\* None, one, or two items.
LEMMA GoodFew ==
  ASSUME NEW x, GoodItem(x)
  PROVE  /\ GoodItems(<<>>) /\ GoodItems(<<x>>)
         /\ \A y : GoodItem(y) => GoodItems(<<x, y>>)
BY EmptyIsSeq, OneIsSeq, TwoIsSeq DEF GoodItems
-----------------------------------------------------------------------------
\* What emitting a declaration gives: tables, and items whose claims are numbered
GoodOutput(printed) == Tables(printed.em) /\ GoodItems(printed.items)

\* What Printed is made of.
LEMMA PrintedHas == \A em, items : Printed(em, items).em = em /\ Printed(em, items).items = items
BY DEF Printed

\* A predicate that is entered into a table has a list of types there.
LEMMA RegisterTables ==
  ASSUME NEW em, Tables(em), NEW v, NEW t, NEW tys, IsSeq(tys)
  PROVE  Tables(Register(em, v, t, tys))
<1>1. \A table : (\A x \in DOMAIN table : IsSeq(table[x]))
                   => \A x \in DOMAIN Put(table, TypeId(t), tys) :
                        IsSeq(Put(table, TypeId(t), tys)[x])
  BY DEF Put
<1> DEFINE a == Put(em.vals, TypeId(t), tys)
           b == Put(em.uninit_vals, TypeId(t), tys)
<1>2. /\ \A x \in DOMAIN a : IsSeq(a[x])
      /\ \A x \in DOMAIN b : IsSeq(b[x])
  BY <1>1 DEF Tables
<1>3. Register(em, v, t, tys) = IF v.init THEN [em EXCEPT !.vals = a] ELSE [em EXCEPT !.uninit_vals = b]
  BY DEF Register
<1> HIDE DEF a, b
<1> QED  BY <1>2, <1>3 DEF Tables

\* The types of the values of a claim are such a list.
LEMMA BinderTypesIsSeq ==
  ASSUME NEW c, Numbered(c)
  PROVE  IsSeq(BinderTypes(c))
<1> DEFINE s == [k \in DOMAIN c.binders |-> c.binders[k].ty]
<1>1. Len(c.binders) \in Nat /\ DOMAIN c.binders = 1 .. Len(c.binders)
  BY SeqHas DEF Numbered, NumberedFrom
<1>2. s = [k \in 1 .. Len(c.binders) |-> s[k]]
  BY <1>1
<1>3. BinderTypes(c) = s
  BY DEF BinderTypes
<1> HIDE DEF s
<1> QED  BY <1>1, <1>2, <1>3, SeqIs

\* emit_def_pred prints one predicate of a type and enters it.
LEMMA DefPredGood ==
  ASSUME ShapesAsDefined, EmittedAsDefined, NEW em, Tables(em), NEW n, NEW t, NEW d, NEW v,
         d.op = "typedef" => SomeType(d.ty),
         d.op # "typedef" => SomeArgs(d.fields)
  PROVE  GoodOutput(emit_def_pred(em, n, t, d, v))
<1> DEFINE c == DefinedSlprop(em, d, v)
<1>1. Numbered(c)
  BY NothingNumbered, SlpropNumbered, FieldsNumbered DEF DefinedSlprop
<1> HIDE DEF c
<1> DEFINE reg == Register(em, v, t, BinderTypes(c))
           it == PredItem(v, t, c, wrap_exists(n, c))
<1>2. emit_def_pred(em, n, t, d, v) = Printed(reg, <<it>>)
  BY DEF emit_def_pred, emit_pred_decl, c
<1>3. Tables(reg)
  BY <1>1, RegisterTables, BinderTypesIsSeq
<1>4. GoodItems(<<it>>)
  BY <1>1, PredItemGood, GoodFew
<1> HIDE DEF reg, it
<1> QED  BY <1>2, <1>3, <1>4, PrintedHas DEF GoodOutput

\* Then the other one, with the tables as the first left them.
LEMMA BothPredsGood ==
  ASSUME ShapesAsDefined, EmittedAsDefined, NEW em, Tables(em), NEW n, NEW t, NEW d,
         d.op = "typedef" => SomeType(d.ty),
         d.op # "typedef" => SomeArgs(d.fields)
  PROVE  GoodOutput(BothPreds(em, n, t, d))
<1> DEFINE first == emit_def_pred(em, n, t, d, Initialised("p"))
           second == emit_def_pred(first.em, n, t, d, Uninitialised)
<1>1. GoodOutput(first)
  BY DefPredGood
<1>2. Tables(first.em)
  BY <1>1 DEF GoodOutput
<1>3. GoodOutput(second)
  BY <1>2, DefPredGood
<1>4. BothPreds(em, n, t, d) = Printed(second.em, first.items \o second.items)
  BY DEF BothPreds, AndUninit, Together
<1> HIDE DEF first, second
<1> QED  BY <1>1, <1>3, <1>4, PrintedHas, GoodJoined DEF GoodOutput

\* Other items may stand before and after.
LEMMA AroundGood ==
  ASSUME NEW preds, GoodOutput(preds), NEW before, NEW after, GoodItems(before), GoodItems(after)
  PROVE  GoodOutput(Around(before, preds, after))
BY PrintedHas, GoodJoined DEF GoodOutput, Around

\* emit_typedef (emit.rs): the type, its predicates and its default.
LEMMA TypedefGood ==
  ASSUME ShapesAsDefined, EmittedAsDefined, NEW em, Tables(em), NEW n, NEW d,
         d.op = "typedef", SomeType(d.ty)
  PROVE  GoodOutput(emit_typedef(em, n, d))
<1> DEFINE t == TypeRef("typedef", d.name)
           preds == BothPreds(em, PushThis(PushDecl(n, d), t), t, d)
           before == <<Item("type", {TypeId(t)}, emit_type(d.ty))>>
           after == <<Item("instance", {DefaultId(t)}, {TypeId(t)} \cup emit_type_default(d.ty))>>
<1>1. emit_typedef(em, n, d) = Around(before, preds, after)
  BY Zenon DEF emit_typedef
<1>2. GoodOutput(preds)
  BY BothPredsGood
<1>3. GoodItems(before) /\ GoodItems(after)
  BY ItemGood, GoodFew
<1> HIDE DEF before, after, preds
<1> QED  BY <1>1, <1>2, <1>3, AroundGood

\* emit_structdefn (emit.rs), which is open while its predicates are printed.
LEMMA StructGood ==
  ASSUME ShapesAsDefined, EmittedAsDefined, NEW em, Tables(em), NEW n, NEW d,
         d.op = "struct_defn", SomeArgs(d.fields)
  PROVE  GoodOutput(emit_structdefn(em, n, d))
<1> DEFINE opened == [em EXCEPT !.defining = d.name]
           t == TypeRef("struct", d.name)
           preds == BothPreds(opened, PushThis(PushStruct(n, d), t), t, d)
           fields == FieldsId("struct", d.name)
           before == <<Inductive("type", {TypeId(t), fields}, FieldTypes(d.fields))>>
           instance == Item("instance", {DefaultId(t)}, {TypeId(t), fields} \cup FieldDefaults(d.fields))
           after == <<AuxItem(t, d.fields), instance>>
           open == StructItems(opened, n, d)
<1>1. Tables(opened)
  BY DEF Tables
<1>2. open = Around(before, preds, after)
  BY Zenon DEF StructItems
<1> HIDE DEF opened
<1>3. GoodOutput(preds)
  BY <1>1, BothPredsGood
<1>4. GoodItems(before)
  BY ItemGood, GoodFew
<1>5. GoodItems(after)
  <2>1. GoodItem(AuxItem(t, d.fields)) /\ GoodItem(instance)
    BY ItemGood DEF AuxItem
  <2> HIDE DEF instance
  <2> QED  BY <2>1, GoodFew
<1> HIDE DEF before, after, preds, open
<1>6. GoodOutput(open)
  BY <1>2, <1>3, <1>4, <1>5, AroundGood
<1>7. emit_structdefn(em, n, d) = Printed([open.em EXCEPT !.defining = "none"], open.items)
  BY DEF emit_structdefn, Closed, open, opened
<1> DEFINE closed == [open.em EXCEPT !.defining = "none"]
<1>8. Tables(closed)
  BY <1>6 DEF GoodOutput, Tables
<1> HIDE DEF closed
<1> QED  BY <1>6, <1>7, <1>8, PrintedHas DEF GoodOutput, closed

\* emit_uniondefn (emit.rs) enters two empty lists.
LEMMA UnionGood ==
  ASSUME NEW em, Tables(em), NEW d
  PROVE  GoodOutput(emit_uniondefn(em, d))
<1> DEFINE t == TypeRef("union", d.name)
           fields == FieldsId("union", d.name)
           default == Item("instance", {DefaultId(t)},
                           {TypeId(t), fields} \cup FieldDefaults(SubSeq(d.fields, 1, 1)))
           type == Inductive("type", {TypeId(t), fields}, FieldTypes(d.fields))
           p == NoPredItem(Initialised("p"), t)
           q == NoPredItem(Uninitialised, t)
           aux == AuxItem(t, d.fields)
           reg == Register(Register(em, Initialised("p"), t, <<>>), Uninitialised, t, <<>>)
           last == IF d.fields = <<>> THEN <<>> ELSE <<default>>
<1>1. emit_uniondefn(em, d) = Printed(reg, <<type, p, q, aux>> \o last)
  BY Zenon DEF emit_uniondefn
<1>2. Tables(reg)
  BY EmptyIsSeq, RegisterTables
<1>3. GoodItem(default) /\ GoodItem(type) /\ GoodItem(p) /\ GoodItem(q) /\ GoodItem(aux)
  BY ItemGood, NoPredItemGood DEF AuxItem
<1> HIDE DEF default, type, p, q, aux, reg
<1>4. GoodItems(<<type, p, q, aux>>)
  <2>1. <<type, p, q, aux>> = <<type, p>> \o <<q, aux>>
    OBVIOUS
  <2> QED  BY <1>3, <2>1, GoodFew, GoodJoined
<1>5. GoodItems(last)
  BY <1>3, GoodFew
<1> HIDE DEF last
<1> QED  BY <1>1, <1>2, <1>4, <1>5, GoodJoined, PrintedHas DEF GoodOutput

\* emit_struct_decl (emit.rs) enters nothing.
LEMMA StructDeclGood ==
  ASSUME NEW em, Tables(em), NEW d
  PROVE  GoodOutput(emit_struct_decl(em, d))
<1> DEFINE t == TypeRef("struct", d.name)
           type == Item("type", {TypeId(t)}, {})
           p == NoPredItem(Initialised("p"), t)
           q == NoPredItem(Uninitialised, t)
<1>1. emit_struct_decl(em, d) = Printed(em, <<type, p, q>>)
  BY Zenon DEF emit_struct_decl
<1>2. GoodItem(type) /\ GoodItem(p) /\ GoodItem(q)
  BY ItemGood, NoPredItemGood
<1> HIDE DEF type, p, q
<1>3. <<type, p, q>> = <<type, p>> \o <<q>>
  OBVIOUS
<1>4. GoodItems(<<type, p, q>>)
  BY <1>2, <1>3, GoodFew, GoodJoined
<1> QED  BY <1>1, <1>4, PrintedHas DEF GoodOutput
-----------------------------------------------------------------------------
\* Parameters
GoodParam(p) == Numbered(p.pre) /\ Numbered(p.kept) /\ Numbered(p.post)

\* A parameter is as good as its three claims.
LEMMA ParamIs ==
  ASSUME NEW arg, NEW pre, NEW kept, NEW post, Numbered(pre), Numbered(kept), Numbered(post)
  PROVE  GoodParam(EmitParam(arg, pre, kept, post))
<1> DEFINE p == EmitParam(arg, pre, kept, post)
<1>1. p.pre = pre /\ p.kept = kept /\ p.post = post
  BY DEF EmitParam
<1> HIDE DEF p
<1> QED  BY <1>1 DEF GoodParam, p

\* emit_arg (emit.rs) claims of a parameter, before and after, some of three things.
LEMMA ArgGood ==
  ASSUME ShapesAsDefined, EmittedAsDefined, NEW em, Tables(em), NEW arg, SomeArg(arg)
  PROVE  GoodParam(emit_arg(em, arg))
<1> DEFINE Held(v) == emit_type_slprop(em, arg.ty, v, NoClaims, Var(arg.name))
<1>1. \A v : Numbered(Held(v))
  BY NothingNumbered, SlpropNumbered DEF SomeArg
<1> DEFINE owned == Held(Initialised("1.0R"))
           lent == Held(Initialised("'p"))
           uninit == Held(Uninitialised)
<1>2. emit_arg(em, arg) = WithMode(arg, owned, lent, uninit)
  BY DEF emit_arg
<1>3. Numbered(owned) /\ Numbered(lent) /\ Numbered(uninit)
  BY <1>1
<1> HIDE DEF owned, lent, uninit
<1>4. \E pre, kept, post \in {owned, lent, uninit, NoClaims} :
        WithMode(arg, owned, lent, uninit) = EmitParam(arg, pre, kept, post)
  BY DEF WithMode, SomeArg
<1> QED  BY <1>2, <1>3, <1>4, NothingNumbered, ParamIs

\* So for all parameters.
LEMMA ArgsGood ==
  ASSUME ShapesAsDefined, EmittedAsDefined, NEW em, Tables(em), NEW args, SomeArgs(args)
  PROVE  GoodParams(emit_args(em, args))
<1> DEFINE s == [k \in DOMAIN args |-> emit_arg(em, args[k])]
<1>1. Len(args) \in Nat /\ DOMAIN args = 1 .. Len(args)
  BY SeqHas DEF SomeArgs
<1>2. s = [k \in 1 .. Len(args) |-> s[k]] /\ DOMAIN s = DOMAIN args
  BY <1>1
<1>3. \A k \in DOMAIN args : GoodParam(s[k])
  BY ArgGood DEF SomeArgs
<1>4. emit_args(em, args) = s
  BY DEF emit_args
<1> HIDE DEF s
<1>5. IsSeq(s)
  BY <1>1, <1>2, SeqIs
<1> QED  BY <1>2, <1>3, <1>4, <1>5 DEF GoodParams, GoodParam

\* The result comes after the arguments.
LEMMA WithReturn ==
  ASSUME NEW params, GoodParams(params), NEW p, GoodParam(p)
  PROVE  GoodParams(Append(params, p))
<1> DEFINE S == {params[k] : k \in DOMAIN params} \cup {p}
           s == Append(params, p)
           n == Len(params)
<1>1. IsSeq(params) /\ n \in Nat /\ DOMAIN params = 1 .. n
  BY SeqHas DEF GoodParams
<1>2. params \in Seq(S) /\ p \in S
  BY <1>1, SeqHas
<1>3. /\ s \in Seq(S) /\ Len(s) = n + 1 /\ s[n + 1] = p
      /\ \A k \in 1 .. n : s[k] = params[k]
  BY <1>2, AppendProperties
<1>4. IsSeq(s) /\ DOMAIN s = 1 .. n + 1
  BY <1>3, SeqAny, SeqHas
<1> HIDE DEF s, n, S
<1>5. ASSUME NEW k \in DOMAIN s PROVE GoodParam(s[k])
  <2>1. CASE k = n + 1
    BY <1>3, <2>1
  <2>2. CASE k # n + 1
    <3>1. k \in 1 .. n
      BY <1>1, <1>4, <2>2
    <3> QED  BY <1>1, <1>3, <3>1 DEF GoodParams, GoodParam
  <2> QED  BY <2>1, <2>2
<1> QED  BY <1>4, <1>5 DEF GoodParams, GoodParam, s
-----------------------------------------------------------------------------
\* emit_fn_sig (emit.rs), whose result is a parameter more.
LEMMA FnSigGood ==
  ASSUME ShapesAsDefined, EmittedAsDefined, NEW em, Tables(em), NEW n, NEW fn,
         SomeArgs(fn.args), SomeType(fn.ret)
  PROVE  GoodItem(emit_fn_sig(em, n, fn))
<1> DEFINE ret == emit_ret(em, fn)
           params == Append(emit_args(em, fn.args), ret)
           sig == emit_fn_sig(em, n, fn)
<1>1. GoodParam(ret)
  <2>1. Numbered(emit_type_slprop(em, fn.ret, Initialised("1.0R"), NoClaims, Var("return")))
    BY NothingNumbered, SlpropNumbered
  <2> QED  BY <2>1, NothingNumbered, ParamIs DEF emit_ret
<1>2. GoodParams(params)
  BY <1>1, ArgsGood, WithReturn
<1>3. \E text : sig = Signature(fn.name, params, text)
  BY Zenon DEF emit_fn_sig, SignatureOf
<1> HIDE DEF params, sig
<1>4. GoodItem(sig)
  BY <1>2, <1>3, SignatureGood
<1> QED  BY <1>4 DEF sig

\* The text of an item is changed for one that may not use its own name.
LEMMA DefiningGood ==
  ASSUME NEW rec, NEW x, GoodItem(x)
  PROVE  GoodItem(Defining(rec, x))
<1>1. \/ Defining(rec, x) = x
      \/ Defining(rec, x) = [x EXCEPT !.text = x.text \ x.defines]
  BY DEF Defining
<1> DEFINE y == Defining(rec, x)
           text == x.text \ x.defines
<1>2. y = x \/ y = [x EXCEPT !.text = text]
  BY <1>1
<1> HIDE DEF y, text
<1>3. GoodItem(y)
  BY <1>2, GoodWithText
<1> QED  BY <1>3 DEF y

\* emit_fn_defn (emit.rs): a pure function claims nothing.
LEMMA FnDefnGood ==
  ASSUME ShapesAsDefined, EmittedAsDefined, NEW em, Tables(em), NEW n, NEW fn,
         SomeArgs(fn.args), SomeType(fn.ret)
  PROVE  GoodItem(emit_fn_defn(em, n, fn))
<1>1. CASE fn.pure
  <2> DEFINE x == PureFnItem(fn, ArgEnv(n, fn), RetEnv(n, fn))
  <2>1. emit_fn_defn(em, n, fn) = Defining(fn.rec, x)
    BY <1>1 DEF emit_fn_defn, emit_pure_fn
  <2>2. GoodItem(x)
    <3>1. \E defines, text : x = Item("let", defines, text)
      BY Zenon DEF PureFnItem
    <3> HIDE DEF x
    <3> QED  BY <3>1, ItemGood
  <2> QED  BY <2>1, <2>2, DefiningGood
<1>2. CASE ~fn.pure
  <2> DEFINE sig == emit_fn_sig(em, n, fn)
             body == emit_stmts(PushFnBody(n, fn), fn.body)
             x == WithBody(sig, body)
  <2>1. emit_fn_defn(em, n, fn) = Defining(fn.rec, x)
    BY <1>2 DEF emit_fn_defn
  <2>2. GoodItem(sig)
    BY FnSigGood
  <2> HIDE DEF sig, body
  <2> DEFINE text == sig.text \cup body
  <2>3. x = [sig EXCEPT !.text = text]
    BY DEF WithBody
  <2> HIDE DEF x, text
  <2>4. GoodItem(x)
    BY <2>2, <2>3, GoodWithText
  <2> QED  BY <2>1, <2>4, DefiningGood
<1> QED  BY <1>1, <1>2

\* A predicate that is not pure takes all its parameters.
LEMMA TakesAllArgs ==
  ASSUME NEW args, SomeArgs(args)
  PROVE  SomeArgs(TakesAll(args))
<1> DEFINE s == TakesAll(args)
<1>1. Len(args) \in Nat /\ DOMAIN args = 1 .. Len(args)
  BY SeqHas DEF SomeArgs
<1>2. /\ s = [k \in 1 .. Len(args) |-> s[k]]
      /\ \A k \in 1 .. Len(args) :
           s[k] = args[k] \/ s[k] = [args[k] EXCEPT !.mode = "consumed"]
  BY <1>1 DEF TakesAll
<1> HIDE DEF s
<1>3. IsSeq(s) /\ DOMAIN s = 1 .. Len(args)
  BY <1>1, <1>2, SeqIs
<1>4. ASSUME NEW k \in DOMAIN s PROVE SomeArg(s[k])
  <2>1. SomeArg(args[k]) /\ (s[k] = args[k] \/ s[k] = [args[k] EXCEPT !.mode = "consumed"])
    BY <1>1, <1>2, <1>3 DEF SomeArgs
  <2> QED  BY <2>1 DEF SomeArg
<1> QED  BY <1>3, <1>4 DEF SomeArgs, s

\* emit_let_decl (emit.rs), which claims something if it is not pure.
LEMMA LetGood ==
  ASSUME ShapesAsDefined, EmittedAsDefined, NEW em, Tables(em), NEW n, NEW d, SomeArgs(d.args)
  PROVE  GoodItem(emit_let_decl(em, n, d))
<1>1. CASE d.impure
  <2> DEFINE params == emit_args(em, TakesAll(d.args))
             x == emit_let_decl(em, n, d)
  <2>1. GoodParams(params)
    BY TakesAllArgs, ArgsGood
  <2>2. \E text : x = [Signature(d.name, params, text) EXCEPT !.what = "ghost fn"]
    <3>1. x = GhostFn(d, LetEnv(n, d), params)
      BY <1>1 DEF emit_let_decl, emit_letimpure_decl
    <3> HIDE DEF x, params
    <3> QED  BY <3>1, Zenon DEF GhostFn
  <2> HIDE DEF params, x
  <2>3. \A text : GoodItem(Signature(d.name, params, text))
    BY <2>1, SignatureGood
  <2>4. GoodItem(x)
    <3>1. PICK text : x = [Signature(d.name, params, text) EXCEPT !.what = "ghost fn"]
      BY <2>2
    <3> DEFINE y == Signature(d.name, params, text)
               called == "ghost fn"
    <3>2. GoodItem(y) /\ x = [y EXCEPT !.what = called]
      BY <2>3, <3>1
    <3> HIDE DEF y, called
    <3> QED  BY <3>2, GoodWithText
  <2> QED  BY <2>4 DEF x
<1>2. CASE ~d.impure
  <2> DEFINE x == emit_let_decl(em, n, d)
  <2>1. \E defines, text : x = Item("let", defines, text)
    BY <1>2, Zenon DEF emit_let_decl
  <2> HIDE DEF x
  <2>2. GoodItem(x)
    BY <2>1, ItemGood
  <2> QED  BY <2>2 DEF x
<1> QED  BY <1>1, <1>2
-----------------------------------------------------------------------------
\* A declaration that prints one item leaves the tables alone.
LEMMA OneItemGood ==
  ASSUME NEW em, Tables(em), NEW x, GoodItem(x)
  PROVE  GoodOutput(Printed(em, <<x>>))
BY PrintedHas, GoodFew DEF GoodOutput

\* emit_decl (emit.rs), for every kind of declaration.
LEMMA DeclGood ==
  ASSUME ShapesAsDefined, EmittedAsDefined, NEW em, Tables(em), NEW n, NEW d, HasTypes(d)
  PROVE  GoodOutput(emit_decl(em, n, d))
<1>1. CASE d.op = "typedef"
  BY <1>1, TypedefGood DEF emit_decl, HasTypes
<1>2. CASE d.op = "struct_defn"
  BY <1>2, StructGood DEF emit_decl, HasTypes
<1>3. CASE d.op = "struct_decl"
  BY <1>3, StructDeclGood DEF emit_decl
<1>4. CASE d.op = "union_defn"
  BY <1>4, UnionGood DEF emit_decl
<1>5. CASE d.op = "fn_defn"
  <2>1. SomeArgs(d.args) /\ SomeType(d.ret)
    BY <1>5 DEF HasTypes, IsFn
  <2>2. emit_decl(em, n, d) = Printed(em, <<emit_fn_defn(em, n, d)>>)
    BY <1>5 DEF emit_decl
  <2> QED  BY <2>1, <2>2, FnDefnGood, OneItemGood
<1>6. CASE d.op = "fn_decl"
  <2>1. SomeArgs(d.args) /\ SomeType(d.ret)
    BY <1>6 DEF HasTypes, IsFn
  <2>2. emit_decl(em, n, d) = Printed(em, <<emit_fn_sig(em, n, d)>>)
    BY <1>6 DEF emit_decl
  <2> QED  BY <2>1, <2>2, FnSigGood, OneItemGood
<1>7. CASE d.op = "let"
  <2>1. SomeArgs(d.args)
    BY <1>7 DEF HasTypes
  <2>2. emit_decl(em, n, d) = Printed(em, <<emit_let_decl(em, n, d)>>)
    BY <1>7 DEF emit_decl
  <2> QED  BY <2>1, <2>2, LetGood, OneItemGood
<1>8. CASE d.op \in {"include", "opaque"}
  <2>1. \E what, defines, text :
          emit_decl(em, n, d) = Printed(em, <<Item(what, defines, text)>>)
    <3>1. \/ emit_decl(em, n, d)
               = Printed(em, <<Item("include", {}, emit_inline_pulse_tokens(n, d.code))>>)
          \/ emit_decl(em, n, d)
               = Printed(em, <<Item("type", {TypeId(TypeRef("typedef", d.name))},
                                    emit_inline_pulse_tokens(n, d.code))>>)
      BY <1>8 DEF emit_decl
    <3> QED  BY <3>1, Zenon
  <2> QED  BY <2>1, ItemGood, OneItemGood
<1>9. CASE d.op = "global"
  <2> DEFINE x == emit_global_var(n, d)
  <2>1. emit_decl(em, n, d) = Printed(em, <<x>>)
    BY <1>9 DEF emit_decl
  <2>2. \E what, defines, text : x = Item(what, defines, text)
    BY Zenon DEF emit_global_var
  <2> HIDE DEF x
  <2>3. GoodItem(x)
    BY <2>2, ItemGood
  <2> QED  BY <2>1, <2>3, OneItemGood
<1> QED  BY <1>1, <1>2, <1>3, <1>4, <1>5, <1>6, <1>7, <1>8, <1>9 DEF HasTypes, DeclOps

\* One turn of the loop of emit.
LEMMA NextGood ==
  ASSUME ShapesAsDefined, EmittedAsDefined, NEW em, Tables(em), NEW n, NEW d, HasTypes(d)
  PROVE  Tables(emit_next(em, n, d).em) /\ GoodItems(emit_next(em, n, d).items)
<1> DEFINE early == IF d.op = "fn_defn" /\ d.rec THEN PushFn(n, d) ELSE n
           printed == emit_decl(em, early, d)
           next == emit_next(em, n, d)
<1>1. next.em = printed.em /\ next.items = printed.items
  BY DEF emit_next, Pushed
<1>2. GoodOutput(printed)
  BY DeclGood
<1> HIDE DEF next, printed
<1> QED  BY <1>1, <1>2 DEF GoodOutput, next
-----------------------------------------------------------------------------
\* The types of the unit are of some depth, the emitter's tables list types, and the
\* claims of what was printed are numbered.
BinderInv ==
  /\ i \in Nat \ {0} /\ AllHaveTypes(decls)
  /\ Tables(emitter) /\ GoodItems(output)

\* It holds of the unit that is read, of which nothing has been printed.
LEMMA BinderInvInit ==
  ASSUME Init
  PROVE  BinderInv
<1>1. MaxDepth \in Nat /\ IsUnit(MaxDepth, decls)
  BY UnitsAssumption DEF Init
<1>2. AllHaveTypes(decls)
  BY <1>1, DeclHasTypes DEF IsUnit, AllHaveTypes
<1>3. Tables(NewEmitter)
  BY DEF NewEmitter, Tables, Empty
<1>4. i = 1 /\ emitter = NewEmitter /\ output = <<>>
  BY DEF Init
<1> QED  BY <1>2, <1>3, <1>4, EmptyIsSeq DEF BinderInv, GoodItems

\* What the proof takes as defined
BindersAsDefined ==
  ShapesAsDefined /\ ElaborateAsDefined /\ WithoutAsDefined /\ ArgsAsDefined /\ EmittedAsDefined

\* Every step keeps it.
LEMMA BinderInvNext ==
  ASSUME BindersAsDefined, BinderInv, [Next]_vars
  PROVE  BinderInv'
<1>0. i \in Nat \ {0} /\ i + 1 \in Nat \ {0} /\ 1 \in Nat \ {0}
  BY DEF BinderInv
<1>1. CASE MergeStep
  <2>1. decls' = merge(decls).unit /\ i' = i /\ emitter' = emitter /\ output' = output
    BY <1>1 DEF MergeStep
  <2>2. AllHaveTypes(merge(decls).unit)
    BY MergedHasTypes DEF BinderInv, BindersAsDefined
  <2> QED  BY <1>0, <2>1, <2>2 DEF BinderInv
<1>2. CASE ElabStep
  <2> DEFINE v == elab_next(env, decls[i]).decl
             s == [decls EXCEPT ![i] = v]
  <2>1. decls' = s /\ i' = i + 1 /\ emitter' = emitter /\ output' = output
    BY <1>2 DEF ElabStep
  <2>2. IsSeq(decls) /\ Len(decls) \in Nat /\ DOMAIN decls = 1 .. Len(decls)
    BY SeqHas DEF BinderInv, AllHaveTypes
  <2>3. i \in DOMAIN decls => HasTypes(v)
    BY ElabNextHasTypes DEF BinderInv, AllHaveTypes, BindersAsDefined
  <2> HIDE DEF v
  <2>4. /\ s = [k \in 1 .. Len(decls) |-> s[k]]
        /\ \A k \in DOMAIN decls : s[k] = IF k = i THEN v ELSE decls[k]
    BY <2>2
  <2> HIDE DEF s
  <2>5. IsSeq(s) /\ DOMAIN s = DOMAIN decls
    BY <2>2, <2>4, SeqIs
  <2>6. \A k \in DOMAIN decls : HasTypes(s[k])
    BY <2>3, <2>4 DEF BinderInv, AllHaveTypes
  <2>7. AllHaveTypes(s)
    BY <2>5, <2>6 DEF AllHaveTypes
  <2> QED  BY <1>0, <2>1, <2>7 DEF BinderInv
<1>3. CASE EmitStep
  <2> DEFINE next == emit_next(emitter, env, decls[i])
  <2>1. /\ i <= Len(decls) /\ decls' = decls /\ i' = i + 1 /\ emitter' = next.em
        /\ output' = output \o next.items
    BY <1>3 DEF EmitStep
  <2>2. HasTypes(decls[i])
    BY <1>0, <2>1, SeqHas DEF BinderInv, AllHaveTypes
  <2>3. Tables(next.em) /\ GoodItems(next.items)
    BY <2>2, NextGood DEF BinderInv, BindersAsDefined
  <2> HIDE DEF next
  <2>4. GoodItems(output \o next.items)
    BY <2>3, GoodJoined DEF BinderInv
  <2> QED  BY <1>0, <2>1, <2>3, <2>4 DEF BinderInv
<1>4. CASE CheckNamesStep \/ CheckTypesStep \/ NextPass \/ UNCHANGED vars
  <2>1. decls' = decls /\ emitter' = emitter /\ output' = output /\ i' \in {i, i + 1, 1}
    BY <1>4 DEF CheckNamesStep, CheckTypesStep, NextPass, vars
  <2> QED  BY <1>0, <2>1 DEF BinderInv
<1> QED  BY <1>1, <1>2, <1>3, <1>4 DEF Next

\* Values numbered in order have different names.
LEMMA BinderInvShows ==
  ASSUME BinderInv
  PROVE  BindersAreDistinct
<1>1. ASSUME NEW c, Numbered(c), NEW a \in DOMAIN c.binders, NEW b \in DOMAIN c.binders,
             c.binders[a].name = c.binders[b].name, c.binders[a].name[1] = "val"
      PROVE  a = b
  <2>1. 0 + a - 1 = 0 + b - 1
    BY <1>1 DEF Numbered, NumberedFrom
  <2>2. a \in Int /\ b \in Int
    <3>1. IsSeq(c.binders)
      BY <1>1 DEF Numbered, NumberedFrom
    <3>2. DOMAIN c.binders = 1 .. Len(c.binders)
      BY <3>1, SeqHas
    <3> DEFINE n == Len(c.binders)
    <3> HIDE DEF n
    <3>3. a \in 1 .. n /\ b \in 1 .. n
      BY <3>2 DEF n
    <3> QED  BY <3>3
  <2> QED  BY <2>1, <2>2
<1>2. \A k \in DOMAIN output : \A c \in ClaimsOf(output[k]) : Numbered(c)
  BY DEF BinderInv, GoodItems, GoodItem, GoodParams, ClaimsOf
<1> QED  BY <1>1, <1>2 DEF BindersAreDistinct

\* In what is printed for any unit, the values bound in one claim have different
\* names (emit.rs:679), through all the types of the unit and in whatever order its
\* declarations come.
THEOREM BindersAreApart ==
  ASSUME BindersAsDefined
  PROVE  Spec => []BindersAreDistinct
<1>1. Init => BinderInv
  BY BinderInvInit
<1>2. BinderInv /\ [Next]_vars => BinderInv'
  BY BinderInvNext
<1>3. BinderInv => BindersAreDistinct
  BY BinderInvShows
<1> QED  BY <1>1, <1>2, <1>3, PTL DEF Spec
=============================================================================
