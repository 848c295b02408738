----------------------------- MODULE MCLockstep -----------------------------
(* Instances of Lockstep for TLC *)
EXTENDS Lockstep, TLC

\* Lists of at most two statements of a set
UpTo2(S) == {<<>>} \cup {<<s>> : s \in S} \cup {<<s, t>> : s, t \in S}
Blocks(S) == {Block(list) : list \in UpTo2(S)}

a == Act("a")
p == Test("p")
Condition == {Test("q"), Lit(TRUE)}

\* What can stand in the body of a loop, and the loops
Simple == {a, Break, Continue, Return, If(p, <<Break>>, <<>>), If(p, <<Continue>>, <<a>>)}
Whiles(S) == {While(c, <<body>>) : c \in Condition, body \in S}
Dos(S) == {Do(<<body>>, c) : c \in Condition, body \in S}
Fors(S) == {For(<<Act("init")>>, c, incr, <<body>>) :
              c \in Condition, incr \in {<<>>, <<Act("incr")>>}, body \in S}

Nested(S, inner) == {Block(<<x, y>>) : x \in S, y \in inner} \cup {Block(<<y, x>>) : x \in S, y \in inner}

\* Loops, and loops with a loop in their body; a do with a continue of its own
\* stands in a for only if that has no increment.
Body == Blocks(Simple)
Inner == {Block(<<>>), Block(<<a, Continue>>), Block(<<If(p, <<Continue>>, <<>>), Break>>)}
Loops ==
  Whiles(Body) \cup Dos(Body) \cup Fors(Body)
  \cup LET In == Nested({a, Continue, If(p, <<Break>>, <<>>)}, Whiles(Inner) \cup Fors(Inner))
           Do2 == Nested({a, Continue, If(p, <<Break>>, <<>>)}, Dos(Inner))
           DoIn == Nested({a, Break}, Dos({Block(<<>>), Block(<<a, If(p, <<Break>>, <<>>)>>)}))
       IN Whiles(In) \cup Dos(In) \cup Fors(In) \cup Whiles(Do2) \cup Dos(Do2) \cup Fors(DoIn)

\* The bodies of switches, each label with the statement it has in S
Switches(S) ==
  {Switch("s", Block(list)) :
     list \in {<<Case(1, x), Case(2, y)>> : x, y \in S}
              \cup {<<Case(1, x), Case(2, y), Default(z)>> : x, y, z \in S}
              \cup {<<Case(1, Case(2, x)), Default(y)>> : x, y \in S}
              \cup {<<Default(x), Case(1, y)>> : x, y \in S}
              \cup {<<Case(1, x), Case(2, Default(y))>> : x, y \in S}}
  \cup {Switch("s", Case(1, a))}

\* Where each label has a block of its own and a break comes last in it
BreakLast == {Block(<<>>), Block(<<a>>), Block(<<a, Break>>), Block(<<If(p, <<Break>>, <<a>>)>>),
              Block(<<Switch("t", Block(<<Case(1, Block(<<a, Break>>)), Default(a)>>)), Break>>)}
LabelInLoop == {Block(<<a, Continue>>), Block(<<If(p, <<Continue>>, <<>>), Break>>), Block(<<>>),
               Block(<<While(p, <<If(p, <<Continue>>, <<Return>>)>>)>>)}

\* A variable declared again in a block, and used there
Inside(n) == <<Use("x"), Declare("x", n), Use("x")>>
Shadows ==
  {If(p, Inside(2), Inside(3)), While(p, Inside(4)), Do(Inside(5), p), For(<<>>, p, <<>>, Inside(6)),
   While(p, <<If(Test("q"), <<Goto("n")>>, <<>>), Use("x"), Label("n", Use("x"))>>)}

\* Statements that jump out of each kind of statement, to label l or m
Stmt ==
  [l |-> Label("l", Act("b")), m |-> Label("m", Use("x")),
   goto |-> Goto("l"),
   while |-> While(p, <<If(Test("q"), <<Goto("l")>>, <<>>), Use("x")>>),
   for |-> For(<<>>, p, <<Use("x")>>, <<Declare("y", 9), If(Test("q"), <<Goto("l")>>, <<>>)>>),
   if |-> If(p, <<Goto("m")>>, <<a>>),
   do |-> Do(<<If(p, <<Goto("m")>>, <<Continue>>)>>, Test("q")),
   switch |-> Switch("s", Block(<<Case(1, Block(<<Goto("m")>>)), Default(a)>>)),
   shadow |-> While(p, Inside(2))]

\* Gotos and labels in any order, each label once.  A goto may stand before its
\* label or after, the parts to be made blocks apart or overlapping.
Orders ==
  LET To == [l |-> {"goto", "while", "for"}, m |-> {"if", "do", "switch"}]
      Count(z, S) == Cardinality({i \in DOMAIN z : z[i] \in S})
  IN {z \in BoundedSeq(DOMAIN Stmt, 4) :
        /\ Count(z, {"shadow"}) <= 1
        /\ \A l \in {"l", "m"} : Count(z, {l}) <= 1 /\ (Count(z, To[l]) > 0 => Count(z, {l}) = 1)}
Jumping ==
  {Block(<<Declare("x", 1)>> \o [i \in DOMAIN z |-> Stmt[z[i]]]) : z \in Orders}
  \cup {Block(<<Declare("x", 1), s, Use("x")>>) : s \in Shadows}

MCPrograms ==
  Jumping \cup Loops \cup Switches(BreakLast)
  \cup {Block(<<x, Act("b")>>) : x \in Whiles(Switches(LabelInLoop)) \cup Dos(Switches(LabelInLoop))
                                       \cup Fors(Switches(LabelInLoop))}

\* The switches of test/switch_stmt.c, where a break is a child of the switch;
\* a break before the end of a block, and a loop with a break in a case
SwitchPrograms ==
  {Block(<<Switch("s", Block(<<Case(1, a), Break, Default(Act("b")), Break>>)), Return>>),
   Switch("s", Block(<<Case(1, Block(<<If(p, <<Break>>, <<>>), a>>))>>)),
   Switch("s", Block(<<Case(1, Block(<<While(p, <<a, Break>>)>>))>>))}

\* A do with a continue, in a for
ForPrograms == Fors(Dos({Block(<<a, If(p, <<Continue>>, <<>>)>>)}))

\* A variable declared again in a block of its own, in the init of a for, in the
\* body of a for whose increment uses the outer one, and after a goto
ScopePrograms ==
  {Block(<<Declare("x", 1)>> \o rest) :
     rest \in {<<Block(<<Declare("x", 2)>>), Use("x")>>,
               <<For(<<Declare("x", 2)>>, p, <<Use("x")>>, <<>>), Use("x")>>,
               <<For(<<>>, p, <<Use("x")>>, <<Declare("x", 2)>>)>>,
               <<While(p, <<If(Test("q"), <<Goto("l")>>, <<>>), Declare("x", 2), Label("l", Use("x"))>>)>>}}

JumpPrograms == SwitchPrograms \cup ForPrograms \cup ScopePrograms
=============================================================================
