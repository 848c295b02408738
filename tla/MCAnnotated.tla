---------------------------- MODULE MCAnnotated ----------------------------
(***************************************************************************)
(* Programs for the annotation parser: every operator under and over every *)
(* other, in both operands and both styles; every other form of an         *)
(* expression as an operand; Pulse code with its antiquotations next to    *)
(* each other, with and without white space; the attributes of functions,  *)
(* parameters and types one after the other; declarations that follow each *)
(* other while Clang reads ahead; and texts with faults.                   *)
(***************************************************************************)
EXTENDS Annotated

x == Var("x")
y == Var("y")
z == Var("z")
Six == Literal("6", <<>>)
IntOf(n) == CType(<<"int">>, n)
RECURSIVE Listing(_)
Listing(S) ==                        \* a set in some order
  IF S = {} THEN <<>> ELSE LET e == CHOOSE e \in S : TRUE IN <<e>> \o Listing(S \ {e})

Contract(exprs) == Function("f", <<>>, Void, [k \in DOMAIN exprs |-> Attr("requires", <<ExprText(exprs[k])>>)])
Both(decls) == {Program(r, decls) : r \in BOOLEAN}

\* Functions that require the expressions of S, three each
Chunk(list, k) == SubSeq(list, k, IF k + 2 > Len(list) THEN Len(list) ELSE k + 2)
AskedOf(list) == UNION {Both(<<Contract(Chunk(list, k))>>) : k \in {n \in DOMAIN list : n % 3 = 1}}
Asked(S) == AskedOf(Listing(S))
-----------------------------------------------------------------------------
Operators == DOMAIN Precedence

\* Two operators, one in the left or the right operand of the other
PairsOf(op) ==
  {BinOp(op, BinOp(other, x, y), z) : other \in Operators}
    \cup {BinOp(op, x, BinOp(other, y, z)) : other \in Operators}
Nestings == UNION {Asked(PairsOf(op)) : op \in Operators}

\* What an operand can be besides
Simple == {x, Six, Literal("1", <<"u">>), Literal("7", <<"u", "l">>), Literal("2", <<"l", "l", "u">>),
           Literal("0", <<"u", "z">>)}
Postfixes ==
  {Index(x, y), Member(x, "a"), Arrow(x, "a"), Index(Arrow(x, "a"), BinOp("+", y, Six)),
   Arrow(Index(x, y), "a"), FnCall("g", <<>>), FnCall("g", <<x, BinOp("==>", y, z)>>),
   Member(FnCall("g", <<x>>), "a"), Old(Prefix("*", x)), Live(Arrow(x, "a"))}
Prefixes(S) ==
  {Prefix(op, e) : op \in DOMAIN UnaryOps, e \in S}
    \cup {CastTo(ty, e) : ty \in {IntOf(0), CType(<<"t">>, 0)}, e \in S}
    \cup {Index(e, y) : e \in S} \cup {Arrow(e, "a") : e \in S}
CTypes ==
  {CType(w, 0) : w \in DOMAIN IntegerTypes}
    \cup {CType(w, n) : w \in {<<"struct", "s">>, <<"t">>, <<"_specint">>, <<"bool">>, <<"size_t">>},
                        n \in {0, 2}}
Typed ==
  {ForAll("i", ty, BinOp("<", Var("i"), x)) : ty \in CTypes}
    \cup {CastTo(ty, x) : ty \in CTypes}
    \cup {BinOp("&&", x, Exists("j", IntOf(1), BinOp("==>", Prefix("*", Var("j")), y)))}
Emp(piece) == PulseCode(Untyped, <<Copy(FALSE, "emp"), piece>>)
Coded ==
  {PulseCode(Untyped, <<Copy(FALSE, "emp")>>), PulseCode(CType(<<"_slprop">>, 0), <<Quote(FALSE, FALSE, x)>>),
   BinOp("&&", PulseCode(CType(<<"bool">>, 0), <<Copy(FALSE, "true")>>), BinOp("+", x, y)),
   BinOp("&&", x, Emp(Quote(TRUE, FALSE, BinOp("+", x, Emp(Quote(TRUE, TRUE, y)))))),
   BinOp("&&", Emp(Quote(TRUE, FALSE, y)), Emp(Quote(TRUE, TRUE, Arrow(x, "a"))))}

Shapes ==
  Asked(Simple) \cup Asked(Postfixes) \cup Asked(Prefixes(Simple)) \cup Asked(Prefixes(Postfixes))
    \cup Asked(Prefixes({BinOp("+", x, y), BinOp("==>", x, y), Prefix("-", x), Prefix("&", x), CastTo(IntOf(1), x)}))
    \cup Asked(Typed) \cup Asked(Coded)
-----------------------------------------------------------------------------
\* Pieces of Pulse code, two in a row or within parentheses
Items ==
  {Copy(TRUE, "a"), Copy(TRUE, "->"), Entails(TRUE), Quote(TRUE, FALSE, x), Quote(TRUE, TRUE, Arrow(x, "a")),
   Quote(TRUE, FALSE, FnCall("g", <<x, BinOp("+", y, z)>>)),
   Mention(TRUE, <<"type">>, CType(<<"unsigned", "int">>, 1), ""),
   Mention(TRUE, <<"field">>, CType(<<"struct", "s">>, 0), "a"),
   Mention(TRUE, <<"declare">>, CType(<<"t">>, 0), "x"),
   Mention(TRUE, <<"fold">>, CType(<<"t">>, 0), ""),
   Mention(TRUE, <<"unfold", "-", "uninit">>, CType(<<"t">>, 0), "a"),
   Ticked(TRUE, "", "a"), Ticked(TRUE, "a", ""), Ticked(TRUE, "a", "b")}
Joined == {Entails(FALSE), Quote(FALSE, FALSE, x)}
Codes ==
  {<<a, b>> : a \in Items, b \in Items \cup Joined}
    \cup {<<Copy(FALSE, "("), a, Copy(FALSE, ")")>> : a \in Items}
Includes == {Program(FALSE, <<Standalone("include", <<CodeText(code)>>)>>) : code \in Codes}
-----------------------------------------------------------------------------
\* Attributes
Positive == ExprText(BinOp("<", Six, Var("this")))
FnAttrs ==
  {Attr("requires", <<ExprText(x)>>), Attr("ensures", <<ExprText(BinOp("==", Var("return"), Old(x)))>>),
   Attr("preserves", <<ExprText(BinOp("&&", x, Emp(Quote(TRUE, FALSE, y))))>>),
   Attr("decreases", <<ExprText(CastTo(CType(<<"_specint">>, 0), x))>>), Attr("pure", <<>>), Attr("rec", <<>>),
   Attr("ghost-arg", <<WordsText(<<"_slprop", "v">>)>>)}
TypeAttrs ==
  {Attr("refine", <<Positive>>), Attr("refine-always", <<ExprText(x)>>), Attr("refine-uninit", <<ExprText(y)>>),
   Attr("refine-value", <<WordsText(<<"t", "l">>), ExprText(Emp(Quote(TRUE, FALSE, Var("this"))))>>),
   Attr("plain", <<>>)}
OnArrays == {<<>>, <<Attr("array", <<>>)>>, <<Attr("arrayptr", <<>>)>>}      \* next to the type
Modes == {Attr("consumes", <<>>), Attr("out", <<>>)}

Attributed(attrs, onArg) ==
  Program(FALSE, <<Function("f", <<ArgOf("p", Ptr(I32, "unknown"), onArg), ArgOf("q", I32, <<>>)>>, I32, attrs)>>)
FnPrograms == {Attributed(<<a, b, c>>, <<>>) : a \in FnAttrs, b \in FnAttrs \cup {Attr("refine", <<Positive>>)},
                                              c \in FnAttrs}
ArgPrograms ==
  {Attributed(<<Attr("requires", <<Positive>>)>>, <<a, b>> \o c) : a \in TypeAttrs \cup Modes, b \in TypeAttrs, c \in OnArrays}
Typedefs ==
  {Program(FALSE, <<TypedefOfType("t", Ptr(I32, "unknown"), <<a, b>> \o c)>>) : a, b \in TypeAttrs, c \in OnArrays}
-----------------------------------------------------------------------------
\* Declarations that stand on their own, and functions, one after the other
Sig(ret, params) == SigText(ret, "small", params, <<BinOp("<", x, Six)>>, <<Var("return")>>)
SigParams ==
  {SigParam("", "", IntOf(0), "x"), SigParam("const", "", CType(<<"t">>, 1), "x"), SigParam("_plain", "array", IntOf(1), ""),
   SigParam("_out", "arrayptr", CType(<<"struct", "s">>, 1), "x"), SigParam("_consumes", "", CType(<<"_slprop">>, 0), "")}
Lets ==
  {Standalone(kind, <<Sig(CType(<<"bool">>, 0), <<p>>), ExprText(BinOp("<", x, Six))>>) :
     kind \in {"let", "let-rec"}, p \in SigParams}
    \cup {Standalone("letimpure", <<Sig(CType(<<"t">>, 1), <<p, q>>), ExprText(Emp(Quote(TRUE, FALSE, x)))>>) :
            p \in SigParams, q \in SigParams}
LetPrograms == {Program(r, <<d>>) : r \in BOOLEAN, d \in Lets}

Kinds ==
  {Standalone("include", <<CodeText(<<Copy(FALSE, "open"), Quote(TRUE, FALSE, x)>>)>>),
   Standalone("type", <<WordsText(<<"handle">>), CodeText(<<Mention(TRUE, <<"type">>, IntOf(0), "")>>)>>),
   Standalone("let", <<Sig(IntOf(0), <<>>), ExprText(BinOp("+", x, Six))>>),
   TypedefOfType("t", I32, <<Attr("refine", <<Positive>>)>>),
   Function("f", <<ArgOf("p", I32, <<Attr("refine", <<ExprText(Emp(Quote(TRUE, FALSE, x)))>>)>>)>>, I32,
            <<Attr("preserves", <<ExprText(y)>>), Attr("ensures", <<ExprText(z)>>)>>)}
Sequenced == {Program(FALSE, <<a, b, c>>) : a, b, c \in Kinds}
-----------------------------------------------------------------------------
\* Texts with faults: in an expression, and in what stands in its Pulse code
FaultyAttrs ==
  {Attr(kind, <<ExprText(e)>>) : kind \in {"requires", "decreases"},
     e \in {Trailing(x), Prefix("*", Trailing(x)), FnCall("g", <<x, Trailing(y)>>), BinOp("+", Trailing(x), Index(x, Trailing(y)))}}
    \cup {Attr("preserves", <<ExprText(Trailing(x))>>), Attr("ghost-arg", <<WordsText(<<"v">>)>>),
          Attr("refine", <<ExprText(Trailing(x))>>)}
FaultyDecls ==
  {Standalone("let", <<WordsText(<<"bool">>), ExprText(x)>>),
   Standalone("let", <<Sig(IntOf(0), <<>>), ExprText(Trailing(x))>>),
   Standalone("type", <<WordsText(<<"a", "b">>), CodeText(<<Copy(FALSE, "int")>>)>>)}
Faulty ==
  {Attributed(<<a, b>>, <<>>) : a \in FaultyAttrs, b \in FaultyAttrs \cup FnAttrs}
    \cup {Attributed(<<a>>, <<Attr("refine-always", <<ExprText(Trailing(x))>>)>>) : a \in FaultyAttrs}
    \cup {Program(FALSE, <<a, b, c>>) : a \in FaultyDecls, b \in Kinds, c \in FaultyDecls}

InnerFaults == {Quote(TRUE, FALSE, Trailing(x)), Quote(TRUE, TRUE, FnCall("g", <<Trailing(y)>>)),
                Mention(TRUE, <<"type">>, CType(<<"+">>, 0), "")}
FaultyInside ==
  {Attributed(<<Attr("requires", <<ExprText(Emp(piece))>>)>>, <<>>) : piece \in InnerFaults}
    \cup {Program(FALSE, <<Standalone("include", <<CodeText(<<Copy(TRUE, "a"), piece>>)>>)>>) : piece \in InnerFaults}
    \cup {Attributed(<<>>, <<Attr("refine-value", <<WordsText(<<"t", "l">>), ExprText(Trailing(x))>>)>>)}
-----------------------------------------------------------------------------
\* What is printed: nodes within nodes, one after the other, with a place of the
\* annotation and of their own
MCPrinted ==
  Both(<<Contract(<<BinOp("+", BinOp("*", x, y), z)>>)>>) \cup Both(<<Contract(<<FnCall("g", <<Arrow(x, "a")>>), y>>)>>)

MCPrograms ==
  Nestings \cup Shapes \cup Includes \cup FnPrograms \cup ArgPrograms \cup Typedefs \cup LetPrograms
    \cup Sequenced \cup Faulty \cup MCPrinted
FaultyPrograms == Faulty \cup FaultyInside
NothingPrinted == {}
MCPieces == {<<1>>, <<3>>, <<0, 2>>}
MCOrigins == {PlaceOf(1)}
=============================================================================
