------------------------------ MODULE CSyntax ------------------------------
(***************************************************************************)
(* What annotations say, and how they are written.  An expression is       *)
(* written with the precedence of C, with no more parentheses than it      *)
(* needs or with one pair around every operand that has operands; what it  *)
(* says is the expression of the IR it stands for.  This is the reference  *)
(* the annotation parser is compared with: nothing in it is taken from the *)
(* parser but the names of what the IR can say.                            *)
(***************************************************************************)
EXTENDS FrontEnd

\* A type as written: its words, and the stars after them
CType(words, stars) == [words |-> words, stars |-> stars]
Untyped == CType(<<>>, 0)

\* The types of C that annotations know, and those of the specification, on a
\* target whose long has 64 bits
IntegerTypes ==
  ( <<"int">> :> I32 @@ <<"unsigned">> :> U32 @@ <<"signed">> :> I32
    @@ <<"unsigned", "int">> :> U32 @@ <<"short">> :> IntType(TRUE, 16) @@ <<"long">> :> IntType(TRUE, 64)
    @@ <<"unsigned", "short", "int">> :> IntType(FALSE, 16)
    @@ <<"long", "int">> :> IntType(TRUE, 64) @@ <<"unsigned", "long", "long">> :> IntType(FALSE, 64)
    @@ <<"char">> :> IntType(TRUE, 8) @@ <<"unsigned", "char">> :> IntType(FALSE, 8) )

RECURSIVE Pointers(_, _)
Pointers(ty, n) == IF n = 0 THEN ty ELSE Ptr(Pointers(ty, n - 1), "unknown")

Meant(ty) ==
  CASE ty.words = <<>> -> Unknown
    [] ty.words \in DOMAIN IntegerTypes -> Pointers(IntegerTypes[ty.words], ty.stars)
    [] Len(ty.words) = 2 /\ ty.words[1] = "struct" ->
         Pointers(TypeRef("struct", ty.words[2]), ty.stars)
    [] Len(ty.words) = 1 /\ ty.words[1] \in {"_slprop", "_specint", "bool", "size_t"} ->
         Pointers(("_slprop" :> SLProp @@ "_specint" :> SpecInt @@ "bool" :> Bool
                     @@ "size_t" :> SizeT)[ty.words[1]], ty.stars)
    [] ty.words = <<"+">> -> ErrorType                     \* no type
    [] OTHER -> Pointers(TypeRef("typedef", ty.words[1]), ty.stars)
-----------------------------------------------------------------------------
\* Operators as in C; the ones the IR has not are Above, AtLeast, Differ, Arrow.
UnaryOps == ("*" :> "deref" @@ "&" :> "ref" @@ "!" :> "not" @@ "~" :> "bit_not" @@ "-" :> "neg")
Prefix(op, e) == Expr("prefix", op, None, <<e>>)
Arrow(e, a) == Expr("arrow", a, None, <<e>>)
CastTo(ty, e) == Expr("cast_to", "", ty, <<e>>)
ForAll(x, ty, e) == Expr("_forall", x, ty, <<e>>)
Exists(x, ty, e) == Expr("_exists", x, ty, <<e>>)
Trailing(e) == Expr("unfinished", "", None, <<e>>)     \* an operator and no operand
Literal(n, letters) == Expr("literal", n, letters, <<>>)
PulseCode(ty, code) == [op |-> "code", name |-> "", ty |-> ty, kids |-> <<>>, code |-> code]

\* How tightly an operator of C binds; ==> binds less than any
Precedence ==
  ( "*" :> 13 @@ "/" :> 13 @@ "%" :> 13 @@ "+" :> 12 @@ "-" :> 12 @@ "<<" :> 11 @@ ">>" :> 11
    @@ "<" :> 10 @@ ">" :> 10 @@ "<=" :> 10 @@ ">=" :> 10 @@ "==" :> 9 @@ "!=" :> 9 @@ "&" :> 8
    @@ "^" :> 7 @@ "|" :> 6 @@ "&&" :> 5 @@ "||" :> 4 @@ "==>" :> 3 )
Postfixed == 15
Prefixed == 14
Loosest == 3

Binds(e) ==
  CASE e.op = "bin_op" -> Precedence[e.name]
    [] e.op \in {"prefix", "cast_to"} \/ (e.op = "code" /\ e.ty # Untyped) -> Prefixed
    [] OTHER -> Postfixed

\* Tokens as written, before they have a place: text and whether space is before
Word(w) == <<[before |-> TRUE, text |-> <<w>>]>>
Tight(w) == <<[before |-> FALSE, text |-> <<w>>]>>

RECURSIVE Spelled(_)
Spelled(ws) == IF ws = <<>> THEN <<>> ELSE Word(Head(ws)) \o Spelled(Tail(ws))
WrittenType(ty) == Spelled(ty.words \o [k \in 1..ty.stars |-> "*"])

\* Clang knows no ==>
OperatorText(op) == IF op = "==>" THEN Word("==") \o Tight(">") ELSE Word(op)

RECURSIVE Written(_, _), WrittenList(_, _), WrittenCode(_, _)

\* An operand where an operator takes what binds at least so tightly
Operand(e, least, redundant) ==
  IF Binds(e) < least \/ (redundant /\ e.kids # <<>>)
  THEN Word("(") \o Written(e, redundant) \o Word(")")
  ELSE Written(e, redundant)

WrittenList(es, redundant) ==
  CASE es = <<>> -> <<>>
    [] Len(es) = 1 -> Written(es[1], redundant)
    [] OTHER -> Written(es[1], redundant) \o Word(",") \o WrittenList(Tail(es), redundant)

Written(e, redundant) ==
  CASE e.op = "var" -> Word(e.name)
    [] e.op = "literal" -> <<[before |-> TRUE, text |-> <<e.name>> \o e.ty]>>
    [] e.op = "prefix" -> Word(e.name) \o Operand(e.kids[1], Prefixed, redundant)
    [] e.op = "cast_to" ->
         Word("(") \o WrittenType(e.ty) \o Word(")") \o Operand(e.kids[1], Prefixed, redundant)
    [] e.op = "unfinished" -> Operand(e.kids[1], Precedence["+"], redundant) \o Word("+")
    [] e.op = "index" ->
         Operand(e.kids[1], Postfixed, redundant) \o Word("[") \o Written(e.kids[2], redundant) \o Word("]")
    [] e.op = "member" -> Operand(e.kids[1], Postfixed, redundant) \o Word(".") \o Word(e.name)
    [] e.op = "arrow" -> Operand(e.kids[1], Postfixed, redundant) \o Word("->") \o Word(e.name)
    [] e.op = "call" -> Word(e.name) \o Word("(") \o WrittenList(e.kids, redundant) \o Word(")")
    [] e.op \in {"old", "live"} ->
         Word(("old" :> "_old" @@ "live" :> "_live")[e.op]) \o Word("(") \o Written(e.kids[1], redundant) \o Word(")")
    [] e.op \in {"_forall", "_exists"} ->
         Word(e.op) \o Word("(") \o WrittenType(e.ty) \o Word(e.name) \o Word(",")
           \o Written(e.kids[1], redundant) \o Word(")")
    [] e.op = "code" ->
         (IF e.ty = Untyped THEN <<>> ELSE Word("(") \o WrittenType(e.ty) \o Word(")"))
           \o Word("_inline_pulse") \o Tight("(") \o WrittenCode(e.code, redundant) \o Word(")")
    [] e.op = "bin_op" /\ e.name = "==>" ->
         Operand(e.kids[1], Loosest + 1, redundant) \o OperatorText("==>")
           \o Operand(e.kids[2], Loosest, redundant)
    [] e.op = "bin_op" /\ e.name # "==>" ->
         Operand(e.kids[1], Precedence[e.name], redundant) \o OperatorText(e.name)
           \o Operand(e.kids[2], Precedence[e.name] + 1, redundant)

RECURSIVE Says(_), SaysAll(_), SaysCode(_)

Saying(op, lhs, rhs) ==
  CASE op = ">" -> BinOp("<", rhs, lhs)
    [] op = ">=" -> BinOp("<=", rhs, lhs)
    [] op = "!=" -> UnOp("not", BinOp("==", lhs, rhs))
    [] OTHER -> BinOp(op, lhs, rhs)

LiteralTypes ==
  ( <<>> :> SpecInt @@ <<"u">> :> U32 @@ <<"l">> :> IntType(TRUE, 64) @@ <<"u", "l">> :> IntType(FALSE, 64)
    @@ <<"l", "l", "u">> :> IntType(FALSE, 64) @@ <<"u", "z">> :> SizeT )

SaysAll(es) == [k \in DOMAIN es |-> Says(es[k])]

\* A text that is no expression stands for an error, whatever is in it
RECURSIVE Unfinished(_)
Unfinished(e) == e.op = "unfinished" \/ \E k \in DOMAIN e.kids : Unfinished(e.kids[k])

SaysWhole(e) == IF Unfinished(e) THEN ErrorExpr(ErrorType) ELSE Says(e)

Says(e) ==
  CASE e.op = "literal" -> IntLit(e.name, LiteralTypes[e.ty])
    [] e.op = "prefix" -> Expr(UnaryOps[e.name], "", None, SaysAll(e.kids))
    [] e.op = "cast_to" -> Cast(Says(e.kids[1]), Meant(e.ty))
    [] e.op = "arrow" -> Member(Deref(Says(e.kids[1])), e.name)
    [] e.op = "bin_op" -> Saying(e.name, Says(e.kids[1]), Says(e.kids[2]))
    [] e.op = "code" -> InlinePulse(Meant(e.ty), SaysCode(e.code))
    [] e.op \in {"_forall", "_exists"} -> Expr(e.op, e.name, Meant(e.ty), SaysAll(e.kids))
    [] OTHER -> [e EXCEPT !.kids = SaysAll(@)]
-----------------------------------------------------------------------------
\* Pieces of inline Pulse code; spaced: white space stands before
Piece(is, spaced, text) == [is |-> is, before |-> spaced, text |-> text]
Copy(spaced, w) == Piece("copy", spaced, <<w>>)
Entails(spaced) == Piece("implies", spaced, <<"==", ">">>)
Quote(spaced, amp, e) == [amp |-> amp, expr |-> e] @@ Piece("quote", spaced, <<>>)
Mention(spaced, kw, ty, more) == [kw |-> kw, ty |-> ty, more |-> more] @@ Piece("mention", spaced, <<>>)
Ticked(spaced, prefix, suffix) == [prefix |-> prefix, suffix |-> suffix] @@ Piece("ticked", spaced, <<>>)

Spaced(before, text) == <<[before |-> before, text |-> text]>>

\* A keyword begins with the $, a name before a $ ends with it: Clang joins them.
WrittenMore(kw, more) ==
  CASE more = "" -> <<>>
    [] more # "" /\ kw = <<"declare">> -> Word(more)
    [] OTHER -> Tight("::") \o Tight(more)

RECURSIVE TightAll(_)
TightAll(ws) == IF ws = <<>> THEN <<>> ELSE Tight(Head(ws)) \o TightAll(Tail(ws))

WrittenPiece(c, redundant) ==
  CASE c.is = "copy" -> Spaced(c.before, c.text)
    [] c.is = "implies" -> Spaced(c.before, <<"==">>) \o Tight(">")
    [] c.is = "quote" -> Spaced(c.before, <<"$">>) \o (IF c.amp THEN Tight("&") ELSE <<>>)
                           \o Tight("(") \o Written(c.expr, redundant) \o Word(")")
    [] c.is = "mention" -> Spaced(c.before, <<"$", Head(c.kw)>>) \o TightAll(Tail(c.kw)) \o Tight("(")
                             \o WrittenType(c.ty) \o WrittenMore(c.kw, c.more) \o Tight(")")
    [] c.is = "ticked" ->
         (IF c.prefix = "" THEN Spaced(c.before, <<"$">>) ELSE Spaced(c.before, <<c.prefix, "$">>))
           \o Tight("tick") \o (IF c.suffix = "" THEN <<>> ELSE Tight(c.suffix))

WrittenCode(code, redundant) ==
  IF code = <<>> THEN <<>>
  ELSE WrittenPiece(Head(code), redundant) \o WrittenCode(Tail(code), redundant)

SaysPiece(c) ==
  CASE c.is \in {"copy", "implies"} -> Verbatim(c.before, c.text)
    [] c.is = "quote" -> ExprAntiquot(c.before, c.amp, SaysWhole(c.expr))
    [] c.is = "mention" /\ c.kw = <<"type">> -> TypeAntiquotOf(c.before, Meant(c.ty))
    [] c.is = "mention" /\ c.kw = <<"field">> -> FieldAntiquot(c.before, Meant(c.ty), c.more)
    [] c.is = "mention" /\ c.kw = <<"declare">> -> DeclareOf(c.more, Meant(c.ty))
    [] c.is = "mention" /\ Head(c.kw) \in {"fold", "unfold"} ->
         AuxFnAntiquot(c.before, c.kw, Meant(c.ty), c.more)
    [] c.is = "ticked" ->
         Verbatim(c.before, (IF c.prefix = "" THEN <<>> ELSE <<c.prefix>>) \o <<"'">>
                              \o (IF c.suffix = "" THEN <<>> ELSE <<c.suffix>>))

SaysCode(code) == [k \in DOMAIN code |-> SaysPiece(code[k])]
=============================================================================
