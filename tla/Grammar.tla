------------------------------ MODULE Grammar ------------------------------
(***************************************************************************)
(* The language of annotations (src/src/hauntedc.rs): types, expressions,  *)
(* the signatures of _let, and inline Pulse code with its antiquotations.  *)
(* The parser tries alternatives in the order they are listed and takes    *)
(* the first that succeeds; what may be repeated is repeated as long as it *)
(* succeeds.  A parser is an operator on a text p and the position it      *)
(* starts at; p has tokens, their places, the snippets and the widths of   *)
(* the integer types.  White space is skipped, see Solid.                  *)
(***************************************************************************)
EXTENDS Terms, Tokens, FiniteSets

\* The outcome of a parser: what it built and the position after it
Yes(at, it) == [ok |-> TRUE, at |-> at, it |-> it]
No == [ok |-> FALSE, at |-> 0, it |-> None]
Or(r, s) == IF r.ok THEN r ELSE s

Is(p, i, s) == i \in DOMAIN p.toks /\ p.toks[i].text = s
IsIdent(p, i) == i \in DOMAIN p.toks /\ p.toks[i].is = "ident"
IsInteger(p, i) == i \in DOMAIN p.toks /\ p.toks[i].is = "int"
Text(p, i) == p.toks[i].text

\* The place of the tokens from i up to j
Place(p, i, j) ==
  resolve_source_info(p.infos, p.fallback, p.toks[i].from, p.toks[j - 1].to)
With(loc, e) == [loc |-> loc] @@ e

-----------------------------------------------------------------------------
\* Types: [signed | unsigned] [short | long | long long] [int | char], a word
\* of its own, a structure, or any other name for a typedef; then the stars.
Words ==
  ("_slprop" :> SLProp @@ "_specint" :> SpecInt @@ "_specnat" :> SpecNat @@ "void" :> Void
    @@ "size_t" :> SizeT @@ "bool" :> Bool @@ "_Bool" :> Bool)

Step(p, i, words) == IF i \in DOMAIN p.toks /\ Text(p, i) \in words THEN i + 1 ELSE i

\* The word of each class that stands next, "" where there is none
RECURSIVE Specifiers(_, _, _)
Specifiers(p, i, classes) ==
  CASE classes = <<>> -> <<>>
    [] classes # <<>> /\ Step(p, i, Head(classes)) > i ->
         <<Text(p, i)>> \o Specifiers(p, i + 1, Tail(classes))
    [] OTHER -> <<"">> \o Specifiers(p, i, Tail(classes))

Width(widths, size, long, base) ==
  CASE base = "char" -> widths.char
    [] base # "char" /\ size = "short" -> widths.short
    [] base # "char" /\ size = "long" -> IF long = "" THEN widths.long ELSE widths.long_long
    [] OTHER -> widths.int

Classes == <<{"signed", "unsigned"}, {"short", "long"}, {"long"}, {"int", "char"}>>

integer_type(p, i) ==
  LET words == Specifiers(p, i, Classes)
      taken == {k \in DOMAIN words : words[k] # ""}
  IN IF taken = {} THEN No
     ELSE Yes(i + Cardinality(taken),
              IntType(words[1] # "unsigned", Width(p.widths, words[2], words[3], words[4])))

base_type(p, i) ==
  CASE i \in DOMAIN p.toks /\ Text(p, i) \in DOMAIN Words -> Yes(i + 1, Words[Text(p, i)])
    [] Is(p, i, "struct") /\ IsIdent(p, i + 1) -> Yes(i + 2, TypeRef("struct", Text(p, i + 1)))
    [] OTHER -> Or(integer_type(p, i),
                   IF IsIdent(p, i) THEN Yes(i + 1, TypeRef("typedef", Text(p, i))) ELSE No)

RECURSIVE Stars(_, _)
Stars(p, r) == IF r.ok /\ Is(p, r.at, "*") THEN Stars(p, Yes(r.at + 1, Ptr(r.it, "unknown"))) ELSE r

type_parser(p, i) == Stars(p, base_type(p, i))
-----------------------------------------------------------------------------
\* Mutant: comparisons and equalities bind alike.
LevelsTogether ==
  << {"*", "/", "%"}, {"+", "-"}, {"<<", ">>"}, {"<=", "<", ">=", ">", "==", "!="},
     {"&"}, {"^"}, {"|"}, {"&&"}, {"||"} >>

\* The operators that associate to the left, the tightest first
Levels ==
  << {"*", "/", "%"}, {"+", "-"}, {"<<", ">>"}, {"<=", "<", ">=", ">"}, {"==", "!="},
     {"&"}, {"^"}, {"|"}, {"&&"}, {"||"} >>

\* a > b is b < a, a != b is !(a == b)
mk_binop(op, lhs, rhs, loc) ==
  CASE op = ">" -> With(loc, BinOp("<", rhs, lhs))
    [] op = ">=" -> With(loc, BinOp("<=", rhs, lhs))
    [] op = "!=" -> With(loc, UnOp("not", With(loc, BinOp("==", lhs, rhs))))
    [] OTHER -> With(loc, BinOp(op, lhs, rhs))

unary_op(op, e) ==
  CASE op = "*" -> Deref(e)
    [] op = "&" -> Ref(e)
    [] op = "!" -> UnOp("not", e)
    [] op = "~" -> UnOp("bit_not", e)
    [] op = "-" -> UnOp("neg", e)

LiteralType(widths, suffix) ==
  CASE suffix = "none" -> SpecInt
    [] suffix = "u" -> IntType(FALSE, widths.int)
    [] suffix = "l" -> IntType(TRUE, widths.long)
    [] suffix = "ul" -> IntType(FALSE, widths.long)
    [] suffix = "ll" -> IntType(TRUE, widths.long_long)
    [] suffix = "ull" -> IntType(FALSE, widths.long_long)
    [] suffix \in {"z", "uz"} -> SizeT

\* Expressions of a level: 0 are casts, those of Levels[n] are at n, ==> is above
\* them all.  An expression has expressions, and Pulse code, in it at every level.
RECURSIVE Level(_, _, _)
expr_parser(p, i) == Level(p, Len(Levels) + 1, i)
cast_expression(p, i) == Level(p, 0, i)

Parser(toks, code, fallback, snips, widths) ==
  [toks |-> Solid(toks), infos |-> [k \in DOMAIN code |-> code[k].loc],
   fallback |-> fallback, snips |-> snips, widths |-> widths]

\* Mutant: what is left of the text is not looked at.
AnyPrefix(p, r) == r

\* A parser has to take the whole text; what it built otherwise is of no use
Whole(p, r) == IF r.ok /\ r.at = Len(p.toks) + 1 THEN r ELSE No

\* What a text is parsed into, and whether anything is reported about it
Parsed(it, reported) == [it |-> it, reported |-> reported]

ParsedExpr(r, fallback) ==
  IF r.ok THEN Parsed(r.it, FALSE) ELSE Parsed(With(fallback, ErrorExpr(ErrorType)), TRUE)

WholeExpr(p) == ParsedExpr(Whole(p, expr_parser(p, 1)), p.fallback)

parse_expr(fallback, code, snips, widths) ==
  WholeExpr(Parser(relex_inline_code(code), code, fallback, snips, widths))

\* A type and what follows it: nothing, a name, or :: and the name of a field
Extent(p, at, more) ==
  CASE more = "" -> at
    [] more = "name" /\ IsIdent(p, at) -> at + 1
    [] more = "field" /\ Is(p, at, "::") /\ IsIdent(p, at + 1) -> at + 2
    [] OTHER -> 0

TypeAndMore(p, ty, at, more) ==
  IF ty.ok /\ at = Len(p.toks) + 1
  THEN Yes(at, <<ty.it, IF more = "" THEN "" ELSE Text(p, at - 1)>>)
  ELSE No

TypeAnd(p, ty, more) == TypeAndMore(p, ty, Extent(p, ty.at, more), more)

\* Inline Pulse code, with the antiquotations that keep a type or an expression
Verbatim(before, text) == [token |-> "verbatim", before |-> before, text |-> text]
ExprAntiquot(before, amp, e) ==
  [token |-> IF amp THEN "lvalue" ELSE "rvalue", before |-> before, expr |-> e]
TypeAntiquotOf(before, ty) == [token |-> "type", before |-> before, ty |-> ty]
FieldAntiquot(before, ty, field) ==
  [token |-> "field", before |-> before, ty |-> ty, field |-> field]
AuxFnAntiquot(before, kind, ty, field) ==       \* field: "" when there is none
  [token |-> "aux", before |-> before, kind |-> kind, ty |-> ty, field |-> field]
DeclareOf(x, ty) == [token |-> "declare", name |-> x, ty |-> ty]

\* The keywords after a $, and what they make
Keywords ==
  << <<"type">>, <<"field">>, <<"declare">>, <<"unfold", "-", "uninit">>,
     <<"fold", "-", "uninit">>, <<"unfold">>, <<"fold">> >>

Skip(toks, i) == IF i \in DOMAIN toks /\ toks[i].is = "ws" THEN i + 1 ELSE i
At(toks, i, s) == i \in DOMAIN toks /\ toks[i].text = s

\* The position after the words, with white space around each, or 0
RECURSIVE After(_, _, _)
After(toks, i, words) ==
  LET j == Skip(toks, i)
  IN CASE words = <<>> -> i
       [] words # <<>> /\ At(toks, j, Head(words)) -> After(toks, Skip(toks, j + 1), Tail(words))
       [] OTHER -> 0

\* The parenthesis that closes the one before i, or 0
RECURSIVE Close(_, _, _)
Close(toks, i, depth) ==
  CASE i > Len(toks) -> 0
    [] At(toks, i, ")") /\ depth = 0 -> i
    [] At(toks, i, ")") /\ depth > 0 -> Close(toks, i + 1, depth - 1)
    [] At(toks, i, "(") -> Close(toks, i + 1, depth + 1)
    [] OTHER -> Close(toks, i + 1, depth)

\* An antiquotation whose parenthesis opens at open: where it closes, or 0
Closing(toks, open) == IF At(toks, open, "(") THEN Close(toks, open + 1, 0) ELSE 0

\* The code tokens between two parentheses: the text is parsed on its own
Body(code, toks, open, close) ==
  SubSeq(code, toks[open + 1].from + 1, toks[close - 1].to)

\* What a keyword and its body make.  A body that is not what the keyword takes
\* leaves only the $; a type that is none becomes the erroneous type.
KeywordToken(dollar, kw, alone, named, field) ==
  CASE kw = <<"type">> ->
         TypeAntiquotOf(dollar.before, IF alone.ok THEN alone.it[1] ELSE ErrorType)
    [] kw = <<"declare">> /\ named.ok -> DeclareOf(named.it[2], named.it[1])
    [] kw = <<"field">> /\ field.ok -> FieldAntiquot(dollar.before, field.it[1], field.it[2])
    [] kw \notin {<<"type">>, <<"declare">>, <<"field">>} /\ Or(field, alone).ok ->
         AuxFnAntiquot(dollar.before, kw, Or(field, alone).it[1], Or(field, alone).it[2])
    [] OTHER -> Verbatim(dollar.before, dollar.text)

KeywordBody(dollar, kw, p, ty) ==
  KeywordToken(dollar, kw, TypeAnd(p, ty, ""), TypeAnd(p, ty, "name"), TypeAnd(p, ty, "field"))

KeywordIn(dollar, kw, p) == KeywordBody(dollar, kw, p, type_parser(p, 1))

Keyword(dollar, body, kw, widths) ==
  KeywordIn(dollar, kw, Parser(relex_inline_code(body), body, None, <<>>, widths))

\* Each alternative is a parser of the tokens at i; dollar is the code token there.
KeywordAt(toks, code, i, dollar, widths) ==
  LET found == {k \in DOMAIN Keywords :
                  At(toks, i, "$") /\ Closing(toks, After(toks, i + 1, Keywords[k])) # 0}
      kw == Keywords[CHOOSE k \in found : TRUE]
      open == After(toks, i + 1, kw)
      close == Closing(toks, open)
  IN IF found = {} THEN No
     ELSE Yes(close + 1, Keyword(dollar, Body(code, toks, open, close), kw, widths))

WordAt(toks, i) == i \in DOMAIN toks /\ toks[i].is = "ident"

\* x$` and x$`y are F* names that end in, or contain, a tick
IdentTickAt(toks, i, before) ==
  CASE ~(WordAt(toks, i) /\ At(toks, i + 1, "$") /\ At(toks, i + 2, "tick")) -> No
    [] WordAt(toks, i) /\ WordAt(toks, i + 3) ->
         Yes(i + 4, Verbatim(before, <<toks[i].text, "'", toks[i + 3].text>>))
    [] OTHER -> Yes(i + 3, Verbatim(before, <<toks[i].text, "'">>))

TickAt(toks, i, before) ==
  IF At(toks, i, "$") /\ At(toks, i + 1, "tick") /\ WordAt(toks, i + 2)
  THEN Yes(i + 3, Verbatim(before, <<"'", toks[i + 2].text>>))
  ELSE No

\* $(e) and $&(e); the expression is parsed with a list of reports of its own,
\* which nobody reads
ExprAntiquotAt(toks, code, i, before, fallback, snips, widths) ==
  LET amp == At(toks, i + 1, "&")
      open == IF amp THEN i + 2 ELSE i + 1
      close == Closing(toks, open)
  IN IF At(toks, i, "$") /\ close # 0
     THEN Yes(close + 1, ExprAntiquot(before, amp,
                           parse_expr(fallback, Body(code, toks, open, close), snips, widths).it))
     ELSE No

\* Any other token is copied, ==> put together again
VerbatimAt(toks, code, i, before) ==
  Yes(i + 1, Verbatim(before, IF toks[i].to <= toks[i].from + 1 THEN code[toks[i].from + 1].text
                              ELSE code[toks[i].from + 1].text \o code[toks[i].from + 2].text))

InlineToken(toks, code, i, at, fallback, snips, widths) ==
  Or(KeywordAt(toks, code, i, at, widths),
     Or(IdentTickAt(toks, i, at.before),
        Or(TickAt(toks, i, at.before),
           Or(ExprAntiquotAt(toks, code, i, at.before, fallback, snips, widths),
              VerbatimAt(toks, code, i, at.before)))))

\* The tokens of the code, from those of the texts from i on
RECURSIVE InlineTokens(_, _, _, _, _, _)
InlineTokensFrom(toks, code, r, fallback, snips, widths) ==
  <<r.it>> \o InlineTokens(toks, code, Skip(toks, r.at), fallback, snips, widths)
InlineTokens(toks, code, i, fallback, snips, widths) ==
  IF i > Len(toks) THEN <<>>
  ELSE InlineTokensFrom(toks, code,
         InlineToken(toks, code, i, code[toks[i].from + 1], fallback, snips, widths),
         fallback, snips, widths)

InlineCode(toks, code, fallback, snips, widths) ==
  InlineTokens(toks, code, Skip(toks, 1), fallback, snips, widths)

process_inline_pulse(fallback, code, snips, widths) ==
  InlineCode(relex_inline_code(code), code, fallback, snips, widths)
-----------------------------------------------------------------------------
\* expr , expr , ... : what stops it is left in place
RECURSIVE Arguments(_, _, _)
ArgumentsFrom(p, i, before, r) ==
  CASE ~r.ok -> Yes(IF before = <<>> THEN i ELSE i - 1, before)
    [] r.ok /\ Is(p, r.at, ",") -> Arguments(p, r.at + 1, Append(before, r.it))
    [] OTHER -> Yes(r.at, Append(before, r.it))
Arguments(p, i, before) == ArgumentsFrom(p, i, before, expr_parser(p, i))

\* _inline_pulse(n), where n is the index of a snippet
inline_pulse(p, i) ==
  LET known == {n \in DOMAIN p.snips : IsInteger(p, i + 2) /\ ToString(n) = Text(p, i + 2)}
  IN IF Is(p, i, "_inline_pulse") /\ Is(p, i + 1, "(") /\ Is(p, i + 3, ")") /\ known # {}
     THEN Yes(i + 4, process_inline_pulse(Place(p, i, i + 4), p.snips[CHOOSE n \in known : TRUE], p.snips, p.widths))
     ELSE No

Quantifier(p, i, ty, body) ==
  IF /\ i \in DOMAIN p.toks /\ Text(p, i) \in {"_forall", "_exists"}
     /\ Is(p, i + 1, "(") /\ ty.ok /\ IsIdent(p, ty.at) /\ Is(p, ty.at + 1, ",")
     /\ body.ok /\ Is(p, body.at, ")")
  THEN Yes(body.at + 1, With(Place(p, i, body.at + 1),
                             Expr(Text(p, i), Text(p, ty.at), ty.it, <<body.it>>)))
  ELSE No

QuantifierOver(p, i, ty) == Quantifier(p, i, ty, expr_parser(p, ty.at + 2))
quantifier(p, i) == QuantifierOver(p, i, type_parser(p, i + 2))

\* _old and _live take exactly one argument
call(p, i) ==
  LET args == Arguments(p, i + 2, <<>>)
      made == CASE Text(p, i) = "_old" -> Old(args.it[1])
                [] Text(p, i) = "_live" -> Live(args.it[1])
                [] OTHER -> FnCall(Text(p, i), args.it)
  IN IF /\ IsIdent(p, i) /\ Is(p, i + 1, "(") /\ Is(p, args.at, ")")
        /\ Text(p, i) \in {"_old", "_live"} => Len(args.it) = 1
     THEN Yes(args.at + 1, With(Place(p, i, args.at + 1), made))
     ELSE No

integer_constant(p, i) ==
  With(Place(p, i, i + 1), IntLit(Text(p, i), LiteralType(p.widths, p.toks[i].suffix)))

parenthesized(p, i) ==
  LET r == expr_parser(p, i + 1)
  IN IF Is(p, i, "(") /\ r.ok /\ Is(p, r.at, ")") THEN Yes(r.at + 1, r.it) ELSE No

primary_expression(p, i) ==
  CASE IsIdent(p, i) -> Yes(i + 1, With(Place(p, i, i + 1), Var(Text(p, i))))
    [] IsInteger(p, i) -> Yes(i + 1, integer_constant(p, i))
    [] OTHER -> parenthesized(p, i)

UntypedCode(p, i, code) ==
  IF code.ok THEN Yes(code.at, With(Place(p, i, code.at), InlinePulse(Unknown, code.it))) ELSE No

postfix_expression_nonrec(p, i) ==
  Or(quantifier(p, i),
     Or(UntypedCode(p, i, inline_pulse(p, i)), Or(call(p, i), primary_expression(p, i))))

\* [expr], .field and ->field, as often as they follow; i is where it began
RECURSIVE Postfix(_, _, _)
Postfix(p, i, r) ==
  LET index == expr_parser(p, r.at + 1)
      loc == Place(p, i, r.at + 2)
  IN CASE r.ok /\ Is(p, r.at, "[") /\ index.ok /\ Is(p, index.at, "]") ->
            Postfix(p, i, Yes(index.at + 1, With(Place(p, i, index.at + 1), Index(r.it, index.it))))
       [] r.ok /\ Is(p, r.at, ".") /\ IsIdent(p, r.at + 1) ->
            Postfix(p, i, Yes(r.at + 2, With(loc, Member(r.it, Text(p, r.at + 1)))))
       [] r.ok /\ Is(p, r.at, "->") /\ IsIdent(p, r.at + 1) ->
            Postfix(p, i, Yes(r.at + 2,
                              With(loc, Member(With(loc, Deref(r.it)), Text(p, r.at + 1)))))
       [] OTHER -> r

Unary(p, i, arg) ==
  IF i \in DOMAIN p.toks /\ Text(p, i) \in {"*", "&", "!", "~", "-"} /\ arg.ok
  THEN Yes(arg.at, With(Place(p, i, arg.at), unary_op(Text(p, i), arg.it)))
  ELSE No

unary_expression(p, i) ==
  Or(Postfix(p, i, postfix_expression_nonrec(p, i)), Unary(p, i, cast_expression(p, i + 1)))

\* A type in parentheses and what it is cast from, before anything else
CastFrom(p, i, ty, code, arg) ==
  CASE ~(Is(p, i, "(") /\ ty.ok /\ Is(p, ty.at, ")")) -> No
    [] Is(p, ty.at, ")") /\ code.ok ->
         Yes(code.at, With(Place(p, i, code.at), InlinePulse(ty.it, code.it)))
    [] Is(p, ty.at, ")") /\ ~code.ok /\ arg.ok ->
         Yes(arg.at, With(Place(p, i, arg.at), Cast(arg.it, ty.it)))
    [] OTHER -> No

CastOf(p, i, ty) ==
  CastFrom(p, i, ty, inline_pulse(p, ty.at + 1), cast_expression(p, ty.at + 1))

CastOrUnary(p, i) == Or(CastOf(p, i, type_parser(p, i + 1)), unary_expression(p, i))

RECURSIVE LeftAssociative(_, _, _, _)
LeftAssociative(p, level, i, lhs) ==
  LET rhs == Level(p, level - 1, lhs.at + 1)
  IN IF /\ lhs.ok /\ lhs.at \in DOMAIN p.toks /\ Text(p, lhs.at) \in Levels[level]
        /\ rhs.ok
     THEN LeftAssociative(p, level, i,
            Yes(rhs.at, mk_binop(Text(p, lhs.at), lhs.it, rhs.it, Place(p, i, rhs.at))))
     ELSE lhs

\* ==> associates to the right
Implication(p, i, lhs, rhs) ==
  IF lhs.ok /\ Is(p, lhs.at, "==>") /\ rhs.ok
  THEN Yes(rhs.at, With(Place(p, i, rhs.at), BinOp("==>", lhs.it, rhs.it)))
  ELSE lhs

Implied(p, i, lhs) == Implication(p, i, lhs, expr_parser(p, lhs.at + 1))

Level(p, n, i) ==
  CASE n = 0 -> CastOrUnary(p, i)
    [] n \in DOMAIN Levels -> LeftAssociative(p, n, i, Level(p, n - 1, i))
    [] OTHER -> Implied(p, i, Level(p, n - 1, i))
-----------------------------------------------------------------------------
\* What a declaration annotation says besides: the name of a _type, the binding of a
\* _ghost_arg and of a _refine_value, the signature of a _let.

\* A text that begins as an identifier does
IsName(token) == Head(token.text) \notin Punct \cup Numerals \cup Unlexed
Name(token) == Head(token.text)

parse_type_name(code) ==
  IF Len(code) = 1 /\ IsName(code[1]) THEN Yes(1, Name(code[1])) ELSE No

\* A type and a name, two words
TwoNames(code) == Len(code) = 2 /\ IsName(code[1]) /\ IsName(code[2])
Binding(code, ty) == Yes(2, [name |-> Name(code[2]), ty |-> ty])

GhostType(word) ==
  IF word \in {"_slprop", "_specint", "_specnat", "void"} THEN Words[word] ELSE TypeRef("typedef", word)

parse_ghost_arg_binding(code) ==
  IF TwoNames(code) THEN Binding(code, GhostType(Name(code[1]))) ELSE No

\* Here every word is the name of a typedef.
parse_refine_value_binding(code) ==
  IF TwoNames(code) THEN Binding(code, TypeRef("typedef", Name(code[1]))) ELSE No
-----------------------------------------------------------------------------
FnArg(name, ty, mode) == [name |-> name, ty |-> ty, mode |-> mode]    \* name: "" if none

ParamModes == ("_plain" :> "const" @@ "const" :> "const" @@ "_consumes" :> "consumed" @@ "_out" :> "out")
PointerKinds == ("_array" :> "array" @@ "_arrayptr" :> "arrayptr")

\* The kind is that of the outermost pointer; what is no pointer has none.
WithKind(ty, kind) == IF ty.k = "ptr" THEN Ptr(ty.to, kind) ELSE ty

\* [mode] [kind] type [name]
param(p, i) ==
  LET kind == Step(p, i, DOMAIN ParamModes)
      start == Step(p, kind, DOMAIN PointerKinds)
      ty == type_parser(p, start)
      end == IF IsIdent(p, ty.at) THEN ty.at + 1 ELSE ty.at
      arg == FnArg(IF end > ty.at THEN Text(p, ty.at) ELSE "",
                   IF start > kind THEN WithKind(ty.it, PointerKinds[Text(p, kind)]) ELSE ty.it,
                   IF kind > i THEN ParamModes[Text(p, i)] ELSE "regular")
  IN IF ty.ok THEN Yes(end, arg) ELSE No

\* Parameters, with a comma after the last one if need be
RECURSIVE Params(_, _, _)
ParamsFrom(p, i, before, r) ==
  CASE ~r.ok -> Yes(i, before)
    [] r.ok /\ Is(p, r.at, ",") -> Params(p, r.at + 1, Append(before, r.it))
    [] OTHER -> Yes(r.at, Append(before, r.it))
Params(p, i, before) == ParamsFrom(p, i, before, param(p, i))

\* keyword (expr) keyword (expr) ...
RECURSIVE Clauses(_, _, _, _)
ClausesFrom(p, i, words, before, r) ==
  IF /\ i \in DOMAIN p.toks /\ Text(p, i) \in words
     /\ Is(p, i + 1, "(") /\ r.ok /\ Is(p, r.at, ")")
  THEN Clauses(p, r.at + 1, words, Append(before, r.it))
  ELSE Yes(i, before)
Clauses(p, i, words, before) == ClausesFrom(p, i, words, before, expr_parser(p, i + 2))

\* type name (params) requires(p)... ensures(p)...
Signature(p, ret, params, requires, ensures) ==
  IF ret.ok /\ IsIdent(p, ret.at) /\ Is(p, ret.at + 1, "(") /\ Is(p, params.at, ")")
  THEN Yes(ensures.at,
           [name |-> Text(p, ret.at), ret |-> ret.it, args |-> params.it,
            requires |-> requires.it, ensures |-> ensures.it])
  ELSE No

SignatureEnsuring(p, ret, params, requires) ==
  Signature(p, ret, params, requires,
            Clauses(p, requires.at, {"ensures", "_ensures"}, <<>>))

SignatureOver(p, ret, params) ==
  SignatureEnsuring(p, ret, params,
                    Clauses(p, params.at + 1, {"requires", "_requires"}, <<>>))

SignatureOf(p, ret) == SignatureOver(p, ret, Params(p, ret.at + 2, <<>>))

let_signature_parser(p) == SignatureOf(p, type_parser(p, 1))

WholeSignature(p) == Whole(p, let_signature_parser(p))

parse_let_signature(fallback, code, snips, widths) ==
  WholeSignature(Parser(relex_inline_code(code), code, fallback, snips, widths))
=============================================================================
