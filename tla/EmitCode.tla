------------------------------ MODULE EmitCode ------------------------------
(***************************************************************************)
(* What the emitter prints for types, expressions and statements           *)
(* (src/src/pass/emit.rs).  A text is reduced to what is in it: the global *)
(* identifiers it uses, and a report for each `(admit())` it stands for.   *)
(* One identifier stands for a whole family where the family is defined    *)
(* together: the projections of a structure, its folds and unfolds.        *)
(***************************************************************************)
EXTENDS Types

Id(role, k, n) == <<role, k, n>>
FnId(f) == Id("fn", "", f)
GlobalId(x) == Id("var", "", x)
TypeId(t) == Id("type", t.k, t.name)
FieldsId(k, n) == Id("fields", k, n)
AuxId(t) == Id("aux", t.k, t.name)
DefaultId(t) == Id("default", t.k, t.name)

\* A text that is an admit, with its report, or nothing but a report
Refused(why) == {Id("report", "", why)}

NamedTypes == {"typedef", "struct", "union"}
Aggregates == {"struct", "union"}

CONSTANT emit_type(_)
Def_emit_type(t) ==
  CASE t.k = "ptr" -> emit_type(t.to)
    [] t.k \in NamedTypes -> {TypeId(t)}
    [] t.k \in Refinements \cup {"refine_value", "plain"} -> emit_type(t.of)
    [] OTHER -> {}

\* The zero of a type.  That of a named type is found by its instance.
CONSTANT emit_type_default(_)
Def_emit_type_default(t) ==
  CASE t.k \in NamedTypes -> {DefaultId(t)}
    [] t.k \in Refinements \cup {"refine_value", "plain"} -> emit_type_default(t.of)
    [] t.k \in {"ptrdiff", "specint", "specnat", "slprop", "unknown", "error"} ->
         Refused("no zero default")
    [] OTHER -> {}
-----------------------------------------------------------------------------
\* The functions for expressions and statements call each other; they yield a text, or
\* whether the text is a place to read from, or go by the type of an expression.
CONSTANT Text(_, _, _)
emit_rvalue(env, e) == Text("rvalue", env, e)
emit_inline_pulse_tokens(env, code) == Text("code", env, code)
emit_stmts(env, stmts) == Text("stmts", env, stmts)
IsPlace(env, e) == Text("place", env, e)
InferredWhnf(env, e) == Text("type", env, e)

emit_rvalues(env, es) == UNION {emit_rvalue(env, es[i]) : i \in DOMAIN es}

Inferred(env, e) == LET ty == infer_expr(env, e) IN IF ty = None THEN None ELSE Whnf(env, ty)

IsPtrOf(env, e, kinds) == LET t == InferredWhnf(env, e) IN t.k = "ptr" /\ t.kind \in kinds

\* Whether an expression is printed as a reference to read from.  A variable that
\* hides a global of its name is not.
IsPlaceOf(env, e) ==
  CASE e.op = "var" -> /\ ~(e.name \in DOMAIN env.locals /\ env.locals[e.name].kind = "rvalue")
                       /\ e.name \notin DOMAIN env.globals
    [] e.op = "deref" -> ~IsPtrOf(env, e.kids[1], {"arrayptr"})
    [] e.op = "member" -> /\ InferredWhnf(env, e.kids[1]).k \in Aggregates
                          /\ IsPlace(env, e.kids[1])
    [] OTHER -> FALSE

emit_lvalue(env, e) ==
  IF IsPlace(env, e) THEN emit_rvalue(env, e) ELSE Refused("cannot produce lvalue")

Numbers == {"int", "size", "ptrdiff", "specint", "specnat"}
Spec_ == {"specint", "specnat"}

LiteralFits(t, n) == t.k \in {"int", "size"} \cup Spec_ \/ (t.k = "ptr" /\ n = "0")

emit_unop(op, t) ==
  CASE op = "not" -> TRUE
    [] op = "neg" -> t.k \in {"int"} \cup Spec_
    [] op = "bit_not" -> t.k = "int"

\* The types whose operands an operator can be printed for; == , && and || always
\* can.  The operators of one kind stand for all.
emit_binop(op, t) ==
  CASE op \in {"==", "&&", "||"} -> TRUE
    [] op \in {"<", "<="} -> t.k \in Numbers \/ (t.k = "ptr" /\ t.kind = "arrayptr")
    [] op = "==>" -> t.k \in {"bool", "slprop"}
    [] op = "*" -> t.k \in Numbers \cup {"bool"}
    [] op \in {"+", "-"} -> t.k \in Numbers
    [] op \in Shifts -> t.k = "int"

Converts(from, to) ==
  \/ {from.k, to.k} \cap {"error", "unknown"} # {}
  \/ from.k = "bool" /\ to.k \in {"int", "slprop"} \cup Spec_
  \/ from.k \in Spec_ /\ to.k \in {"bool", "size", "int"} \cup Spec_
  \/ from.k = "int" /\ to.k \in {"bool"} \cup Numbers
  \/ from.k = "size" /\ to.k \in {"ptrdiff"} \cup Spec_
  \/ from.k = "ptrdiff" /\ to.k \in {"size", "int"}
  \/ from.k = "ptr" /\ to.k \in {"bool", "ptr"}

CastText(env, e) ==
  LET from == InferredWhnf(env, e.kids[1])
      to == Whnf(env, e.ty)
  IN CASE from = None -> emit_rvalue(env, e.kids[1])
       [] from # None /\ to = SizeT /\ e.kids[1].op = "int_lit" -> {}
       [] OTHER -> IF TypeEq(env, from, to) \/ Converts(from, to)
                   THEN emit_rvalue(env, e.kids[1])
                   ELSE Refused("unsupported cast")

BinOpText(env, e) ==
  LET t == InferredWhnf(env, e.kids[1])
      IntoArray == \E k \in {1, 2} : IsPtrOf(env, e.kids[k], Arrays)
      IsPtrArith == \/ e.name = "+" /\ IntoArray
                    \/ e.name = "-" /\ \A k \in {1, 2} : IsPtrOf(env, e.kids[k], Arrays)
  IN IF IsPtrArith \/ emit_binop(e.name, t) THEN emit_rvalues(env, e.kids)
     ELSE Refused("unsupported binary operator")

LiveText(env, e) ==
  IF e.op = "deref" /\ IsPtrOf(env, e.kids[1], {"arrayptr"}) THEN {} ELSE emit_lvalue(env, e)

MemberText(env, e) ==
  LET t == InferredWhnf(env, e.kids[1])
  IN IF t.k \in Aggregates THEN emit_rvalues(env, e.kids) \cup {FieldsId(t.k, t.name)}
     ELSE Refused("unsupported struct field access")

\* What an expression adds to the text of its operands
OwnText(env, e) ==
  CASE e.op = "var" -> IF e.name \in DOMAIN env.locals THEN {} ELSE {GlobalId(e.name)}
    [] e.op = "call" -> {FnId(e.name)}
    [] e.op = "struct_init" -> IF e.kids = <<>> THEN {} ELSE {FieldsId("struct", e.name)}
    [] e.op = "union_init" -> {FieldsId("union", e.name)}
    [] e.op = "active" -> {FieldsId("union", InferredWhnf(env, e.kids[1]).name)}
    [] e.op \in {"alloc", "alloc_array"} -> emit_type(e.ty)
    [] OTHER -> {}

\* What cannot be translated is `(admit())` here too; the front end reported it.
RvalueText(env, e) ==
  CASE e.op = "member" -> MemberText(env, e)
    [] e.op = "int_lit" ->
         IF LiteralFits(Whnf(env, e.ty), e.name) THEN {}
         ELSE Refused("unsupported integer literal type")
    [] e.op \in {"ref", "incr"} -> emit_lvalue(env, e.kids[1])
    [] e.op = "live" -> LiveText(env, e.kids[1])
    [] e.op = "cast" -> CastText(env, e)
    [] e.op = "inline" -> emit_inline_pulse_tokens(env, e.code)
    [] e.op = "bin_op" -> BinOpText(env, e)
    [] e.op \in {"not", "neg", "bit_not"} ->
         LET t == InferredWhnf(env, e.kids[1])
         IN IF t # None /\ emit_unop(e.op, t) THEN emit_rvalues(env, e.kids)
            ELSE Refused("unsupported unary operator")
    [] e.op = "quantified" ->
         emit_type(e.ty) \cup emit_rvalues(PushVar(env, e.name, e.ty, "rvalue"), e.kids)
    [] e.op = "assign" -> Refused("assignment expression should have been lowered")
    [] OTHER -> OwnText(env, e) \cup emit_rvalues(env, e.kids)

\* For a union, with a field, which is left out here
AuxText(t) == IF t.k \in Aggregates THEN {AuxId(t)} ELSE Refused("expected struct or union type")

FieldText(t) ==
  IF t.k \in Aggregates THEN {FieldsId(t.k, t.name)} ELSE Refused("expected struct or union type")

CodeText(env, code) ==
  IF code = <<>> THEN {}
  ELSE LET t == Head(code)
           inner == IF t.token = "declare" THEN PushVar(env, t.name, t.ty, "rvalue") ELSE env
       IN emit_inline_pulse_tokens(inner, Tail(code)) \cup
            CASE t.token = "expr" -> emit_rvalue(env, t.expr)
              [] t.token = "type" -> emit_type(t.ty)
              [] t.token = "aux" -> AuxText(Whnf(env, t.ty))
              [] t.token = "field" -> FieldText(Whnf(env, t.ty))
              [] OTHER -> {}
-----------------------------------------------------------------------------
AssignText(env, x, e) ==
  emit_rvalue(env, e) \cup
    CASE \/ x.op = "index"
         \/ x.op = "deref" /\ IsPtrOf(env, x.kids[1], {"arrayptr"}) -> emit_rvalues(env, x.kids)
      [] x.op = "member" /\ InferredWhnf(env, x.kids[1]).k = "union" ->
           emit_lvalue(env, x.kids[1])
             \cup {FieldsId("union", InferredWhnf(env, x.kids[1]).name)}
      [] OTHER -> emit_lvalue(env, x)

emit_stmt(env, s) ==
  CASE s.op \in {"call", "return"} -> emit_rvalues(env, s.value)
    [] s.op = "decl" -> emit_type(s.ty)
    [] s.op = "stack_array" -> emit_type(s.ty) \cup emit_rvalue(env, s.size)
    [] s.op = "assign" -> AssignText(env, s.target, Value(s))
    [] s.op = "if" ->
         emit_rvalue(env, s.cond) \cup emit_stmts(env, s.yes) \cup emit_stmts(env, s.no)
    [] s.op = "while" -> emit_rvalues(env, <<s.cond>> \o s.inv \o s.requires \o s.ensures)
                           \cup emit_stmts(env, s.body)
    [] s.op = "assert" -> emit_rvalue(env, s.pred)
    [] s.op = "ghost" -> emit_inline_pulse_tokens(env, s.code)
    [] s.op = "goto_block" -> emit_stmts(env, s.body) \cup emit_rvalues(env, s.ensures)
    [] OTHER -> {}

StmtsText(env, stmts) ==
  IF stmts = <<>> THEN {}
  ELSE emit_stmt(env, Head(stmts)) \cup emit_stmts(PushStmt(env, Head(stmts)), Tail(stmts))

Def_Text(what, env, x) ==
  CASE what = "rvalue" -> RvalueText(env, x)
    [] what = "code" -> CodeText(env, x)
    [] what = "stmts" -> StmtsText(env, x)
    [] what = "place" -> IsPlaceOf(env, x)
    [] what = "type" -> Inferred(env, x)
=============================================================================
