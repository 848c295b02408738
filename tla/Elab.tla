------------------------------- MODULE Elab -------------------------------
(***************************************************************************)
(* The pass elab (src/src/pass/elab.rs): it settles the kinds of pointers, *)
(* inserts the conversions between types that C and the annotations leave  *)
(* implicit, and lifts assignments and conditionals out of expressions.    *)
(* Elaborating a piece of a program gives the piece that replaces it and   *)
(* the reports made on the way.                                            *)
(***************************************************************************)
EXTENDS Types

Result(v, reports) == [v |-> v, reports |-> reports]
Plainly(v) == Result(v, {})
WithReports(r, reports) == Result(r.v, r.reports \cup reports)
Reports(rs) == UNION {rs[i].reports : i \in DOMAIN rs}

\* A sequence is appended to the empty one so that TLC computes each element once.
Each(s) == s \o <<>>
All(rs) ==
  LET done == Each(rs)
  IN Result(Each([i \in DOMAIN done |-> done[i].v]), Reports(done))

\* The functions of the pass call each other: Elaborate ties them together, and
\* gives what becomes of a piece of the program, be it a type or a declaration.
CONSTANT Elaborate(_, _, _, _)
elab_type(env, t) == Elaborate("type", env, t, None)
elab_rvalue(env, e, expected) == Elaborate("rvalue", env, e, expected)
elab_code(env, code) == Elaborate("code", env, code, None)
elab_stmts(env, stmts) == Elaborate("stmts", env, stmts, None)
elab_fn_decl(env, fn) == Elaborate("fn_decl", env, fn, None)
elab_decl(env, d) == Elaborate("decl", env, d, None)
-----------------------------------------------------------------------------
\* Mutant: a predicate is cast whether or not it is one.
CastAlways(env, e) == Cast(e, SLProp)

\* Conversions.  An expression whose type cannot be inferred is converted by
\* the two casts to a named type, and left alone by the others.
cast_to_slprop(env, e) == IF IsSLProp(env, infer_expr(env, e)) THEN e ELSE Cast(e, SLProp)
cast_to_bool(env, e) == IF IsBool(env, infer_expr(env, e)) THEN e ELSE Cast(e, Bool)

\* Mutant: integers are taken for equal whatever their widths.
ConvertedByKind(env, e, ty) ==
  LET actual == infer_expr(env, e)
  IN IF actual = None THEN e
     ELSE IF Whnf(env, actual).k = Whnf(env, ty).k THEN e ELSE Cast(e, ty)

Converted(env, e, ty) ==
  LET actual == infer_expr(env, e)
  IN IF actual = None \/ TypeEq(env, actual, ty) THEN e ELSE Cast(e, ty)

ToSize(env, e) ==
  LET actual == infer_expr(env, e)
  IN IF actual = None \/ IsSize(env, actual) THEN e ELSE Cast(e, SizeT)

elab_slprop(env, e) ==
  LET r == elab_rvalue(env, e, SLProp)
  IN Result(cast_to_slprop(env, r.v), r.reports)
elab_slprops(env, es) == All([i \in DOMAIN es |-> elab_slprop(env, es[i])])

elab_bool(env, e) ==
  LET r == elab_rvalue(env, e, Bool)
  IN Result(cast_to_bool(env, r.v), r.reports)
elab_bools(env, es) == All([i \in DOMAIN es |-> elab_bool(env, es[i])])

\* Mutant: what a pointer points to is not elaborated.
ElabTypeShallow(env, t) ==
  IF t.k = "ptr" THEN Plainly(Ptr(t.to, IF t.kind = "unknown" THEN "ref" ELSE t.kind))
  ELSE Plainly(t)

NewType(env, t) ==
  CASE t.k = "ptr" ->
         LET to == elab_type(env, t.to)
         IN Result(Ptr(to.v, IF t.kind = "unknown" THEN "ref" ELSE t.kind), to.reports)
    [] t.k = "plain" ->
         LET of == elab_type(env, t.of) IN Result(Plain(of.v), of.reports)
    [] t.k \in Refinements ->
         LET of == elab_type(env, t.of)
             p == elab_slprop(PushThis(env, of.v), t.pred)
         IN Result(Refine(t.k, of.v, p.v), of.reports \cup p.reports)
    [] t.k = "refine_value" ->
         LET of == elab_type(env, t.of)
             binding == elab_type(env, t.binding)
             p == elab_slprop(PushThis(env, of.v), t.pred)
         IN Result([t EXCEPT !.of = of.v, !.binding = binding.v, !.pred = p.v],
                   of.reports \cup binding.reports \cup p.reports)
    [] OTHER -> Plainly(t)

\* A variable declared in inline code is known to what follows it there.
NewCode(env, code) ==
  IF code = <<>> THEN Plainly(code)
  ELSE LET t == Head(code)
           ty == elab_type(env, t.ty)
           e == elab_rvalue(env, t.expr, None)
           rest(inner) == elab_code(inner, Tail(code))
           Then(token, reports, inner) ==
             Result(<<token>> \o rest(inner).v, reports \cup rest(inner).reports)
       IN CASE t.token = "expr" -> Then(Antiquot(e.v), e.reports, env)
            [] t.token \in {"type", "aux"} -> Then([t EXCEPT !.ty = ty.v], ty.reports, env)
            [] t.token = "field" -> Then(t, {}, env)
            [] t.token = "declare" ->
                 Then(Declare(t.name, ty.v), ty.reports, PushVar(env, t.name, ty.v, "rvalue"))
-----------------------------------------------------------------------------
\* What a member of an aggregate has to be, after its base was elaborated
SettleField(env, t, e) ==
  LET known == IF t.k = "struct" THEN env.structs ELSE env.unions
  IN Result(e, IF t.k \notin {"struct", "union"} THEN {"not a structure"}
               ELSE IF t.name \notin DOMAIN known THEN {"unknown structure"}
               ELSE IF ~HasField(known[t.name], e.name) THEN {"no field"}
               ELSE {})

\* `_active` of a field of a union, and `_length` of an array, are not members
\* but attributes.
SettleMember(env, e) ==
  LET x == e.kids[1]
      outer == infer_expr(env, x)
      t == Whnf(env, outer)
      base == infer_expr(env, x.kids[1])
      union == Whnf(env, base)
      IsActive == e.name = "_active" /\ x.op = "member" /\ base # None /\ union.k = "union"
      IsLength == e.name = "_length" /\ t.k = "ptr" /\ t.kind = "array"
      field == SettleField(env, union, x)
  IN IF IsActive
     THEN Result(IF field.reports = {} THEN Active(x.name, x.kids[1]) ELSE e, field.reports)
     ELSE IF outer = None THEN Plainly(e)
     ELSE IF IsLength THEN Plainly(Length(x))
     ELSE SettleField(env, t, e)

\* Arithmetic on truth values is done on int, as in C.
Promoted(env, op, ty) ==
  IF IsBool(env, ty) /\ op \notin Comparisons THEN I32 ELSE ty

\* The operands of an operator, of types l and r, are brought to one type.
SettleOperands(env, e, l, r) ==
  LET lhs == e.kids[1]
      rhs == e.kids[2]
      meet == Meet(env, l, r)
      With(x, y) == Plainly(BinOp(e.name, x, y))
      Both(ty) == With(Converted(env, lhs, ty), Converted(env, rhs, ty))
      IsNullTest == e.name = "==" /\ Whnf(env, l).k = "ptr"
                      /\ rhs.op = "int_lit" /\ rhs.name = "0"
      PtrAndInt == IsArray(env, l) /\ ~IsArray(env, r) /\ e.name \in {"+", "-"}
      IntAndPtr == IsArray(env, r) /\ ~IsArray(env, l) /\ e.name = "+"
  IN CASE IsNullTest -> With(lhs, IntLit("0", Whnf(env, l)))
       [] e.name \in Logical ->
            IF IsSLProp(env, meet) THEN Both(meet)
            ELSE With(cast_to_bool(env, lhs), cast_to_bool(env, rhs))
       [] e.name \in Shifts -> With(lhs, Converted(env, rhs, U32))
       [] PtrAndInt -> With(lhs, ToSize(env, rhs))
       [] IntAndPtr -> With(ToSize(env, lhs), rhs)
       [] OTHER -> IF meet = None THEN Result(e, {"cannot apply"})
                   ELSE Both(Promoted(env, e.name, meet))

SettleBinOp(env, e) ==
  LET l == infer_expr(env, e.kids[1])
      r == infer_expr(env, e.kids[2])
  IN IF None \in {l, r} THEN Result(e, {"cannot infer"}) ELSE SettleOperands(env, e, l, r)

\* The branches of a conditional are brought to one type, if there is one.
SettleCond(env, e) ==
  LET c == cast_to_bool(env, e.kids[1])
      a == infer_expr(env, e.kids[2])
      b == infer_expr(env, e.kids[3])
      meet == Meet(env, a, b)
  IN IF None \in {a, b} THEN Cond(c, e.kids[2], e.kids[3])
     ELSE IF meet = None THEN Cond(c, e.kids[2], e.kids[3])
     ELSE Cond(c, Converted(env, e.kids[2], meet), Converted(env, e.kids[3], meet))

SettleCall(env, e) ==
  IF e.name \notin DOMAIN env.fns THEN e
  ELSE LET args == env.fns[e.name].args
           Passed(i) ==
             IF i \in DOMAIN args THEN Converted(env, e.kids[i], Whnf(env, args[i].ty))
             ELSE e.kids[i]
       IN [e EXCEPT !.kids = Each([i \in DOMAIN @ |-> Passed(i)])]

\* An expression whose operands are elaborated
Settle(env, e) ==
  CASE e.op = "member" -> SettleMember(env, e)
    [] e.op = "index" -> Plainly(Index(e.kids[1], ToSize(env, e.kids[2])))
    [] e.op = "alloc_array" -> Plainly(AllocArray(e.ty, ToSize(env, e.kids[1])))
    [] e.op = "call" -> Plainly(SettleCall(env, e))
    [] e.op = "not" -> Plainly(UnOp("not", cast_to_bool(env, e.kids[1])))
    [] e.op = "bin_op" -> SettleBinOp(env, e)
    [] e.op = "cond" -> Plainly(SettleCond(env, e))
    [] e.op = "assign" ->
         LET x == e.kids[1]
             ty == infer_expr(env, x)
             rhs == IF ty = None THEN e.kids[2] ELSE Converted(env, e.kids[2], ty)
         IN Result(AssignExpr(x, rhs), IF is_lvalue(env, x) THEN {} ELSE {"expected lvalue"})
    [] e.op \in {"ref", "incr"} ->
         Result(e, IF is_lvalue(env, e.kids[1]) THEN {} ELSE {"expected lvalue"})
    [] OTHER -> Plainly(e)
-----------------------------------------------------------------------------
\* The type an expression names, elaborated.  Inline code without a type takes
\* the one its surroundings expect; that of a quantified variable is left as it is.
elab_named_type(env, e, expected) ==
  CASE e.op = "inline" /\ e.ty = Unknown ->
         IF expected = None THEN Result(Unknown, {"cannot infer inline code"})
         ELSE elab_type(env, expected)
    [] (e.op = "inline" /\ e.ty # Unknown)
         \/ e.op \in {"int_lit", "cast", "error", "alloc", "alloc_array"} ->
         elab_type(env, e.ty)
    [] OTHER -> Plainly(e.ty)

\* The type expected of an operand
Wanted(env, e, expected, i) ==
  CASE e.op = "call" /\ e.name \in DOMAIN env.fns ->
         IF i \in DOMAIN env.fns[e.name].args THEN env.fns[e.name].args[i].ty ELSE None
    [] e.op = "cast" -> e.ty
    [] e.op = "cond" -> IF i = 1 THEN None ELSE expected
    [] OTHER -> None

elab_operands(env, e, expected) ==
  LET target == elab_rvalue(env, e.kids[1], None)
  IN CASE e.op = "assign" ->
            All(<<target, elab_rvalue(env, e.kids[2], infer_expr(env, target.v))>>)
       [] e.op = "quantified" ->
            All(<<elab_rvalue(PushVar(env, e.name, e.ty, "rvalue"), e.kids[1], None)>>)
       [] OTHER ->
            All([i \in DOMAIN e.kids |->
                   elab_rvalue(env, e.kids[i], Wanted(env, e, expected, i))])

NewRvalue(env, e, expected) ==
  LET ty == elab_named_type(env, e, expected)
      typed == [e EXCEPT !.ty = ty.v]
      operands == elab_operands(env, typed, expected)
      code == elab_code(env, e.code)
  IN IF e.op = "inline"
     THEN Result([typed EXCEPT !.code = code.v], ty.reports \cup code.reports)
     ELSE WithReports(Settle(env, [typed EXCEPT !.kids = operands.v]),
                      ty.reports \cup operands.reports)

elab_rvalues(env, es, expected) ==
  All([i \in DOMAIN es |-> elab_rvalue(env, es[i], expected)])

elab_lvalue(env, e) ==
  LET r == elab_rvalue(env, e, None)
  IN Result(r.v, r.reports \cup IF is_lvalue(env, r.v) THEN {} ELSE {"expected lvalue"})
-----------------------------------------------------------------------------
\* Assigning an array to a plain pointer is left to the checker.
elab_assign(env, s) ==
  LET x == elab_lvalue(env, s.target)
      ty == infer_expr(env, x.v)
      v == elab_rvalue(env, Value(s), ty)
      actual == infer_expr(env, v.v)
      kept == None \in {ty, actual} \/ IsKindRefinement(env, ty, actual)
  IN Result(Assign(x.v, IF kept THEN v.v ELSE Converted(env, v.v, ty)),
            x.reports \cup v.reports)

elab_return(env, s) ==
  LET v == elab_rvalues(env, s.value, env.ret)
  IN Result(Return(IF env.ret = None THEN v.v
                   ELSE Each([i \in DOMAIN v.v |-> Converted(env, v.v[i], env.ret)])),
            v.reports)

elab_while(env, s) ==
  LET c == elab_bool(env, s.cond)
      inv == elab_slprops(env, s.inv)
      req == elab_bools(env, s.requires)
      ens == elab_bools(env, s.ensures)
      body == elab_stmts(env, s.body)
  IN Result(While(c.v, inv.v, req.v, ens.v, body.v), Reports(<<c, inv, req, ens, body>>))

elab_stmt(env, s) ==
  CASE s.op = "call" -> LET e == elab_rvalue(env, Value(s), None) IN Result(Call(e.v), e.reports)
    [] s.op = "decl" ->
         LET ty == elab_type(env, s.ty) IN Result(Decl(s.name, ty.v), ty.reports)
    [] s.op = "stack_array" ->
         LET ty == elab_type(env, s.ty)
             size == elab_rvalue(env, s.size, None)
         IN Result(StackArray(s.name, ty.v, ToSize(env, size.v)), Reports(<<ty, size>>))
    [] s.op = "assign" -> elab_assign(env, s)
    [] s.op = "if" ->
         LET c == elab_bool(env, s.cond)
             yes == elab_stmts(env, s.yes)
             no == elab_stmts(env, s.no)
         IN Result(If(c.v, yes.v, no.v), Reports(<<c, yes, no>>))
    [] s.op = "while" -> elab_while(env, s)
    [] s.op = "return" -> elab_return(env, s)
    [] s.op = "assert" ->
         LET p == elab_slprop(env, s.pred) IN Result(AssertStmt(p.v), p.reports)
    [] s.op = "ghost" ->
         LET code == elab_code(env, s.code) IN Result(GhostStmt(code.v), code.reports)
    [] s.op = "label" ->
         LET ens == elab_slprops(env, s.ensures) IN Result(Label(s.label, ens.v), ens.reports)
    [] s.op = "goto_block" ->
         LET body == elab_stmts(env, s.body)
             ens == elab_slprops(env, s.ensures)
         IN Result(GotoBlock(s.label, body.v, ens.v), Reports(<<body, ens>>))
    [] OTHER -> Plainly(s)
-----------------------------------------------------------------------------
\* The first assignment to a declared pointer, among the statements after the
\* declaration, tells its kind, if the type of what is assigned is known there.
RefinedKind(env, stmts, i) ==
  LET Targets == {j \in i + 1 .. Len(stmts) :
                    stmts[j].op = "assign" /\ stmts[j].target = Var(stmts[i].name)}
      first == CHOOSE j \in Targets : \A k \in Targets : j <= k
      ty == infer_expr(env, Value(stmts[first]))
      w == Whnf(env, ty)
  IN IF Targets = {} THEN stmts[i].ty.kind
     ELSE IF ty = None THEN stmts[i].ty.kind
     ELSE IF w.k = "ptr" /\ w.kind # "unknown" THEN w.kind ELSE stmts[i].ty.kind

refine_decl_pointer_kind(env, stmts, i) ==
  IF stmts[i].op = "decl" /\ stmts[i].ty.k = "ptr" /\ stmts[i].ty.kind \in {"unknown", "ref"}
  THEN [stmts[i] EXCEPT !.ty.kind = RefinedKind(env, stmts, i)]
  ELSE stmts[i]

WithValue(s, e) == [s EXCEPT !.value = <<e>>]

\* `s(c ? a : b)` becomes `if (c) s(a) else s(b)`.
lower_expr(s) ==
  IF HasValue(s) /\ Value(s).op = "cond"
  THEN LET k == Value(s).kids IN If(k[1], <<WithValue(s, k[2])>>, <<WithValue(s, k[3])>>)
  ELSE s

\* Mutant: the assignment is inserted behind the statement.
LowerAssignAfter(s) ==
  IF HasValue(s) /\ Value(s).op = "assign"
  THEN LET k == Value(s).kids IN <<WithValue(s, k[1]), Assign(k[1], k[2])>>
  ELSE <<s>>

\* `s(x = e)` becomes `x = e; s(x)`: none or one statement to insert before s,
\* and s.
lower_assign_expr(s) ==
  IF HasValue(s) /\ Value(s).op = "assign"
  THEN LET k == Value(s).kids IN <<Assign(k[1], k[2]), WithValue(s, k[1])>>
  ELSE <<s>>

\* The loop over a block: where an assignment was lifted out of a statement, it
\* goes on at the statement inserted, with the same index.
CONSTANT elab_from(_, _, _)
GoOn(env, stmts, i, lowered, reports) ==
  LET after == SubSeq(stmts, 1, i - 1) \o lowered \o SubSeq(stmts, i + 1, Len(stmts))
  IN WithReports(IF Len(lowered) > 1 THEN elab_from(env, after, i)
                 ELSE elab_from(PushStmt(env, lowered[1]), after, i + 1), reports)
elab_at(env, stmts, i, r) ==
  GoOn(env, stmts, i, lower_assign_expr(lower_expr(r.v)), r.reports)
Def_elab_from(env, stmts, i) ==
  IF i > Len(stmts) THEN Plainly(stmts)
  ELSE elab_at(env, stmts, i, elab_stmt(env, refine_decl_pointer_kind(env, stmts, i)))

NewStmts(env, stmts) == elab_from(env, stmts, 1)
-----------------------------------------------------------------------------
\* Arguments in order, each known to the types of the following ones
CONSTANT elab_args(_, _)
Def_elab_args(env, args) ==
  IF args = <<>> THEN Plainly(args)
  ELSE LET ty == elab_type(env, Head(args).ty)
           arg == [Head(args) EXCEPT !.ty = ty.v]
           rest == elab_args(PushVar(env, arg.name, arg.ty, "rvalue"), Tail(args))
       IN Result(<<arg>> \o rest.v, ty.reports \cup rest.reports)

elab_fields(env, fields) ==
  LET tys == Each([i \in DOMAIN fields |-> elab_type(env, fields[i].ty)])
  IN Result(Each([i \in DOMAIN fields |-> [fields[i] EXCEPT !.ty = tys[i].v]]), Reports(tys))

NewFnDecl(env, fn) ==
  LET ghosts == elab_args(env, fn.ghosts)
      ghostEnv == PushArgs(env, ghosts.v, "rvalue")
      args == elab_args(ghostEnv, fn.args)
      argEnv == PushArgs(ghostEnv, args.v, "rvalue")
      req == elab_slprops(argEnv, fn.requires)
      ret == elab_type(argEnv, fn.ret)
      retEnv == PushReturn(argEnv, ret.v)
      ens == elab_slprops(retEnv, fn.ensures)
      dec == elab_rvalues(retEnv, fn.decreases, None)
  IN Result([fn EXCEPT !.ghosts = ghosts.v, !.args = args.v, !.requires = req.v,
                       !.ret = ret.v, !.ensures = ens.v, !.decreases = dec.v],
            Reports(<<ghosts, args, req, ret, ens, dec>>))

elab_fn_defn(env, fn) ==
  LET decl == elab_fn_decl(env, fn)
      body == elab_stmts(PushFnBody(env, decl.v), fn.body)
  IN Result([decl.v EXCEPT !.body = body.v], Reports(<<decl, body>>))

elab_let(env, let) ==
  LET ret == elab_type(env, let.ret)
      args == elab_fields(env, let.args)
      argEnv == PushArgs(env, args.v, "lvalue")
      req == elab_rvalues(argEnv, let.requires, None)
      ens == elab_rvalues(argEnv, let.ensures, None)
      body == elab_rvalue(argEnv, let.body, ret.v)
  IN Result([let EXCEPT !.ret = ret.v, !.args = args.v, !.requires = req.v,
                         !.ensures = ens.v, !.body = body.v],
            Reports(<<ret, args, req, ens, body>>))

elab_global(env, g) ==
  LET ty == elab_type(env, g.ty)
      init == elab_rvalues(env, g.init, ty.v)
  IN Result([g EXCEPT !.ty = ty.v, !.init = init.v], Reports(<<ty, init>>))

NewDecl(env, d) ==
  CASE d.op = "fn_defn" -> elab_fn_defn(env, d)
    [] d.op = "fn_decl" -> elab_fn_decl(env, d)
    [] d.op = "typedef" ->
         LET ty == elab_type(env, d.ty) IN Result(Typedef(d.name, ty.v), ty.reports)
    [] d.op \in {"struct_defn", "union_defn"} ->
         LET fields == elab_fields(env, d.fields)
         IN Result([d EXCEPT !.fields = fields.v], fields.reports)
    [] d.op \in {"include", "opaque"} ->
         LET code == elab_code(env, d.code) IN Result([d EXCEPT !.code = code.v], code.reports)
    [] d.op = "let" -> elab_let(env, d)
    [] d.op = "global" -> elab_global(env, d)
    [] OTHER -> Plainly(d)

Def_Elaborate(what, env, x, expected) ==
  CASE what = "type" -> NewType(env, x)
    [] what = "rvalue" -> NewRvalue(env, x, expected)
    [] what = "code" -> NewCode(env, x)
    [] what = "stmts" -> NewStmts(env, x)
    [] what = "fn_decl" -> NewFnDecl(env, x)
    [] what = "decl" -> NewDecl(env, x)

\* Mutant: a recursive function is known to its body as it was declared.
PreRegisterAsDeclared(env, d) ==
  LET known == IF d.op = "fn_defn" /\ d.rec THEN PushFn(env, d)
               ELSE IF d.op = "struct_defn" THEN PushStruct(env, d) ELSE env
  IN [decl |-> Plainly(d), env |-> known]

Early(env, early) == [decl |-> early, env |-> PushFn(env, early.v)]

\* A recursive function is elaborated, but for its body, and a structure
\* registered as it is before the declaration is elaborated in full.
PreRegister(env, d) ==
  IF d.op = "fn_defn" /\ d.rec THEN Early(env, elab_fn_decl(env, d))
  ELSE [decl |-> Plainly(d), env |-> IF d.op = "struct_defn" THEN PushStruct(env, d) ELSE env]

\* One turn of the loop of the pass
Registered(early, full) ==
  [decl |-> full.v, reports |-> early.decl.reports \cup full.reports,
   env |-> PushDecl(early.env, full.v)]
Fully(early) == Registered(early, elab_decl(early.env, early.decl.v))
elab_next(env, d) == Fully(PreRegister(env, d))
=============================================================================
