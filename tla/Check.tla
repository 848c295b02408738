------------------------------- MODULE Check -------------------------------
(***************************************************************************)
(* The pass check (src/src/pass/check.rs): what it reports of a program.   *)
(* It runs twice: before elaboration, for names only, and after it, for    *)
(* types too (`typed`).                                                    *)
(***************************************************************************)
EXTENDS Types

\* The functions of the pass call each other: Visit ties them together, and gives
\* what is reported of a piece of the program, be it a type or a declaration.
CONSTANT Visit(_, _, _, _)
check_type(env, t, typed) == Visit("type", env, t, typed)
check_rvalue(env, e, typed) == Visit("rvalue", env, e, typed)
check_code(env, code, typed) == Visit("code", env, code, typed)
check_stmts(env, stmts, typed) == Visit("stmts", env, stmts, typed)
check_decl(env, d, typed) == Visit("decl", env, d, typed)

When(b, report) == IF b THEN {report} ELSE {}
-----------------------------------------------------------------------------
check_has_type(env, e, expected, typed) ==
  LET ty == infer_expr(env, e)
  IN IF ~typed THEN {}
     ELSE IF ty = None THEN {"cannot infer"}
     ELSE When(~TypeEq(env, ty, expected), "expected type")

check_slprop(env, e, typed) ==
  check_rvalue(env, e, typed) \cup check_has_type(env, e, SLProp, typed)
check_slprops(env, es, typed) == UNION {check_slprop(env, es[i], typed) : i \in DOMAIN es}

check_bool(env, e, typed) ==
  check_rvalue(env, e, typed) \cup check_has_type(env, e, Bool, typed)
check_bools(env, es, typed) == UNION {check_bool(env, es[i], typed) : i \in DOMAIN es}

check_rvalues(env, es, typed) == UNION {check_rvalue(env, es[i], typed) : i \in DOMAIN es}

OfType(env, t, typed) ==
  CASE t.k = "ptr" -> check_type(env, t.to, typed)
    [] t.k = "plain" -> check_type(env, t.of, typed)
    [] t.k = "typedef" -> When(~IsKnownType(env, t.name), "unknown type")
    [] t.k = "struct" -> When(t.name \notin DOMAIN env.structs, "unknown struct")
    [] t.k = "union" -> When(t.name \notin DOMAIN env.unions, "unknown union")
    [] t.k \in Refinements ->
         check_type(env, t.of, typed) \cup check_slprop(PushThis(env, t.of), t.pred, typed)
    [] t.k = "refine_value" ->
         check_type(env, t.of, typed) \cup check_type(env, t.binding, typed)
           \cup check_slprop(PushThis(env, t.of), t.pred, typed)
    [] OTHER -> {}

\* The types a literal may have
IsValidIntType(env, t) ==
  Whnf(env, t).k \notin {"void", "typedef", "struct", "union"}

OfCode(env, code, typed) ==
  IF code = <<>> THEN {}
  ELSE LET t == Head(code)
           inner == IF t.token = "declare" THEN PushVar(env, t.name, t.ty, "rvalue") ELSE env
       IN check_code(inner, Tail(code), typed) \cup
            CASE t.token = "expr" -> check_rvalue(env, t.expr, typed)
              [] t.token \in {"type", "declare"} -> check_type(env, t.ty, typed)
              [] OTHER -> {}
-----------------------------------------------------------------------------
\* What is wrong with an expression apart from its operands.  Operands without
\* a type are reported as such.
check_deref(env, e) ==
  LET ty == infer_expr(env, e.kids[1])
  IN IF ty = None THEN {"cannot infer"}
     ELSE When(Whnf(env, ty).k \notin {"ptr", "error"}, "not a pointer type")

check_member(env, e) ==
  LET ty == infer_expr(env, e.kids[1])
      t == Whnf(env, ty)
      known == IF t.k = "struct" THEN env.structs ELSE env.unions
  IN IF ty = None THEN {"cannot infer"}
     ELSE IF t.k \notin {"struct", "union"} THEN {"not a structure"}
     ELSE IF t.name \notin DOMAIN known THEN {"unknown structure"}
     ELSE When(~HasField(known[t.name], e.name), "no field")

check_index(env, e) ==
  LET arr == infer_expr(env, e.kids[1])
      idx == infer_expr(env, e.kids[2])
  IN (IF arr = None THEN {"cannot infer"}
      ELSE When(~IsArray(env, arr) /\ Whnf(env, arr) # ErrorType, "not an array type"))
     \cup (IF idx = None THEN {"cannot infer"}
           ELSE When(Whnf(env, idx).k \notin {"size", "error"}, "array index"))

check_not(env, e) ==
  LET ty == infer_expr(env, e.kids[1])
  IN IF ty = None THEN {"cannot infer"}
     ELSE When(Whnf(env, ty).k \notin {"bool", "error"}, "! needs bool")

check_bin_op(env, e) ==
  LET l == infer_expr(env, e.kids[1])
      r == infer_expr(env, e.kids[2])
      mismatch == When(~TypeEq(env, l, r), "mismatching types")
      IsPtrArith == e.name \in {"+", "-"} /\ (IsArray(env, l) \/ IsArray(env, r))
  IN IF None \in {l, r} THEN {"cannot infer"}
     ELSE CASE e.name \in Logical ->
                 mismatch \cup When(Whnf(env, l).k \notin {"bool", "slprop", "error"},
                                    "needs bool or slprop")
            [] e.name \in Shifts -> When(~TypeEq(env, r, U32), "shift amount")
            [] OTHER -> IF IsPtrArith THEN {} ELSE mismatch

check_call(env, e, typed) ==
  IF e.name \notin DOMAIN env.fns THEN {"unknown function"}
  ELSE LET args == env.fns[e.name].args
       IN When(Len(args) # Len(e.kids), "incorrect number of arguments")
            \cup UNION {check_has_type(env, e.kids[i], args[i].ty, typed) :
                          i \in DOMAIN args \cap DOMAIN e.kids}

\* The initialised fields are looked at with the types only.
check_init(env, e, typed) ==
  LET aggregates == IF e.op = "struct_init" THEN env.structs ELSE env.unions
      fields == aggregates[e.name]
  IN IF e.name \notin DOMAIN aggregates THEN {"unknown structure"}
     ELSE IF ~typed THEN {}
     ELSE When(e.op = "struct_init" /\ Len(e.kids) # Len(fields), "number of fields")
            \cup check_rvalues(env, e.kids, typed)
            \cup UNION {IF HasField(fields, e.fields[i])
                        THEN check_has_type(env, e.kids[i], FieldType(fields, e.fields[i]), typed)
                        ELSE {"no field"} : i \in DOMAIN e.kids}

check_var(env, x) == When(~KnowsVar(env, x), "unknown local variable")

\* The part of an expression that is checked whether or not types are
CheckNames(env, e, typed) ==
  CASE e.op = "var" -> check_var(env, e.name)
    [] e.op = "call" -> check_call(env, e, typed)
    [] e.op \in {"int_lit", "cast", "alloc", "alloc_array", "error", "quantified"} ->
         check_type(env, e.ty, typed)
    [] e.op = "inline" -> check_type(env, e.ty, typed) \cup check_code(env, e.code, typed)
    [] e.op \in {"ref", "incr"} -> When(~is_lvalue(env, e.kids[1]), "expected lvalue")
    [] OTHER -> {}

CheckTypes(env, e) ==
  CASE e.op = "int_lit" -> When(~IsValidIntType(env, e.ty), "invalid integer type")
    [] e.op = "deref" -> check_deref(env, e)
    [] e.op = "member" -> check_member(env, e)
    [] e.op = "index" -> check_index(env, e)
    [] e.op = "not" -> check_not(env, e)
    [] e.op = "bin_op" -> check_bin_op(env, e)
    [] OTHER -> {}

OfRvalue(env, e, typed) ==
  LET inner == IF e.op = "quantified" THEN PushVar(env, e.name, e.ty, "rvalue") ELSE env
  IN IF e.op \in {"struct_init", "union_init"} THEN check_init(env, e, typed)
     ELSE check_rvalues(inner, e.kids, typed) \cup CheckNames(env, e, typed)
            \cup IF typed THEN CheckTypes(env, e) ELSE {}

check_lvalue(env, e, typed) ==
  check_rvalue(env, e, typed) \cup When(~is_lvalue(env, e), "expected lvalue")
-----------------------------------------------------------------------------
check_assign(env, s, typed) ==
  LET x == infer_expr(env, s.target)
      v == infer_expr(env, Value(s))
  IN check_lvalue(env, s.target, typed) \cup check_rvalue(env, Value(s), typed)
       \cup (IF ~typed THEN {}
             ELSE IF None \in {x, v} THEN {"cannot infer"}
             ELSE When(~TypeEq(env, v, x),
                       IF IsKindRefinement(env, x, v) THEN "expected pointer kind"
                       ELSE "expected type"))

check_return(env, s, typed) ==
  check_rvalues(env, s.value, typed)
    \cup (IF env.ret = None THEN {}
          ELSE UNION {check_has_type(env, s.value[i], env.ret, typed) : i \in DOMAIN s.value})

check_while(env, s, typed) ==
  check_bool(env, s.cond, typed) \cup check_slprops(env, s.inv, typed)
    \cup check_bools(env, s.requires, typed) \cup check_bools(env, s.ensures, typed)
    \cup check_stmts([env EXCEPT !.loop = @ + 1], s.body, typed)

check_stmt(env, s, typed) ==
  CASE s.op = "call" -> check_rvalue(env, Value(s), typed)
    [] s.op = "decl" -> check_type(env, s.ty, typed)
    [] s.op = "stack_array" -> check_type(env, s.ty, typed) \cup check_rvalue(env, s.size, typed)
    [] s.op = "assign" -> check_assign(env, s, typed)
    [] s.op = "if" -> check_bool(env, s.cond, typed)
                        \cup check_stmts(env, s.yes, typed) \cup check_stmts(env, s.no, typed)
    [] s.op = "while" -> check_while(env, s, typed)
    [] s.op = "break" -> When(env.loop = 0, "outside of loop")
    [] s.op = "return" -> check_return(env, s, typed)
    [] s.op = "assert" -> check_slprop(env, s.pred, typed)
    [] s.op = "ghost" -> check_code(env, s.code, typed)
    [] s.op = "label" -> check_slprops(env, s.ensures, typed)
    [] s.op = "goto_block" ->
         check_stmts(env, s.body, typed) \cup check_slprops(env, s.ensures, typed)
    [] OTHER -> {}

OfStmts(env, stmts, typed) ==
  IF stmts = <<>> THEN {}
  ELSE check_stmt(env, Head(stmts), typed)
         \cup check_stmts(PushStmt(env, Head(stmts)), Tail(stmts), typed)
-----------------------------------------------------------------------------
CONSTANT check_args(_, _, _)
Def_check_args(env, args, typed) ==
  IF args = <<>> THEN {}
  ELSE check_type(env, Head(args).ty, typed)
         \cup check_args(PushArgs(env, <<Head(args)>>, "rvalue"), Tail(args), typed)

check_fields(env, fields, typed) ==
  UNION {check_type(env, fields[i].ty, typed) : i \in DOMAIN fields}

check_fn_decl(env, fn, typed) ==
  LET ghostEnv == PushArgs(env, fn.ghosts, "rvalue")
      argEnv == PushArgs(ghostEnv, fn.args, "rvalue")
      retEnv == PushReturn(argEnv, fn.ret)
  IN check_args(env, fn.ghosts, typed) \cup check_args(ghostEnv, fn.args, typed)
       \cup check_slprops(argEnv, fn.requires, typed) \cup check_type(argEnv, fn.ret, typed)
       \cup check_slprops(retEnv, fn.ensures, typed)
       \cup check_rvalues(retEnv, fn.decreases, typed)

check_let(env, let, typed) ==
  LET argEnv == PushArgs(env, let.args, "lvalue")
  IN check_type(env, let.ret, typed) \cup check_fields(env, let.args, typed)
       \cup check_rvalues(argEnv, let.requires \o let.ensures \o <<let.body>>, typed)

OfDecl(env, d, typed) ==
  CASE d.op = "fn_defn" -> check_fn_decl(env, d, typed)
                             \cup check_stmts(PushFnBody(env, d), d.body, typed)
    [] d.op = "fn_decl" -> check_fn_decl(env, d, typed)
    [] d.op = "typedef" -> check_type(env, d.ty, typed)
    [] d.op \in {"struct_defn", "union_defn"} -> check_fields(env, d.fields, typed)
    [] d.op = "opaque" -> check_code(env, d.code, typed)
    [] d.op = "let" -> check_let(env, d, typed)
    [] d.op = "global" ->
         check_type(env, d.ty, typed) \cup check_rvalues(env, d.init, typed)
    [] OTHER -> {}

Def_Visit(what, env, x, typed) ==
  CASE what = "type" -> OfType(env, x, typed)
    [] what = "rvalue" -> OfRvalue(env, x, typed)
    [] what = "code" -> OfCode(env, x, typed)
    [] what = "stmts" -> OfStmts(env, x, typed)
    [] what = "decl" -> OfDecl(env, x, typed)

\* Mutant: a declaration is registered before it is checked, whatever it is.
CheckNextRegistered(env, d, typed) ==
  [reports |-> check_decl(PushDecl(env, d), d, typed), env |-> PushDecl(env, d)]

\* One turn of the loop of the pass
check_next(env, d, typed) ==
  LET early == IF d.op = "fn_defn" /\ d.rec THEN PushFn(env, d)
               ELSE IF d.op = "struct_defn" THEN PushStruct(env, d)
               ELSE env
  IN [reports |-> check_decl(early, d, typed), env |-> PushDecl(early, d)]
=============================================================================
