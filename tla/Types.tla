------------------------------- MODULE Types -------------------------------
(***************************************************************************)
(* The statements and declarations of the IR (src/src/ir/mod.rs), the      *)
(* environment names are looked up in, and the types inferred for          *)
(* expressions (src/src/env.rs).  The predicate of a refinement is an      *)
(* expression; nothing here looks into it.  A named type is compared by    *)
(* its name, a pointer by its kind and what it points to, and the type of  *)
(* what could not be translated equals every type.                         *)
(*                                                                         *)
(* The recursive functions of this module, and of those built on it, are   *)
(* parameters: f, declared as a CONSTANT, is given the definition Def f by *)
(* the configuration (Typing.cfg).  The provers can then use it, as an     *)
(* equation.                                                               *)
(***************************************************************************)
EXTENDS Terms

\* Statements and declarations.  An optional part is a sequence of length at most one.
Call(e) == [op |-> "call", value |-> <<e>>]
Assign(x, e) == [op |-> "assign", target |-> x, value |-> <<e>>]
Return(value) == [op |-> "return", value |-> value]
Decl(x, ty) == [op |-> "decl", name |-> x, ty |-> ty]
StackArray(x, ty, size) == [op |-> "stack_array", name |-> x, ty |-> ty, size |-> size]
If(c, yes, no) == [op |-> "if", cond |-> c, yes |-> yes, no |-> no]
While(c, inv, requires, ensures, body) ==
  [op |-> "while", cond |-> c, inv |-> inv, requires |-> requires, ensures |-> ensures,
   body |-> body]
Break == [op |-> "break"]                         \* and continue
AssertStmt(e) == [op |-> "assert", pred |-> e]
GhostStmt(code) == [op |-> "ghost", code |-> code]
Goto(l) == [op |-> "goto", label |-> l]
Label(l, ensures) == [op |-> "label", label |-> l, ensures |-> ensures]
GotoBlock(l, body, ensures) ==
  [op |-> "goto_block", label |-> l, body |-> body, ensures |-> ensures]
ErrorStmt == [op |-> "error"]

\* The statements whose right side the pass elab lowers
HasValue(s) == s.op \in {"call", "assign", "return"} /\ s.value # <<>>
Value(s) == s.value[1]

\* An argument, or a field.  The mode is regular, consumed, const or out.
Arg(x, ty) == [name |-> x, ty |-> ty, mode |-> "regular"]

FnDecl(f, ret, args, requires, ensures) ==
  [op |-> "fn_decl", name |-> f, ret |-> ret, args |-> args, ghosts |-> <<>>,
   requires |-> requires, ensures |-> ensures, decreases |-> <<>>, rec |-> FALSE,
   pure |-> FALSE, body |-> <<>>]
FnDefn(decl, body) == [decl EXCEPT !.op = "fn_defn", !.body = body]
Typedef(t, ty) == [op |-> "typedef", name |-> t, ty |-> ty]
StructDefn(s, fields) == [op |-> "struct_defn", name |-> s, fields |-> fields]
StructDecl(s) == [op |-> "struct_decl", name |-> s]
UnionDefn(u, fields) == [op |-> "union_defn", name |-> u, fields |-> fields]
Include(code) == [op |-> "include", code |-> code]
OpaqueType(t, code) == [op |-> "opaque", name |-> t, code |-> code]
LetDecl(f, ret, args, requires, ensures, body) ==
  [op |-> "let", name |-> f, ret |-> ret, args |-> args, impure |-> FALSE,
   requires |-> requires, ensures |-> ensures, body |-> body]
GlobalVar(x, ty, init) ==
  [op |-> "global", name |-> x, ty |-> ty, init |-> init, pure |-> TRUE]
-----------------------------------------------------------------------------
\* What the types of the IR say of its values: which parts each has, and how many.
\* The number bounds how deep they are nested.  Types and expressions have more
\* parts than the ones that matter here.
IsSeq(s) == s \in Seq({s[k] : k \in DOMAIN s})

CONSTANT IsType(_, _)
Def_IsType(n, t) ==
  /\ n \in Nat \ {0}
  /\ t.k = "ptr" => IsType(n - 1, t.to)
  /\ t.k \in Refinements \cup {"plain", "refine_value"} => IsType(n - 1, t.of)
  /\ t.k = "ptr" => t = Ptr(t.to, t.kind)
  /\ t.k = "plain" => t = Plain(t.of)
  /\ t.k \in Refinements => t = Refine(t.k, t.of, t.pred)
  /\ t.k = "refine_value" => t = RefineValue(t.of, t.binder, t.binding, t.pred)

Nullary == {"var", "bool_lit", "int_lit", "alloc", "error", "inline"}
Unary == {"deref", "member", "length", "active", "ref", "not", "neg", "bit_not", "cast", "live",
         "old", "quantified", "alloc_array", "free", "incr", "union_init"}
Binary == {"index", "bin_op", "assign"}
NamedOps == {"var", "member", "active", "int_lit", "bin_op", "call", "quantified", "struct_init",
            "union_init"}

CONSTANT IsExpr(_, _)
IsToken(t) ==
  CASE t.token = "expr" -> t = Antiquot(t.expr)
    [] t.token = "declare" -> t = Declare(t.name, t.ty)
    [] OTHER -> t \in {TypeAntiquot(t.ty), AuxFn(t.ty), FieldName(t.ty)}
IsCode(n, code) ==
  /\ IsSeq(code)
  /\ \A k \in DOMAIN code :
       /\ IsToken(code[k])
       /\ code[k].token = "expr" => IsExpr(n, code[k].expr)

HasShape(e) ==
  /\ {"op", "name", "ty", "kids"} \subseteq DOMAIN e
  /\ IsSeq(e.kids)
  /\ \/ e.op \in Nullary /\ Len(e.kids) = 0
     \/ e.op \in Unary /\ Len(e.kids) = 1
     \/ e.op \in Binary /\ Len(e.kids) = 2
     \/ e.op = "cond" /\ Len(e.kids) = 3
     \/ e.op \in {"call", "struct_init"}
  /\ e.op \notin NamedOps => e.name = ""
  /\ e.op = "inline" => "code" \in DOMAIN e

Def_IsExpr(n, e) ==
  /\ n \in Nat \ {0} /\ HasShape(e)
  /\ \A k \in DOMAIN e.kids : IsExpr(n - 1, e.kids[k])
  /\ e.op = "inline" => IsCode(n - 1, e.code)
IsExprs(n, es) == IsSeq(es) /\ \A k \in DOMAIN es : IsExpr(n, es[k])

\* The expressions, the inline code and the blocks a statement is made of
Exprs(s) ==
  CASE s.op \in {"call", "return"} -> s.value
    [] s.op = "assign" -> <<s.target>> \o s.value
    [] s.op = "stack_array" -> <<s.size>>
    [] s.op = "if" -> <<s.cond>>
    [] s.op = "while" -> <<s.cond>> \o s.inv \o s.requires \o s.ensures
    [] s.op = "assert" -> <<s.pred>>
    [] s.op \in {"label", "goto_block"} -> s.ensures
    [] OTHER -> <<>>

StmtCode(s) == IF s.op = "ghost" THEN s.code ELSE <<>>

Blocks(s) ==
  CASE s.op = "if" -> <<s.yes, s.no>>
    [] s.op \in {"while", "goto_block"} -> <<s.body>>
    [] OTHER -> <<>>

CONSTANT IsStmts(_, _)
StmtShape(s) ==
  CASE s.op = "call" -> s = Call(Value(s))
    [] s.op = "assign" -> s = Assign(s.target, Value(s))
    [] s.op = "return" -> s = Return(s.value) /\ IsSeq(s.value) /\ Len(s.value) <= 1
    [] s.op = "decl" -> s = Decl(s.name, s.ty)
    [] s.op = "stack_array" -> s = StackArray(s.name, s.ty, s.size)
    [] s.op = "if" -> s = If(s.cond, s.yes, s.no)
    [] s.op = "while" -> /\ s = While(s.cond, s.inv, s.requires, s.ensures, s.body)
                         /\ IsSeq(s.inv) /\ IsSeq(s.requires) /\ IsSeq(s.ensures)
    [] s.op = "assert" -> s = AssertStmt(s.pred)
    [] s.op = "ghost" -> s = GhostStmt(s.code)
    [] s.op = "label" -> s = Label(s.label, s.ensures) /\ IsSeq(s.ensures)
    [] s.op = "goto_block" -> s = GotoBlock(s.label, s.body, s.ensures) /\ IsSeq(s.ensures)
    [] OTHER -> s.op \in {"break", "goto", "error"}
IsStmt(n, s) ==
  /\ StmtShape(s) /\ IsExprs(n, Exprs(s)) /\ IsCode(n, StmtCode(s))
  /\ \A b \in DOMAIN Blocks(s) : IsStmts(n, Blocks(s)[b])
Def_IsStmts(n, stmts) ==
  n \in Nat \ {0} /\ IsSeq(stmts) /\ \A k \in DOMAIN stmts : IsStmt(n - 1, stmts[k])

\* Arguments and fields; declarations, of which structures declared and not
\* defined have no parts
IsArgs(n, args) ==
  /\ IsSeq(args)
  /\ \A k \in DOMAIN args :
       /\ DOMAIN args[k] = {"name", "ty", "mode"} /\ IsType(n, args[k].ty)
       /\ args[k].mode \in {"regular", "consumed", "const", "out"}

IsFn(d) == d.op \in {"fn_decl", "fn_defn"}
Body(d) == IF d.op = "fn_defn" THEN d.body ELSE <<>>

DeclExprs(d) ==
  CASE IsFn(d) -> d.requires \o d.ensures \o d.decreases
    [] d.op = "let" -> d.requires \o d.ensures \o <<d.body>>
    [] d.op = "global" -> d.init
    [] OTHER -> <<>>

DeclCode(d) == IF d.op \in {"include", "opaque"} THEN d.code ELSE <<>>

DeclShape(n, d) ==
  CASE IsFn(d) ->
         /\ DOMAIN d = {"op", "name", "ret", "args", "ghosts", "requires", "ensures", "decreases",
                        "rec", "pure", "body"}
         /\ IsSeq(d.requires) /\ IsSeq(d.ensures) /\ IsSeq(d.decreases)
         /\ IsArgs(n, d.args) /\ IsArgs(n, d.ghosts) /\ IsType(n, d.ret)
    [] d.op = "let" ->
         /\ DOMAIN d = {"op", "name", "ret", "args", "impure", "requires", "ensures", "body"}
         /\ IsSeq(d.requires) /\ IsSeq(d.ensures)
         /\ IsArgs(n, d.args) /\ IsType(n, d.ret)
    [] d.op = "typedef" -> d = Typedef(d.name, d.ty) /\ IsType(n, d.ty)
    [] d.op \in {"struct_defn", "union_defn"} ->
         DOMAIN d = {"op", "name", "fields"} /\ IsArgs(n, d.fields)
    [] d.op = "include" -> d = Include(d.code)
    [] d.op = "opaque" -> d = OpaqueType(d.name, d.code)
    [] d.op = "global" -> /\ DOMAIN d = {"op", "name", "ty", "init", "pure"}
                          /\ IsSeq(d.init) /\ IsType(n, d.ty)
    [] OTHER -> d.op = "struct_decl"
IsDecl(n, d) ==
  DeclShape(n, d) /\ IsExprs(n, DeclExprs(d)) /\ IsCode(n, DeclCode(d)) /\ IsStmts(n, Body(d))
IsUnit(n, unit) == IsSeq(unit) /\ \A k \in DOMAIN unit : IsDecl(n, unit[k])
-----------------------------------------------------------------------------
\* The environment: the globals, the local variables, the loops around a
\* statement and the return type of the function it is in.
NewEnv ==
  [fns |-> Empty, typedefs |-> Empty, opaque |-> {}, structs |-> Empty,
   unions |-> Empty, globals |-> Empty, locals |-> Empty, loop |-> 0, ret |-> None]

PushVar(env, x, ty, kind) ==
  [env EXCEPT !.locals = Put(@, x, [ty |-> ty, kind |-> kind])]
PushThis(env, ty) == PushVar(env, "this", ty, "rvalue")
PushReturn(env, ty) == PushVar(env, "return", ty, "rvalue")

\* Arguments without a name are not pushed; here every argument has one.
CONSTANT PushArgs(_, _, _)
Def_PushArgs(env, args, kind) ==
  IF args = <<>> THEN env
  ELSE PushArgs(PushVar(env, Head(args).name, Head(args).ty, kind), Tail(args), kind)

PushFnBody(env, fn) ==
  [PushArgs(PushArgs(env, fn.ghosts, "rvalue"), fn.args, "lvalue") EXCEPT !.ret = fn.ret]

PushFn(env, d) ==
  [env EXCEPT !.fns = Put(@, d.name, [ret |-> d.ret, args |-> d.args])]
PushStruct(env, d) == [env EXCEPT !.structs = Put(@, d.name, d.fields)]

PushDecl(env, d) ==
  CASE d.op \in {"fn_defn", "fn_decl", "let"} -> PushFn(env, d)
    [] d.op = "typedef" -> [env EXCEPT !.typedefs = Put(@, d.name, d.ty)]
    [] d.op = "struct_defn" -> PushStruct(env, d)
    [] d.op = "struct_decl" ->
         IF d.name \in DOMAIN env.structs THEN env
         ELSE PushStruct(env, [name |-> d.name, fields |-> <<>>])
    [] d.op = "union_defn" -> [env EXCEPT !.unions = Put(@, d.name, d.fields)]
    [] d.op = "global" -> [env EXCEPT !.globals = Put(@, d.name, d.ty)]
    [] d.op = "opaque" -> [env EXCEPT !.opaque = @ \cup {d.name}]
    [] OTHER -> env

PushStmt(env, s) ==
  CASE s.op = "decl" -> PushVar(env, s.name, s.ty, "lvalue")
    [] s.op = "stack_array" -> PushVar(env, s.name, Ptr(s.ty, "array"), "lvalue")
    [] OTHER -> env

IsKnownType(env, n) == n \in DOMAIN env.typedefs \/ n \in env.opaque
KnowsVar(env, x) == x \in DOMAIN env.locals \/ x \in DOMAIN env.globals

\* A local hides a global of the same name.
VarType(env, x) ==
  IF x \in DOMAIN env.locals THEN env.locals[x].ty
  ELSE IF x \in DOMAIN env.globals THEN env.globals[x]
  ELSE None

HasField(fields, a) == \E i \in DOMAIN fields : fields[i].name = a
FieldType(fields, a) ==
  IF HasField(fields, a)
  THEN fields[CHOOSE i \in DOMAIN fields :
                fields[i].name = a /\ \A j \in 1 .. i - 1 : fields[j].name # a].ty
  ELSE None
-----------------------------------------------------------------------------
\* The type under its names and refinements
CONSTANT Whnf(_, _)
Def_Whnf(env, t) ==
  CASE t.k = "typedef" /\ t.name \in DOMAIN env.typedefs -> Whnf(env, env.typedefs[t.name])
    [] t.k \in Refinements \cup {"refine_value", "plain"} -> Whnf(env, t.of)
    [] OTHER -> t

CONSTANT TypeEq(_, _, _)
Def_TypeEq(env, a, b) ==
  LET x == Whnf(env, a)
      y == Whnf(env, b)
  IN \/ {x.k, y.k} \cap {"error", "unknown"} # {}
     \/ /\ x.k = "ptr" /\ y.k = "ptr"
        /\ x.kind = y.kind
        /\ TypeEq(env, x.to, y.to)
     \/ x.k # "ptr" /\ x = y

IsBool(env, t) == t # None /\ Whnf(env, t).k = "bool"
IsSLProp(env, t) == t # None /\ Whnf(env, t).k = "slprop"
IsSize(env, t) == Whnf(env, t).k = "size"
IsArray(env, t) == LET w == Whnf(env, t) IN w.k = "ptr" /\ w.kind \in Arrays

\* An array for a plain pointer
IsKindRefinement(env, x, v) ==
  LET to == Whnf(env, x)
      from == Whnf(env, v)
  IN to.k = "ptr" /\ from.k = "ptr" /\ to.kind \in {"unknown", "ref"} /\ from.kind = "array"

\* How far up a scalar type is in the order of implicit conversions; 0 for the
\* types that take no part in it.
Rank(t) ==
  CASE t.k = "bool" -> 1
    [] t.k = "int" -> 2
    [] t.k = "size" -> 3
    [] t.k = "ptrdiff" -> 4
    [] t.k \in {"specint", "specnat"} -> 5
    [] t.k = "slprop" -> 6
    [] OTHER -> 0

\* Of two integer types the wider, of two of one width the unsigned
IntMeet(a, b) ==
  CASE a.width > b.width -> a
    [] b.width > a.width -> b
    [] OTHER -> IntType(a.signed /\ b.signed, a.width)

\* The type both operands of an operator are converted to, if there is one
Meet(env, a, b) ==
  LET x == Whnf(env, a)
      y == Whnf(env, b)
  IN CASE TypeEq(env, a, b) -> a
       [] ~TypeEq(env, a, b) /\ 0 \in {Rank(x), Rank(y)} -> None
       [] OTHER -> CASE Rank(x) > Rank(y) -> a
                     [] Rank(y) > Rank(x) -> b
                     [] x.k = "int" /\ y.k = "int" -> IntMeet(x, y)
                     [] OTHER -> None
-----------------------------------------------------------------------------
\* The types inferred for expressions (Env::infer_expr), and what can be assigned to
\* (Env::is_lvalue)
CONSTANT infer_expr(_, _)

\* The type of a field of a structure or union
MemberType(env, t, a) ==
  CASE t.k = "struct" /\ t.name \in DOMAIN env.structs -> FieldType(env.structs[t.name], a)
    [] t.k = "union" /\ t.name \in DOMAIN env.unions -> FieldType(env.unions[t.name], a)
    [] OTHER -> None

\* A pointer into an array and a number are a pointer into the array; two
\* pointers into arrays are apart by a number.
SumType(env, op, lhs, rhs) ==
  LET l == Whnf(env, lhs)
      r == Whnf(env, rhs)
  IN CASE op = "-" /\ IsArray(env, l) /\ IsArray(env, r) -> PtrdiffT
       [] op = "+" /\ IsArray(env, l) -> Ptr(l.to, "arrayptr")
       [] op = "+" /\ ~IsArray(env, l) /\ IsArray(env, r) -> Ptr(r.to, "arrayptr")
       [] OTHER -> l

infer_bin_op(env, e) ==
  LET lhs == infer_expr(env, e.kids[1])
  IN CASE e.name \in Comparisons -> Bool
       [] e.name \in {"+", "-"} ->
            LET rhs == infer_expr(env, e.kids[2])
            IN IF None \in {lhs, rhs} THEN None ELSE SumType(env, e.name, lhs, rhs)
       [] OTHER -> lhs

Def_infer_expr(env, e) ==
  LET inner == infer_expr(env, e.kids[1])
      whnf == IF inner = None THEN None ELSE Whnf(env, inner)
  IN CASE e.op = "var" -> VarType(env, e.name)
       [] e.op = "deref" -> IF whnf.k = "ptr" THEN whnf.to ELSE None
       [] e.op = "member" -> MemberType(env, whnf, e.name)
       [] e.op = "index" -> IF whnf.k = "ptr" /\ whnf.kind \in Arrays THEN whnf.to ELSE None
       [] e.op = "length" -> SpecInt
       [] e.op \in {"active", "not", "bool_lit"} -> Bool
       [] e.op \in {"int_lit", "cast", "error", "inline"} -> e.ty
       [] e.op = "ref" -> IF inner = None THEN None ELSE Ptr(inner, "ref")
       [] e.op = "call" -> IF e.name \in DOMAIN env.fns THEN env.fns[e.name].ret ELSE None
       [] e.op = "alloc" -> Ptr(e.ty, "ref")
       [] e.op = "alloc_array" -> Ptr(e.ty, "array")
       [] e.op = "free" -> Void
       [] e.op = "live" -> SLProp
       [] e.op \in {"neg", "bit_not", "incr", "old", "quantified"} -> inner
       [] e.op = "bin_op" -> infer_bin_op(env, e)
       [] e.op = "struct_init" -> TypeRef("struct", e.name)
       [] e.op = "union_init" -> TypeRef("union", e.name)
       [] e.op \in {"cond", "assign"} -> infer_expr(env, e.kids[2])

CONSTANT is_lvalue(_, _)
Def_is_lvalue(env, e) ==
  CASE e.op = "var" -> e.name \in DOMAIN env.locals /\ env.locals[e.name].kind = "lvalue"
    [] e.op = "member" -> is_lvalue(env, e.kids[1])
    [] OTHER -> e.op \in {"deref", "index", "error"}
=============================================================================
