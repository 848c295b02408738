------------------------------- MODULE Terms -------------------------------
(***************************************************************************)
(* The types and expressions of the IR (src/src/ir/mod.rs).  A type is a   *)
(* record; its k is its constructor.                                       *)
(***************************************************************************)
EXTENDS Naturals, Sequences, TLC

Put(f, x, v) == [y \in {x} \cup DOMAIN f |-> IF y = x THEN v ELSE f[y]]

Basic(k) == [k |-> k]
Void == Basic("void")
Bool == Basic("bool")
SizeT == Basic("size")
PtrdiffT == Basic("ptrdiff")
SpecInt == Basic("specint")
SpecNat == Basic("specnat")
SLProp == Basic("slprop")
Unknown == Basic("unknown")
ErrorType == Basic("error")
None == Basic("none")              \* no type: an inference that failed
Empty == [x \in {} |-> None]
IntType(signed, width) == [k |-> "int", signed |-> signed, width |-> width]
U32 == IntType(FALSE, 32)
I32 == IntType(TRUE, 32)
Ptr(to, kind) == [k |-> "ptr", to |-> to, kind |-> kind]
TypeRef(k, name) == [k |-> k, name |-> name]  \* k: typedef, struct or union
Refine(k, of, pred) == [k |-> k, of |-> of, pred |-> pred]
RefineValue(of, binder, binding, pred) ==     \* binder: the name, binding: its type
  [k |-> "refine_value", of |-> of, binder |-> binder, binding |-> binding, pred |-> pred]
Plain(of) == [k |-> "plain", of |-> of]

Refinements == {"refine", "refine_always", "refine_uninit"}
PointerKind == {"unknown", "ref", "array", "arrayptr"}
Arrays == {"array", "arrayptr"}
-----------------------------------------------------------------------------
\* An expression has an operator, a name and a type where the operator takes them,
\* and operands; the value of a literal is its name.  Inline Pulse code carries its
\* antiquotations.

Expr(op, name, ty, kids) == [op |-> op, name |-> name, ty |-> ty, kids |-> kids]
Var(x) == Expr("var", x, None, <<>>)
Deref(e) == Expr("deref", "", None, <<e>>)
Member(e, a) == Expr("member", a, None, <<e>>)
Index(e, i) == Expr("index", "", None, <<e, i>>)
Length(e) == Expr("length", "", None, <<e>>)
Active(f, e) == Expr("active", f, None, <<e>>)
BoolLit == Expr("bool_lit", "", None, <<>>)
IntLit(n, ty) == Expr("int_lit", n, ty, <<>>)
Ref(e) == Expr("ref", "", None, <<e>>)
UnOp(op, e) == Expr(op, "", None, <<e>>)          \* op: not, neg or bit_not
BinOp(op, lhs, rhs) == Expr("bin_op", op, None, <<lhs, rhs>>)
FnCall(f, args) == Expr("call", f, None, args)
Cast(e, ty) == Expr("cast", "", ty, <<e>>)
Live(e) == Expr("live", "", None, <<e>>)
Old(e) == Expr("old", "", None, <<e>>)
Quantified(x, ty, e) == Expr("quantified", x, ty, <<e>>)
Alloc(ty) == Expr("alloc", "", ty, <<>>)          \* malloc and calloc
AllocArray(ty, n) == Expr("alloc_array", "", ty, <<n>>)
Free(e) == Expr("free", "", None, <<e>>)
Incr(e) == Expr("incr", "", None, <<e>>)          \* ++ and --, before and after
Cond(c, a, b) == Expr("cond", "", None, <<c, a, b>>)
AssignExpr(lhs, rhs) == Expr("assign", "", None, <<lhs, rhs>>)
ErrorExpr(ty) == Expr("error", "", ty, <<>>)

\* An expression with parts of its own: the names of the fields it initialises,
\* the antiquotations of inline Pulse code
StructInit(s, fields, kids) ==
  [op |-> "struct_init", name |-> s, ty |-> None, kids |-> kids, fields |-> fields]
UnionInit(u, f, e) ==
  [op |-> "union_init", name |-> u, ty |-> None, kids |-> <<e>>, fields |-> <<f>>]
InlinePulse(ty, code) ==
  [op |-> "inline", name |-> "", ty |-> ty, kids |-> <<>>, code |-> code]

\* Antiquotations: of an expression, of a type, of the name of a function that
\* folds or unfolds a type, of the name of a field of a type (which field, does not
\* matter), and a variable declared for those that follow it
Antiquot(e) == [token |-> "expr", expr |-> e]
TypeAntiquot(ty) == [token |-> "type", ty |-> ty]
AuxFn(ty) == [token |-> "aux", ty |-> ty]
FieldName(ty) == [token |-> "field", ty |-> ty]
Declare(x, ty) == [token |-> "declare", name |-> x, ty |-> ty]

Logical == {"&&", "||", "==>"}
Shifts == {"<<", ">>"}
Comparisons == {"==", "<=", "<"}
-----------------------------------------------------------------------------
=============================================================================
