----------------------------- MODULE MCTyping -----------------------------
(***************************************************************************)
(* Units of one header, with a declaration of each kind, and one function  *)
(* whose contract or body varies.  Contracts and assertions mix types, as  *)
(* annotations may; the statements have the conversions clang makes        *)
(* explicit, and those it does not see (size_t and _specint are its own    *)
(* types, a condition is an int).  Then units for the emitter: types that  *)
(* stand for memory, and functions with parameters of them.                *)
(***************************************************************************)
EXTENDS Typing

U8 == IntType(FALSE, 8)
I64 == IntType(TRUE, 64)
Byte == TypeRef("typedef", "byte")
Node == TypeRef("struct", "node")
Num == TypeRef("union", "num")
Star(t) == Ptr(t, "unknown")        \* as the front end writes `t *`

This == Var("this")
Four == IntLit("4", I32)
Zero == IntLit("0", I32)

\* Headers as prune leaves them: what most functions below need, and more
Header ==
  <<Typedef("byte", U8),
    StructDefn("node", <<Arg("data", I32), Arg("next", Star(Node))>>),
    GlobalVar("limit", I32, <<Four>>),
    LetDecl("small", Bool, <<Arg("x", SpecInt)>>, <<>>, <<>>, BinOp("<", Var("x"), Four)),
    FnDecl("put", I64, <<Arg("p", Star(I32)), Arg("v", Byte)>>,
           <<BinOp("==", Deref(Var("p")), Var("v"))>>,
           <<BinOp("==", Var("return"), Old(Deref(Var("p"))))>>)>>

FullHeader ==
  Header \o
  <<StructDecl("later"),
    UnionDefn("num", <<Arg("small", U8), Arg("large", I64)>>),
    OpaqueType("abs", <<TypeAntiquot(Star(Node)), Declare("x", Star(U8)), Antiquot(Deref(Var("x"))),
                        AuxFn(Num), FieldName(Num)>>),
    Typedef("four", Refine("refine_always", Ptr(U32, "array"),
                           BinOp("==", Member(This, "_length"), Four))),
    Typedef("list", Plain(RefineValue(Star(Node), "l", TypeRef("typedef", "abs"),
                                      InlinePulse(Unknown, <<Antiquot(This)>>)))),
    Include(<<Antiquot(FnCall("small", <<Four>>))>>)>>

Args ==
  <<Arg("b", Bool), Arg("n", Byte), Arg("i", I32), Arg("z", SizeT),
    Arg("p", Star(I32)), Arg("q", Ptr(I32, "array")), Arg("s", Star(Node))>>
FullArgs ==
  Args \o <<Arg("w", Star(Num)), Arg("v", TypeRef("typedef", "four")),
            Arg("l", TypeRef("typedef", "list"))>>

F(requires, ensures, body) == FnDefn(FnDecl("f", I64, Args, requires, ensures), body)
Rec(fn) == [fn EXCEPT !.rec = TRUE, !.decreases = <<Cast(Var("z"), SpecInt)>>]

ReturnZero == Return(<<IntLit("0", I64)>>)
-----------------------------------------------------------------------------
\* Annotations
Atoms ==
  {Var("b"), Var("n"), Var("i"), Var("z"), Var("limit"), Four, Deref(Var("p")),
   Index(Var("q"), Var("n")), Member(Deref(Var("s")), "data"), Member(Var("q"), "_length"),
   Cast(Var("i"), SpecInt), Live(Deref(Var("p"))), FnCall("small", <<Var("n")>>)}
Operators == {"==", "<", "&&", "||", "==>", "+", "-", "*", "<<"}

Mixed ==
  {BinOp(op, x, y) : op \in Operators, x \in Atoms, y \in Atoms}
  \cup {UnOp("not", x) : x \in Atoms}
Special ==
  {BinOp("&&", BinOp("<", Zero, Var("n")), BinOp("==", Var("p"), Zero)),
   BinOp("==", Var("l"), Zero), BinOp("==", Deref(Member(Deref(Var("s")), "next")), Var("i")),
   BinOp("+", Var("q"), Var("i")), BinOp("+", Var("n"), Var("v")),
   BinOp("-", BinOp("+", Var("q"), Var("z")), Var("q")),
   Quantified("k", SizeT, BinOp("==>", BinOp("<", Var("k"), Var("z")),
                                BinOp("==", Index(Var("q"), Var("k")), Var("n")))),
   Quantified("k", Bool, Var("k")),
   Quantified("k", Star(I32), BinOp("==", Var("k"), Var("p"))),
   Member(Member(Deref(Var("w")), "large"), "_active"),
   Member(Member(Deref(Var("w")), "huge"), "_active"),
   Member(Deref(Var("s")), "prev"), Member(Var("i"), "data"), Deref(Var("i")),
   InlinePulse(Unknown, <<Antiquot(Var("p"))>>),
   Cond(Var("i"), Var("n"), Var("z")), FnCall("small", <<InlinePulse(Unknown, <<>>)>>),
   UnOp("neg", InlinePulse(Unknown, <<>>)), Var("unknown"), FnCall("unknown", <<>>)}

Asserting(p) == F(<<>>, <<>>, <<AssertStmt(p), ReturnZero>>)
Annotated ==
  {Asserting(p) : p \in Mixed}
  \cup {Rec(F(<<BinOp("==", x, Var("i"))>>, <<BinOp("<", Var("return"), x)>>, <<ReturnZero>>)) : x \in Atoms}
-----------------------------------------------------------------------------
\* Bodies
Values32 ==
  {Var("i"), Zero, Deref(Var("p")), Index(Var("q"), Var("i")), Cast(Var("n"), I32),
   Member(Deref(Var("s")), "data"), BinOp("+", Var("i"), Cast(Var("n"), I32)),
   Cast(FnCall("put", <<Var("p"), Var("n")>>), I32)}

\* Assignments and conditionals of type int, also inside each other
Nested1 == {AssignExpr(x, e) : x \in {Deref(Var("p")), Index(Var("q"), Var("n"))}, e \in Values32}
             \cup {Cond(Var("b"), x, y) : x \in {Var("i"), Zero}, y \in Values32}
             \cup {Cond(BinOp("<", Var("i"), Zero), x, Zero) : x \in Values32}
Nested2 == {AssignExpr(Var("y"), e) : e \in Nested1}
             \cup {Cond(Var("b"), e, Var("i")) : e \in Nested1}
             \cup {Cond(Var("b"), Zero, e) : e \in Nested1}

Int32 == Values32 \cup Nested1 \cup Nested2
Statements ==
  {Assign(Var("x"), e) : e \in Int32}
  \cup {Return(<<Cast(e, I64)>>) : e \in Int32} \cup {Call(e) : e \in Nested1 \cup Nested2}
  \cup {Assign(Deref(Var("p")), e) : e \in Values32}

Locals == <<Decl("x", I32), Decl("y", I32)>>
Plainest == {Locals \o <<s, ReturnZero>> : s \in Statements}

\* Pointers: kinds that declarations learn, null, fields, recursion.  No unit takes
\* a plain pointer for an array or passes an array for a plain pointer: the casts
\* that elab inserts for these F* rejects.
Next_ == Member(Deref(Var("s")), "next")
Pointers ==
  {<<Decl("a", Star(I32)), Assign(Var("a"), AllocArray(I32, Four)),
     Assign(Index(Var("a"), Zero), Var("i")), Call(Free(Var("a"))), ReturnZero>>,
   <<Decl("a", Star(I32)), Assign(Var("i"), Zero), Assign(Var("a"), Alloc(I32)),
     Assign(Deref(Var("a")), Zero), Return(<<FnCall("put", <<Var("a"), Var("n")>>)>>)>>,
   <<Decl("a", Star(I32)), Assign(Var("a"), BinOp("+", Var("q"), Var("i"))), ReturnZero>>,
   <<Decl("a", Star(I32)), Assign(Var("a"), Alloc(I32)), Assign(Var("a"), AllocArray(I32, Four)),
     ReturnZero>>,
   <<Assign(Var("p"), Var("q")), ReturnZero>>,
   <<Decl("t", Star(Node)), Assign(Var("t"), Next_),
     If(Var("t"), <<Call(FnCall("f", <<Var("b"), Var("n"), Var("i"), Var("z"), Var("p"), Var("q"),
                                       Var("t"), Var("w"), Var("v"), Var("l")>>))>>, <<>>),
     ReturnZero>>,
   <<Assign(Next_, IntLit("0", Star(Node))), Assign(Member(Deref(Next_), "data"), Four), ReturnZero>>,
   <<Decl("m", Node), Assign(Var("m"), StructInit("node", <<"data", "next">>, <<Var("i"), Var("s")>>)),
     Assign(Deref(Var("w")), UnionInit("num", "small", Var("n"))), ReturnZero>>,
   <<Call(Incr(Var("i"))), Call(Incr(Index(Var("q"), Var("i")))),
     Return(<<FnCall("put", <<Ref(Index(Var("q"), Var("i"))), Var("n")>>)>>)>>,
   <<Call(Incr(Var("limit"))), Return(<<FnCall("put", <<Ref(Var("limit")), Var("n")>>)>>)>>,
   <<StackArray("a", I32, Four), Assign(Index(Var("a"), Var("n")), ErrorExpr(I32)), ErrorStmt,
     Return(<<>>)>>,
   <<Decl("a", Star(Star(U8))), Break, ReturnZero>>,
   <<Decl("y", I32), GotoBlock("out", <<If(UnOp("not", Var("i")), <<Goto("out")>>, <<>>),
                                        Assign(Var("y"), AssignExpr(Var("i"), Zero))>>,
                               <<BinOp("==", Var("y"), Zero)>>),
     Label("end", <<BoolLit>>), ReturnZero>>,
   <<GhostStmt(<<Declare("g", Star(I32)), Antiquot(BinOp("==", Deref(Var("g")), Var("n"))),
                 TypeAntiquot(Star(Num)), FieldName(Node)>>), ReturnZero>>,
   <<GhostStmt(<<FieldName(Byte)>>), ReturnZero>>}

Loops ==
  {<<Decl("x", I32),
     While(c, <<Live(Deref(Var("p"))), BinOp("<", Var("x"), Var("z"))>>, <<Var("b")>>, <<Var("i")>>,
           <<Assign(Var("x"), e), Break>>), ReturnZero>> :
     c \in {Var("b"), Var("p"), BinOp("<", Var("i"), Zero)}, e \in Nested1}

Full(fn) == Append(FullHeader, [fn EXCEPT !.args = FullArgs])

-----------------------------------------------------------------------------
\* Types for the emitter: their declarations in every order, and functions with
\* parameters of each type in each mode
Cell == TypeRef("struct", "cell")
Tree == TypeRef("struct", "tree")
FourOf(t) == Refine("refine_always", Ptr(t, "array"), BinOp("==", Member(This, "_length"), Four))
AnyOrder ==
  <<Typedef("bytes", Star(U8)),
    Typedef("four", FourOf(U32)),
    StructDefn("cell", <<Arg("at", Star(I32)), Arg("elems", Ptr(I32, "array")),
                         Arg("buf", TypeRef("typedef", "four")), Arg("end", Ptr(I32, "arrayptr"))>>),
    StructDefn("tree", <<Arg("left", Star(Tree)), Arg("right", Star(Star(Tree))),
                         Arg("cell", Star(Cell)), Arg("name", TypeRef("typedef", "bytes"))>>),
    Typedef("forest", RefineValue(Refine("refine", Star(Tree),
                                         BinOp("<", Zero, Deref(Member(Deref(Member(Deref(This), "cell")), "at")))),
                                  "n", SpecInt, InlinePulse(Unknown, <<Antiquot(This)>>)))>>

Orders == {[k \in DOMAIN AnyOrder |-> AnyOrder[p[k]]] : p \in Permutations(DOMAIN AnyOrder)}
MoreTypes ==
  AnyOrder \o
  <<StructDecl("later"), OpaqueType("abs", <<>>),
    UnionDefn("num", <<Arg("small", U8), Arg("large", TypeRef("typedef", "bytes"))>>)>>

EachType ==
  {I32, Star(I32), Star(Star(U32)), Ptr(Cell, "array"), Cell, Star(Tree), Star(Num),
   TypeRef("typedef", "forest"), TypeRef("typedef", "four"), Star(TypeRef("typedef", "bytes")),
   TypeRef("typedef", "abs"), Star(TypeRef("struct", "later")), Plain(Star(Cell)), FourOf(Cell),
   Refine("refine_uninit", Ptr(I32, "array"), BinOp("<", Four, Member(This, "_length"))),
   RefineValue(Ptr(Bool, "array"), "s", SpecInt, BinOp("==", Member(This, "_length"), Four))}
Modes == {"regular", "consumed", "const", "out"}
Of(x, ty, mode) == [Arg(x, ty) EXCEPT !.mode = mode]

Proto(args) == FnDecl("f", Void, args, <<>>, <<>>)
All4(ty) == <<Of("a", ty, "regular"), Of("b", ty, "const"), Of("c", ty, "consumed"), Of("d", ty, "out")>>
Mixed4(m) ==
  <<Of("a", TypeRef("typedef", "forest"), m), Of("b", Cell, m), Of("c", Star(Tree), m),
    Of("d", TypeRef("typedef", "four"), m)>>

\* Functions that are not Pulse functions, and the ways they can be wrong
PureFn(args, body) == [FnDefn(FnDecl("g", I32, args, <<>>, <<>>), body) EXCEPT !.pure = TRUE]
ReturnOf(e) == Return(<<e>>)
PureFns ==
  {PureFn(<<Arg("a", I32)>>, body) : body \in
     {<<ReturnOf(Var("a"))>>,
      <<If(BinOp("<", Var("a"), Zero), <<ReturnOf(Zero)>>, <<>>), ReturnOf(Var("a"))>>,
      <<If(BinOp("<", Var("a"), Zero), <<>>, <<>>), ReturnOf(Var("a"))>>,
      <<Decl("x", I32), Assign(Var("x"), Four), ReturnOf(Var("x"))>>,
      <<Decl("x", I32), ReturnOf(Var("a"))>>,
      <<GhostStmt(<<Declare("h", I32), Antiquot(Var("h"))>>), ReturnOf(Var("a"))>>,
      <<While(BoolLit, <<>>, <<>>, <<>>, <<>>), ReturnOf(Var("a"))>>, <<>>}}
  \cup {PureFn(<<Arg("a", Star(I32))>>, <<ReturnOf(Zero)>>),
         [PureFn(<<Arg("a", I32)>>, <<ReturnOf(FnCall("g", <<Var("a")>>))>>) EXCEPT !.rec = TRUE,
            !.decreases = <<Var("a")>>, !.ghosts = <<Arg("h", SpecInt)>>,
            !.requires = <<BinOp("<", Var("a"), Var("h"))>>]}
SelfCall == FnDefn(Proto(<<Arg("a", I32)>>), <<Call(FnCall("f", <<Var("a")>>))>>)
Others ==
  {SelfCall, [SelfCall EXCEPT !.rec = TRUE], [SelfCall EXCEPT !.ghosts = <<Arg("h", Star(I32))>>]}
  \cup {GlobalVar("v", t, <<>>) : t \in {I32, Cell, TypeRef("typedef", "bytes"), Num, SpecInt}}
  \cup {[GlobalVar("v", I32, <<Zero>>) EXCEPT !.pure = FALSE],
         GlobalVar("v", I32, <<Var("v")>>)}
  \cup {[LetDecl("f", I32, All4(ty), <<>>, <<>>, Zero) EXCEPT !.impure = b] : b \in BOOLEAN,
           ty \in {Star(Cell), I32}}
  \cup {LetDecl("f", SLProp, <<Arg("x", SpecInt)>>, <<BinOp("<", Zero, Var("x"))>>, <<>>,
                 BinOp("==", Var("x"), Four))}

Emitted ==
  {Append(o, Proto(Mixed4(m))) : o \in Orders, m \in Modes}
  \cup {Append(MoreTypes, Proto(All4(ty))) : ty \in EachType}
  \cup {Append(MoreTypes, [Proto(<<>>) EXCEPT !.ret = ty]) : ty \in EachType}
  \cup {Append(MoreTypes, d) : d \in PureFns \cup Others}

-----------------------------------------------------------------------------
\* Units for merge: a function declared and then defined, with contracts and
\* parameters that differ in every way, a caller before or after its definition,
\* and a structure declared, used and then defined
Named(a, b) == <<Arg("p", Star(I32)), Arg(a, Byte), Arg(b, I32)>>
Positive(x) == BinOp("<", Zero, Var(x))
Protos ==
  {FnDecl("h", I32, args, req, <<>>) :
     args \in {Named("n", "i"), Named("i", "n"),
              <<Arg("p", Refine("refine", Star(I32), BinOp("<", Zero, Deref(This)))), Arg("n", U8), Arg("i", I32)>>},
     req \in {<<>>, <<Positive("n")>>}}
ArrayProto == FnDecl("h", I32, <<Arg("p", Ptr(I32, "array")), Arg("n", U8), Arg("i", I32)>>, <<>>, <<>>)
Defns ==
  {FnDefn(FnDecl("h", I32, args, req, <<>>), <<Return(<<Var("i")>>)>>) :
     args \in {Named("n", "i"), Named("m", "i")}, req \in {<<>>, <<Positive("i")>>}}
Caller == FnDefn(FnDecl("c", I32, Named("n", "i"), <<>>, <<>>),
                 <<Return(<<FnCall("h", <<Var("p"), Var("n"), Var("i")>>)>>)>>)
Late == StructDefn("late", <<Arg("data", I32)>>)
UsesLate == FnDecl("u", Void, <<Arg("s", Star(TypeRef("struct", "late")))>>, <<>>, <<>>)

Repeated ==
  {Header \o <<proto, Caller, defn>> : proto \in Protos, defn \in Defns}
  \cup {Header \o <<proto, defn, Caller>> : proto \in Protos \cup {ArrayProto}, defn \in Defns}
  \cup {Header \o <<proto, defn, Caller, again>> : proto \in Protos, again \in Protos, defn \in Defns}
  \cup {<<StructDecl("late"), UsesLate, Late>>, <<StructDecl("late"), Late, UsesLate>>,
         <<StructDecl("late"), StructDecl("late"), UsesLate>>}

MCUnits ==
  {Append(Header, fn) : fn \in Annotated \cup {F(<<>>, <<>>, body) : body \in Plainest \cup Loops}}
  \cup {Full(Asserting(p)) : p \in Special}
  \cup {Full(F(<<>>, <<>>, body)) : body \in Pointers}
  \cup {Full(Rec(F(<<>>, <<>>, body))) : body \in Pointers}
  \cup Emitted \cup Repeated
-----------------------------------------------------------------------------
\* The recursive functions: each parameter of the modules is given the definition
\* that calls it.  (The LET keeps TLC, when it counts what it evaluates, from
\* following the definitions into each other for ever.)
MCIsType(n, t) == LET value == Def_IsType(n, t) IN value
MCIsExpr(n, e) == LET value == Def_IsExpr(n, e) IN value
MCIsStmts(n, stmts) == LET value == Def_IsStmts(n, stmts) IN value
MCPushArgs(inner, args, kind) == LET value == Def_PushArgs(inner, args, kind) IN value
MCWhnf(inner, t) == LET value == Def_Whnf(inner, t) IN value
MCTypeEq(inner, a, b) == LET value == Def_TypeEq(inner, a, b) IN value
MCinfer_expr(inner, e) == LET value == Def_infer_expr(inner, e) IN value
MCis_lvalue(inner, e) == LET value == Def_is_lvalue(inner, e) IN value
MCElaborate(what, inner, x, expected) == LET value == Def_Elaborate(what, inner, x, expected) IN value
MCelab_from(inner, stmts, k) == LET value == Def_elab_from(inner, stmts, k) IN value
MCelab_args(inner, args) == LET value == Def_elab_args(inner, args) IN value
MCVisit(what, inner, x, typed) == LET value == Def_Visit(what, inner, x, typed) IN value
MCcheck_args(inner, args, typed) == LET value == Def_check_args(inner, args, typed) IN value
MCemit_type(t) == LET value == Def_emit_type(t) IN value
MCemit_type_default(t) == LET value == Def_emit_type_default(t) IN value
MCText(what, inner, x) == LET value == Def_Text(what, inner, x) IN value
MCextract_base_ident(e) == LET value == Def_extract_base_ident(e) IN value
MCsubst_this(e, this) == LET value == Def_subst_this(e, this) IN value
MCemit_type_slprop(em, t, v, c, this) == LET value == Def_emit_type_slprop(em, t, v, c, this) IN value
MCFieldsSlprop(em, fields, v, c) == LET value == Def_FieldsSlprop(em, fields, v, c) IN value
MCcheck_pure_type(t) == LET value == Def_check_pure_type(t) IN value
MCPushStmts(inner, stmts) == LET value == Def_PushStmts(inner, stmts) IN value
MCemit_pure_body(inner, stmts) == LET value == Def_emit_pure_body(inner, stmts) IN value
MCUnfolded(items, p) == LET value == Def_Unfolded(items, p) IN value
MCOwned(inner, open, t, v, e) == LET value == Def_Owned(inner, open, t, v, e) IN value
MCEnvOf(inner, unit) == LET value == Def_EnvOf(inner, unit) IN value
MCWithout(unit, merged, k) == LET value == Def_Without(unit, merged, k) IN value
MCStmtsIn(s) == LET value == Def_StmtsIn(s) IN value
MCTypesIn(t) == LET value == Def_TypesIn(t) IN value
MCExprsIn(e) == LET value == Def_ExprsIn(e) IN value
MCMatches(o, e) == LET value == Def_Matches(o, e) IN value
MCUncast(e) == LET value == Def_Uncast(e) IN value
MCLifted(s) == LET value == Def_Lifted(s) IN value
MCLiftedAll(stmts) == LET value == Def_LiftedAll(stmts) IN value
MCSameCode(os, es) == LET value == Def_SameCode(os, es) IN value
MCelab(inner, unit, k) == LET value == Def_elab(inner, unit, k) IN value
=============================================================================
