------------------------------ MODULE Emission ------------------------------
(***************************************************************************)
(* How the emitter prints declarations (src/src/pass/emit.rs): as items of *)
(* an F* module, in order, each with the identifiers it defines and its    *)
(* text.  Of a type, what matters is the memory it stands for: a pointer   *)
(* claims what it points to, a named type its predicate, which takes as    *)
(* many values as the emitter remembers of the definition.                 *)
(***************************************************************************)
EXTENDS EmitCode

\* The emitter's memory: the types of the values that the predicates of a named type
\* take, for memory that is initialised and memory that is not, and the structure
\* whose predicate is being printed.
NewEmitter == [vals |-> Empty, uninit_vals |-> Empty, defining |-> "none"]

\* Memory is claimed initialised, with a permission, or uninitialised.
Initialised(perm) == [init |-> TRUE, perm |-> perm]
Uninitialised == [init |-> FALSE, perm |-> "1.0R"]

PredId(v, t) == Id(IF v.init THEN "pred" ELSE "uninit_pred", t.k, t.name)
Binder(x, ty) == [name |-> x, ty |-> ty]
Prop(what, v, of, at, vals) ==
  [what |-> what, init |-> v.init, perm |-> v.perm, of |-> of, at |-> at, vals |-> vals]

\* Propositions, and the values they bind
NoClaims == [binders |-> <<>>, props |-> <<>>]
Claim(c, binders, props) ==
  [binders |-> c.binders \o binders, props |-> c.props \o props]

\* wrap_exists: the types of the values, and the propositions
BinderText(t) == CASE t.k = "seq" -> emit_type(t.of) [] t.k = "mask" -> {} [] OTHER -> emit_type(t)
PropId(p) == IF p.what = "pred" THEN {PredId(p, p.of)} ELSE {}
wrap_exists(env, c) ==
  UNION {BinderText(c.binders[i].ty) : i \in DOMAIN c.binders}
    \cup UNION {PropId(c.props[i]) : i \in DOMAIN c.props}
    \cup emit_rvalues(env, [i \in DOMAIN c.props |-> c.props[i].at])

ValParams(em, v, t) ==
  LET table == IF v.init THEN em.vals ELSE em.uninit_vals
  IN IF TypeId(t) \in DOMAIN table THEN table[TypeId(t)] ELSE <<>>

\* Mutant: both predicates of a type take what the uninitialised one does.
RegisterLast(em, v, t, tys) ==
  [em EXCEPT !.vals = Put(@, TypeId(t), tys), !.uninit_vals = Put(@, TypeId(t), tys)]

Register(em, v, t, tys) ==
  IF v.init THEN [em EXCEPT !.vals = Put(@, TypeId(t), tys)]
  ELSE [em EXCEPT !.uninit_vals = Put(@, TypeId(t), tys)]

CONSTANT extract_base_ident(_)
Def_extract_base_ident(e) ==
  CASE e.op = "var" -> e.name
    [] e.op = "deref" -> extract_base_ident(e.kids[1])
    [] e.op = "member" -> e.name
    [] OTHER -> "v"

\* A fresh value name: the base and the number of values bound before it
ValName(this, n) == <<"val", extract_base_ident(this), n>>

CONSTANT subst_this(_, _)
Def_subst_this(e, this) ==
  LET Token(t) == IF t.token = "expr" THEN [t EXCEPT !.expr = subst_this(@, this)] ELSE t
      kids == [i \in DOMAIN e.kids |-> subst_this(e.kids[i], this)]
  IN CASE e.op = "var" -> IF e.name = "this" THEN this ELSE e
       [] e.op = "inline" -> [e EXCEPT !.code = [i \in DOMAIN e.code |-> Token(e.code[i])]]
       [] OTHER -> [e EXCEPT !.kids = kids]
-----------------------------------------------------------------------------
CONSTANT emit_type_slprop(_, _, _, _, _)

\* A pointer to the structure being defined does not claim the structure: its user
\* writes a recursive predicate.
RefSlprop(em, t, v, c, this) ==
  LET val == ValName(this, Len(c.binders))
      held == Claim(c, <<Binder(val, t.to)>>, <<Prop("pts_to", v, None, this, <<val>>)>>)
  IN IF ~v.init THEN Claim(c, <<>>, <<Prop("pts_to_uninit", v, None, this, <<>>)>>)
     ELSE IF t.to.k = "struct" /\ t.to.name = em.defining THEN held
     ELSE emit_type_slprop(em, t.to, v, held, Deref(this))

\* Mutant: the mask is named before the value is bound.
ArraySlpropTogether(t, v, c, this) ==
  LET val == ValName(this, Len(c.binders))
      mask == ValName(this, Len(c.binders))
  IN Claim(c, <<Binder(val, [k |-> "seq", of |-> t.to]), Binder(mask, Basic("mask"))>>,
           <<Prop(IF v.init THEN "array_pts_to" ELSE "array_pts_to_uninit", v, None, this,
                  <<val, mask>>)>>)

ArraySlprop(t, v, c, this) ==
  LET val == ValName(this, Len(c.binders))
      mask == ValName(this, Len(c.binders) + 1)
  IN Claim(c, <<Binder(val, [k |-> "seq", of |-> t.to]), Binder(mask, Basic("mask"))>>,
           <<Prop(IF v.init THEN "array_pts_to" ELSE "array_pts_to_uninit", v, None, this,
                  <<val, mask>>)>>)

NamedSlprop(em, t, v, c, this) ==
  LET tys == ValParams(em, v, t)
      vals == [i \in DOMAIN tys |-> ValName(this, Len(c.binders) + i - 1)]
  IN Claim(c, [i \in DOMAIN tys |-> Binder(vals[i], tys[i])],
           <<Prop("pred", v, t, this, vals)>>)

Refining(c, binders, pred, this) ==
  Claim(c, binders, <<Prop("refined", Uninitialised, None, subst_this(pred, this), <<>>)>>)

\* When the predicate of a refinement is stated
States(t, v) ==
  CASE t.k \in {"refine", "refine_value"} -> v.init
    [] t.k = "refine_always" -> TRUE
    [] t.k = "refine_uninit" -> ~v.init

RefinedSlprop(t, v, c, this) ==
  IF ~States(t, v) THEN c
  ELSE IF t.k = "refine_value"
  THEN Refining(c, <<Binder(<<"binder", t.binder>>, t.binding)>>, t.pred, this)
  ELSE Refining(c, <<>>, t.pred, this)

\* Scalars, plain types and pointers into arrays claim nothing.
Def_emit_type_slprop(em, t, v, c, this) ==
  CASE t.k = "ptr" /\ t.kind \in {"ref", "unknown"} -> RefSlprop(em, t, v, c, this)
    [] t.k = "ptr" /\ t.kind = "array" -> ArraySlprop(t, v, c, this)
    [] t.k \in NamedTypes -> NamedSlprop(em, t, v, c, this)
    [] t.k \in Refinements \cup {"refine_value"} ->
         RefinedSlprop(t, v, emit_type_slprop(em, t.of, v, c, this), this)
    [] OTHER -> c

CONSTANT FieldsSlprop(_, _, _, _)

\* Mutant: what a field adds is taken for all that is claimed so far, and added to it.
FieldsClaimAgain(em, fields, v, c) ==
  LET claimed == emit_type_slprop(em, Head(fields).ty, v, c, Member(Var("this"), Head(fields).name))
  IN IF fields = <<>> THEN c
     ELSE FieldsSlprop(em, Tail(fields), v, [claimed EXCEPT !.props = c.props \o @])

Def_FieldsSlprop(em, fields, v, c) ==
  IF fields = <<>> THEN c
  ELSE FieldsSlprop(em, Tail(fields), v,
                    emit_type_slprop(em, Head(fields).ty, v, c,
                                     Member(Var("this"), Head(fields).name)))
-----------------------------------------------------------------------------
\* Items of the module: a predicate has its claims, a function its parameters.
Item(what, defines, text) ==
  [what |-> what, defines |-> defines, text |-> text, claims |-> NoClaims, params |-> <<>>]
\* An item that may use what it defines
Inductive(what, defines, text) == Item(what, defines, text \ defines)
Printed(em, items) == [em |-> em, items |-> items]

PredItem(v, t, c, text) ==
  [Item("pred", {PredId(v, t)}, {TypeId(t)} \cup text) EXCEPT !.claims = c]
NoPredItem(v, t) == PredItem(v, t, NoClaims, {})

BinderTypes(c) == [i \in DOMAIN c.binders |-> c.binders[i].ty]
emit_pred_decl(em, env, v, t, c) ==
  Printed(Register(em, v, t, BinderTypes(c)), <<PredItem(v, t, c, wrap_exists(env, c))>>)

\* What a value of the type that a declaration defines claims
DefinedSlprop(em, d, v) ==
  IF d.op = "typedef" THEN emit_type_slprop(em, d.ty, v, NoClaims, Var("this"))
  ELSE FieldsSlprop(em, d.fields, v, NoClaims)

emit_def_pred(em, env, t, d, v) == emit_pred_decl(em, env, v, t, DefinedSlprop(em, d, v))

\* First the predicate for initialised memory, then the other
Together(first, second) == Printed(second.em, first.items \o second.items)
AndUninit(first, env, t, d) ==
  Together(first, emit_def_pred(first.em, env, t, d, Uninitialised))
BothPreds(em, env, t, d) ==
  AndUninit(emit_def_pred(em, env, t, d, Initialised("p")), env, t, d)

Around(before, preds, after) == Printed(preds.em, before \o preds.items \o after)

emit_typedef(em, env, d) ==
  LET t == TypeRef("typedef", d.name)
      inner == PushThis(PushDecl(env, d), t)
  IN Around(<<Item("type", {TypeId(t)}, emit_type(d.ty))>>,
            BothPreds(em, inner, t, d),
            <<Item("instance", {DefaultId(t)}, {TypeId(t)} \cup emit_type_default(d.ty))>>)

emit_struct_decl(em, d) ==
  LET t == TypeRef("struct", d.name)
  IN Printed(em, <<Item("type", {TypeId(t)}, {}), NoPredItem(Initialised("p"), t),
                   NoPredItem(Uninitialised, t)>>)

FieldTypes(fields) == UNION {emit_type(fields[i].ty) : i \in DOMAIN fields}
FieldDefaults(fields) == UNION {emit_type_default(fields[i].ty) : i \in DOMAIN fields}

\* Ghost and atomic projections, and the functions that fold and unfold a value: what
\* they say of memory is about one value of the type, never about others.
AuxItem(t, fields) ==
  Item("aux", {AuxId(t)}, {TypeId(t), FieldsId(t.k, t.name)} \cup FieldTypes(fields))

\* The type with its fields; the predicates; the functions on it; the default.
StructItems(em, env, d) ==
  LET t == TypeRef("struct", d.name)
      fields == FieldsId("struct", d.name)
      inner == PushThis(PushStruct(env, d), t)
  IN Around(<<Inductive("type", {TypeId(t), fields}, FieldTypes(d.fields))>>,
            BothPreds(em, inner, t, d),
            <<AuxItem(t, d.fields),
              Item("instance", {DefaultId(t)}, {TypeId(t), fields} \cup FieldDefaults(d.fields))>>)

Closed(open) == Printed([open.em EXCEPT !.defining = "none"], open.items)
emit_structdefn(em, env, d) == Closed(StructItems([em EXCEPT !.defining = d.name], env, d))

\* A union claims nothing; its default is that of its first member.
emit_uniondefn(em, d) ==
  LET t == TypeRef("union", d.name)
      fields == FieldsId("union", d.name)
      default == Item("instance", {DefaultId(t)},
                      {TypeId(t), fields} \cup FieldDefaults(SubSeq(d.fields, 1, 1)))
  IN Printed(Register(Register(em, Initialised("p"), t, <<>>), Uninitialised, t, <<>>),
       <<Inductive("type", {TypeId(t), fields}, FieldTypes(d.fields)),
         NoPredItem(Initialised("p"), t), NoPredItem(Uninitialised, t),
         AuxItem(t, d.fields)>>
         \o IF d.fields = <<>> THEN <<>> ELSE <<default>>)
-----------------------------------------------------------------------------
\* A parameter, or the result, of a function: what its type claims before the call
\* and after it, and what it claims of memory that is only lent.
EmitParam(arg, pre, kept, post) ==
  [name |-> arg.name, ty |-> arg.ty, mode |-> arg.mode, pre |-> pre, kept |-> kept,
   post |-> post]

\* Mutant: memory to be initialised is not given back.
OutKeepsMemory(arg, owned, lent, uninit) ==
  CASE arg.mode = "regular" -> EmitParam(arg, owned, NoClaims, owned)
    [] arg.mode = "const" -> EmitParam(arg, NoClaims, lent, NoClaims)
    [] arg.mode = "consumed" -> EmitParam(arg, owned, NoClaims, NoClaims)
    [] arg.mode = "out" -> EmitParam(arg, uninit, NoClaims, NoClaims)

WithMode(arg, owned, lent, uninit) ==
  CASE arg.mode = "regular" -> EmitParam(arg, owned, NoClaims, owned)
    [] arg.mode = "const" -> EmitParam(arg, NoClaims, lent, NoClaims)
    [] arg.mode = "consumed" -> EmitParam(arg, owned, NoClaims, NoClaims)
    [] arg.mode = "out" -> EmitParam(arg, uninit, NoClaims, owned)

emit_arg(em, arg) ==
  LET Held(v) == emit_type_slprop(em, arg.ty, v, NoClaims, Var(arg.name))
  IN WithMode(arg, Held(Initialised("1.0R")), Held(Initialised("'p")), Held(Uninitialised))

emit_args(em, args) == [i \in DOMAIN args |-> emit_arg(em, args[i])]

ParamsText(env, params) ==
  UNION {emit_type(params[i].ty)
           \cup UNION {wrap_exists(env, c) : c \in {params[i].pre, params[i].kept, params[i].post}} :
         i \in DOMAIN params}

ParamTypes(args) == UNION {emit_type(args[i].ty) : i \in DOMAIN args}

Signature(f, params, text) ==
  [Item("fn", {FnId(f)}, text) EXCEPT !.params = params]

SignatureOf(fn, params, argEnv, retEnv) ==
  Signature(fn.name, params,
    ParamTypes(fn.ghosts) \cup ParamsText(retEnv, params) \cup emit_rvalues(argEnv, fn.requires)
      \cup emit_rvalues(retEnv, fn.ensures \o fn.decreases))

emit_ret(em, fn) ==
  EmitParam([name |-> "return", ty |-> fn.ret, mode |-> "returned"], NoClaims, NoClaims,
    emit_type_slprop(em, fn.ret, Initialised("1.0R"), NoClaims, Var("return")))

ArgEnv(env, fn) == PushArgs(PushArgs(env, fn.ghosts, "rvalue"), fn.args, "rvalue")
RetEnv(env, fn) == PushReturn(ArgEnv(env, fn), fn.ret)

emit_fn_sig(em, env, fn) ==
  SignatureOf(fn, Append(emit_args(em, fn.args), emit_ret(em, fn)), ArgEnv(env, fn),
              RetEnv(env, fn))

\* Only a recursive definition may use its own name.
Defining(rec, item) == IF rec THEN [item EXCEPT !.text = @ \ item.defines] ELSE item
-----------------------------------------------------------------------------
emit_pure_prop(env, e) ==
  emit_rvalue(env, IF e.op = "cast" /\ e.ty = SLProp THEN e.kids[1] ELSE e)
emit_pure_props(env, es) == UNION {emit_pure_prop(env, es[i]) : i \in DOMAIN es}

CONSTANT check_pure_type(_)
Def_check_pure_type(t) ==
  CASE t.k = "ptr" -> Refused("pointer parameters are not supported in pure functions")
    [] t.k \in Refinements \cup {"refine_value", "plain"} -> check_pure_type(t.of)
    [] OTHER -> {}

CONSTANT PushStmts(_, _)
Def_PushStmts(env, stmts) ==
  IF stmts = <<>> THEN env ELSE PushStmts(PushStmt(env, Head(stmts)), Tail(stmts))

\* The body of a pure function: declarations with their assignment become `let`, and
\* what follows a conditional is copied into both of its branches.
CONSTANT emit_pure_body(_, _)
Def_emit_pure_body(env, stmts) ==
  LET s == Head(stmts)
      rest == Tail(stmts)
      Branch(b) == emit_pure_body(PushStmts(env, b), b \o rest)
      IsLet == /\ Len(stmts) >= 3
               /\ stmts[2].op = "assign"
               /\ stmts[2].target = Var(s.name)
      LetBody(inner) == emit_type(s.ty) \cup emit_rvalue(inner, Value(stmts[2]))
                          \cup emit_pure_body(inner, Tail(rest))
  IN CASE stmts = <<>> -> {}
       [] s.op = "return" /\ rest = <<>> -> emit_rvalues(env, s.value)
       [] s.op = "if" -> emit_rvalue(env, s.cond) \cup Branch(s.yes) \cup Branch(s.no)
       [] s.op = "ghost" ->
            emit_inline_pulse_tokens(env, s.code)
              \cup emit_pure_body(PushArgs(env, SelectSeq(s.code, LAMBDA t : t.token = "declare"),
                                           "rvalue"), rest)
       [] s.op = "decl" ->
            IF IsLet THEN LetBody(PushVar(env, s.name, s.ty, "rvalue"))
            ELSE Refused("unsupported declaration without assignment in pure function")
       [] OTHER -> Refused("unsupported statement in pure function")

PureFnItem(fn, argEnv, retEnv) ==
  LET HasContract == fn.requires \o fn.ensures # <<>> \/ fn.rec
  IN Item("let", {FnId(fn.name)},
       ParamTypes(fn.ghosts \o fn.args) \cup emit_type(fn.ret)
         \cup UNION {check_pure_type(fn.args[i].ty) : i \in DOMAIN fn.args}
         \cup emit_pure_props(argEnv, fn.requires) \cup emit_pure_props(retEnv, fn.ensures)
         \cup (IF HasContract THEN emit_rvalues(retEnv, fn.decreases) ELSE {})
         \cup emit_pure_body(retEnv, fn.body))
emit_pure_fn(env, fn) == Defining(fn.rec, PureFnItem(fn, ArgEnv(env, fn), RetEnv(env, fn)))

WithBody(sig, body) == [sig EXCEPT !.text = @ \cup body]
emit_fn_defn(em, env, fn) ==
  IF fn.pure THEN emit_pure_fn(env, fn)
  ELSE Defining(fn.rec, WithBody(emit_fn_sig(em, env, fn),
                                 emit_stmts(PushFnBody(env, fn), fn.body)))

\* Everything but memory that is lent is held before; what comes after is not said.
TakesAll(args) ==
  [i \in DOMAIN args |->
     IF args[i].mode = "const" THEN args[i] ELSE [args[i] EXCEPT !.mode = "consumed"]]

LetEnv(env, let) == PushReturn(PushArgs(env, let.args, "rvalue"), let.ret)

GhostFn(let, inner, params) ==
  [Signature(let.name, params,
     ParamsText(inner, params) \cup emit_type(let.ret) \cup emit_rvalue(inner, let.body))
     EXCEPT !.what = "ghost fn"]
emit_letimpure_decl(em, env, let) == GhostFn(let, LetEnv(env, let), emit_args(em, TakesAll(let.args)))

emit_let_decl(em, env, let) ==
  LET body == IF let.ret = SLProp THEN emit_pure_prop(LetEnv(env, let), let.body)
              ELSE emit_rvalue(LetEnv(env, let), let.body)
      props == emit_pure_props(LetEnv(env, let), let.requires \o let.ensures)
  IN IF let.impure THEN emit_letimpure_decl(em, env, let)
     ELSE Item("let", {FnId(let.name)},
               ParamTypes(let.args) \cup emit_type(let.ret) \cup body \cup props)

\* A global that is not pure is reported, and nothing printed.
emit_global_var(env, g) ==
  IF ~g.pure THEN Item("nothing", {}, Refused("non-pure global variables are not yet supported"))
  ELSE Item("let", {GlobalId(g.name)},
            emit_type(g.ty) \cup IF g.init = <<>> THEN emit_type_default(g.ty)
                                 ELSE emit_rvalues(env, g.init))

emit_decl(em, env, d) ==
  CASE d.op = "typedef" -> emit_typedef(em, env, d)
    [] d.op = "struct_defn" -> emit_structdefn(em, env, d)
    [] d.op = "struct_decl" -> emit_struct_decl(em, d)
    [] d.op = "union_defn" -> emit_uniondefn(em, d)
    [] d.op = "fn_defn" -> Printed(em, <<emit_fn_defn(em, env, d)>>)
    [] d.op = "fn_decl" -> Printed(em, <<emit_fn_sig(em, env, d)>>)
    [] d.op = "include" ->
         Printed(em, <<Item("include", {}, emit_inline_pulse_tokens(env, d.code))>>)
    [] d.op = "let" -> Printed(em, <<emit_let_decl(em, env, d)>>)
    [] d.op = "opaque" ->
         Printed(em, <<Item("type", {TypeId(TypeRef("typedef", d.name))},
                            emit_inline_pulse_tokens(env, d.code))>>)
    [] d.op = "global" -> Printed(em, <<emit_global_var(env, d)>>)

\* One turn of the loop over the declarations
Pushed(early, d, printed) ==
  [em |-> printed.em, items |-> printed.items, env |-> PushDecl(early, d)]
emit_next(em, env, d) ==
  LET early == IF d.op = "fn_defn" /\ d.rec THEN PushFn(env, d) ELSE env
  IN Pushed(early, d, emit_decl(em, early, d))
=============================================================================
