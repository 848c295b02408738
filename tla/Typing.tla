------------------------------ MODULE Typing ------------------------------
(***************************************************************************)
(* The passes that give a program its types, in the order of               *)
(* src/src/main.rs, check for names, merge, elab, check for types, and     *)
(* then the emitter, which prints it whatever they reported.  Each goes    *)
(* over the declarations of the unit in order, one step a declaration,     *)
(* with an environment that grows as it goes; merge, whose steps are those *)
(* of the module Merge, is one step.  The pass that rearranges statements  *)
(* has a module of its own (RestructureGoto); the units here leave it      *)
(* nothing to do.                                                          *)
(***************************************************************************)
EXTENDS Elab, Check, Merging, Ownership, FiniteSets

CONSTANTS
  Units,      \* the translation units considered
  MaxDepth    \* how deep their parts are nested

ASSUME UnitsAssumption == MaxDepth \in Nat /\ \A unit \in Units : IsUnit(MaxDepth, unit)

VARIABLES
  original,   \* tu.decls as elab finds it
  decls,      \* tu.decls
  env,        \* the environment of the running pass
  i,          \* the next declaration of the running pass
  diags,      \* <<the pass, the declaration then, what was reported>>
  emitter,    \* the emitter's memory of the predicates of types
  output,     \* the items of the emitted module
  pc          \* the running pass

vars == <<original, decls, env, i, diags, emitter, output, pc>>
-----------------------------------------------------------------------------
Init ==
  /\ original \in Units
  /\ decls = original
  /\ env = NewEnv
  /\ i = 1
  /\ diags = {}
  /\ emitter = NewEmitter
  /\ output = <<>>
  /\ pc = "prune"

Report(pass, reports) == diags \cup {<<pass, i, r>> : r \in reports}

\* check(.., "prune", false)
CheckNamesStep ==
  /\ pc = "prune"
  /\ i <= Len(decls)
  /\ \E step \in {check_next(env, decls[i], FALSE)} :
        /\ env' = step.env
        /\ diags' = Report(pc, step.reports)
  /\ i' = i + 1
  /\ UNCHANGED <<original, decls, emitter, output, pc>>

MergeStep ==
  /\ pc = "merge"
  /\ \E merged \in {merge(decls)} :
        /\ decls' = merged.unit
        /\ original' = merged.unit
        /\ diags' = diags \cup {<<pc, r[1], r[2]>> : r \in merged.reports}
  /\ pc' = "elab"
  /\ UNCHANGED <<env, i, emitter, output>>

\* Mutant: the elaborated declaration is added to the unit.
ElabStepAppends ==
  /\ pc = "elab"
  /\ i <= Len(original)
  /\ \E step \in {elab_next(env, decls[i])} :
        /\ decls' = Append(decls, step.decl)
        /\ env' = step.env
        /\ diags' = Report(pc, step.reports)
  /\ i' = i + 1
  /\ UNCHANGED <<original, emitter, output, pc>>

ElabStep ==
  /\ pc = "elab"
  /\ i <= Len(decls)
  /\ \E step \in {elab_next(env, decls[i])} :
        /\ decls' = [decls EXCEPT ![i] = step.decl]
        /\ env' = step.env
        /\ diags' = Report(pc, step.reports)
  /\ i' = i + 1
  /\ UNCHANGED <<original, emitter, output, pc>>

\* check(.., "elab", true)
CheckTypesStep ==
  /\ pc = "types"
  /\ i <= Len(decls)
  /\ \E step \in {check_next(env, decls[i], TRUE)} :
        /\ env' = step.env
        /\ diags' = Report(pc, step.reports)
  /\ i' = i + 1
  /\ UNCHANGED <<original, decls, emitter, output, pc>>

ReportsIn(items) ==
  {id[3] : id \in {u \in UNION {items[k].text : k \in DOMAIN items} : u[1] = "report"}}

EmitStep ==
  /\ pc = "emit"
  /\ i <= Len(decls)
  /\ \E step \in {emit_next(emitter, env, decls[i])} :
        /\ emitter' = step.em
        /\ output' = output \o step.items
        /\ env' = step.env
        /\ diags' = Report(pc, ReportsIn(step.items))
  /\ i' = i + 1
  /\ UNCHANGED <<original, decls, pc>>

NextPass ==
  /\ pc \notin {"merge", "done"}
  /\ i > Len(decls)
  /\ pc' = CASE pc = "prune" -> "merge" [] pc = "elab" -> "types" [] pc = "types" -> "emit"
              [] pc = "emit" -> "done"
  /\ env' = NewEnv
  /\ i' = 1
  /\ UNCHANGED <<original, decls, diags, emitter, output>>

Next == CheckNamesStep \/ MergeStep \/ ElabStep \/ CheckTypesStep \/ EmitStep \/ NextPass

Spec == Init /\ [][Next]_vars
-----------------------------------------------------------------------------
\* The types and the antiquotations of a statement, and its name
CodeExprs(code) ==
  LET tokens == SelectSeq(code, LAMBDA t : t.token = "expr")
  IN [k \in DOMAIN tokens |-> tokens[k].expr]
ElementsOf(s) == {s[k] : k \in DOMAIN s}
CodeTypes(code) == {code[k].ty : k \in {j \in DOMAIN code : code[j].token # "expr"}}

StmtName(s) ==
  CASE s.op \in {"decl", "stack_array"} -> s.name
    [] s.op \in {"goto", "label", "goto_block"} -> s.label
    [] OTHER -> ""

StmtTypes(s) ==
  CASE s.op \in {"decl", "stack_array"} -> {s.ty}
    [] s.op = "ghost" -> CodeTypes(s.code)
    [] OTHER -> {}

TypesOf(args) == {args[k].ty : k \in DOMAIN args}
DeclTypes(d) ==
  CASE IsFn(d) -> {d.ret} \cup TypesOf(d.args) \cup TypesOf(d.ghosts)
    [] d.op = "let" -> {d.ret} \cup TypesOf(d.args)
    [] d.op \in {"typedef", "global"} -> {d.ty}
    [] d.op \in {"struct_defn", "union_defn"} -> TypesOf(d.fields)
    [] d.op \in {"include", "opaque"} -> CodeTypes(d.code)
    [] OTHER -> {}

Children(s) == UNION {{Blocks(s)[k][j] : j \in DOMAIN Blocks(s)[k]} : k \in DOMAIN Blocks(s)}

CONSTANT StmtsIn(_)
Def_StmtsIn(s) == {s} \cup UNION {StmtsIn(c) : c \in Children(s)}
AllStmts(d) == UNION {StmtsIn(Body(d)[k]) : k \in DOMAIN Body(d)}

SubTypes(t) ==
  CASE t.k = "ptr" -> {t.to}
    [] t.k \in Refinements \cup {"plain"} -> {t.of}
    [] t.k = "refine_value" -> {t.of, t.binding}
    [] OTHER -> {}

CONSTANT TypesIn(_)
Def_TypesIn(t) == {t} \cup UNION {TypesIn(c) : c \in SubTypes(t)}

CONSTANT ExprsIn(_)
Def_ExprsIn(e) ==
  {e} \cup UNION {ExprsIn(e.kids[k]) : k \in DOMAIN e.kids}
      \cup IF e.op # "inline" THEN {}
           ELSE UNION {ExprsIn(CodeExprs(e.code)[k]) : k \in DOMAIN CodeExprs(e.code)}

OwnExprs(d) ==
  ElementsOf(DeclExprs(d)) \cup ElementsOf(CodeExprs(DeclCode(d)))
    \cup UNION {ElementsOf(Exprs(s)) \cup ElementsOf(CodeExprs(StmtCode(s))) : s \in AllStmts(d)}
PredsIn(t) == {u.pred : u \in {v \in TypesIn(t) : v.k \in Refinements \cup {"refine_value"}}}
OwnTypes(d) == DeclTypes(d) \cup UNION {StmtTypes(s) : s \in AllStmts(d)}

AllExprs(d) ==
  UNION {ExprsIn(e) : e \in OwnExprs(d) \cup UNION {PredsIn(t) : t \in OwnTypes(d)}}

\* Every type written in a declaration, those of quantified variables excepted
AllTypes(d) ==
  LET typed == {e \in AllExprs(d) : e.ty # None /\ e.op # "quantified"}
  IN UNION {TypesIn(t) : t \in OwnTypes(d) \cup {e.ty : e \in typed}}
-----------------------------------------------------------------------------
\* An expression of the program and its elaboration: the same, but for casts put
\* around its parts and for attributes that were written as members.
CONSTANT Matches(_, _)
MatchesCode(os, es) ==
  /\ Len(os) = Len(es)
  /\ \A k \in DOMAIN os :
       /\ os[k].token = es[k].token
       /\ os[k].token = "expr" => Matches(os[k].expr, es[k].expr)
       /\ os[k].token = "declare" => os[k].name = es[k].name

Def_Matches(o, e) ==
  LET IsAttribute == /\ o.op = "member"
                     /\ \/ e.op = "length" /\ o.name = "_length" /\ Matches(o.kids[1], e.kids[1])
                        \/ /\ e.op = "active" /\ o.name = "_active"
                           /\ Matches(o.kids[1], Member(e.kids[1], e.name))
      IsSame == /\ o.op = e.op /\ o.name = e.name /\ Len(o.kids) = Len(e.kids)
                /\ \A k \in DOMAIN o.kids : Matches(o.kids[k], e.kids[k])
                /\ o.op = "inline" => MatchesCode(o.code, e.code)
  IN IsAttribute \/ IsSame \/ (e.op = "cast" /\ Matches(o, e.kids[1]))

MatchesAll(os, es) ==
  Len(os) = Len(es) /\ \A k \in DOMAIN os : Matches(os[k], es[k])

\* What C makes of a statement whose right side is an assignment or a conditional,
\* conversions of the right side apart: first the assignment, then the statement
\* with its left side, which has no effects here; one statement or the other.
CONSTANT Uncast(_)
Def_Uncast(e) == IF e.op = "cast" THEN Uncast(e.kids[1]) ELSE e

CONSTANT Lifted(_)
CONSTANT LiftedAll(_)
Def_Lifted(s) ==
  LET value == Uncast(Value(s))
      k == value.kids
      With(e) == Lifted([s EXCEPT !.value = <<e>>])
  IN CASE HasValue(s) /\ value.op = "assign" -> Lifted(Assign(k[1], k[2])) \o With(k[1])
       [] HasValue(s) /\ value.op = "cond" -> <<If(k[1], With(k[2]), With(k[3]))>>
       [] s.op = "if" -> <<If(s.cond, LiftedAll(s.yes), LiftedAll(s.no))>>
       [] s.op \in {"while", "goto_block"} -> <<[s EXCEPT !.body = LiftedAll(@)]>>
       [] OTHER -> <<s>>
Def_LiftedAll(stmts) ==
  IF stmts = <<>> THEN <<>> ELSE Lifted(Head(stmts)) \o LiftedAll(Tail(stmts))

AllLifted(d) == IF d.op = "fn_defn" THEN [d EXCEPT !.body = LiftedAll(@)] ELSE d

CONSTANT SameCode(_, _)
Def_SameCode(os, es) ==
  /\ Len(os) = Len(es)
  /\ \A k \in DOMAIN os :
       /\ os[k].op = es[k].op /\ StmtName(os[k]) = StmtName(es[k])
       /\ MatchesAll(Exprs(os[k]), Exprs(es[k]))
       /\ MatchesCode(StmtCode(os[k]), StmtCode(es[k]))
       /\ \A b \in DOMAIN Blocks(os[k]) : SameCode(Blocks(os[k])[b], Blocks(es[k])[b])

\* The whole pass, and what is left of the types of a program
CONSTANT elab(_, _, _)
Before(step, rest) == Result(<<step.decl>> \o rest.v, step.reports \cup rest.reports)
elab_after(step, unit, k) == Before(step, elab(step.env, unit, k + 1))
Def_elab(inner, unit, k) ==
  IF k > Len(unit) THEN Plainly(<<>>) ELSE elab_after(elab_next(inner, unit[k]), unit, k)

ReportedBy(passes) == \E d \in diags : d[1] \in passes
Elaborated == pc = "done"

\* The unit was printed and nothing reported: c2pulse exits with success.
Accepted == pc = "done" /\ diags = {}
-----------------------------------------------------------------------------
\* The passes but merge keep one entry per declaration, of the same kind and name.
TypeOK ==
  /\ DOMAIN decls = DOMAIN original
  /\ \A k \in DOMAIN decls : decls[k].op = original[k].op
  /\ DOMAIN env = DOMAIN NewEnv
  /\ i \in 1 .. Len(decls) + 1
  /\ \A d \in diags : d[1] \in {"prune", "merge", "elab", "types", "emit"} /\ d[2] \in Nat
  /\ \A k \in DOMAIN output :
       output[k].what \in {"type", "pred", "instance", "aux", "fn", "ghost fn", "let", "include",
                          "nothing"}
  /\ pc \in {"prune", "merge", "elab", "types", "emit", "done"}

\* Reports that two parts of an expression or a statement disagree on a type. An
\* array assigned to a plain pointer is not one of them: elab sees it and leaves
\* it to check to reject (elab.rs:497).
Disagreement ==
  {"expected type", "mismatching types", "needs bool or slprop", "! needs bool",
   "shift amount", "array index"}

\* What elab was content with, check is content with: elab makes the operands of
\* every operator, the arguments of every call and both sides of every assignment
\* agree.  What check says of types is called internal (check.rs:22), an error of
\* the translator; of the program it finds only types that do not fit their use.
ElabSatisfiesCheck ==
  ~ReportedBy({"prune", "elab"}) => ~\E d \in diags : d[3] \in Disagreement

\* Elaborating twice is elaborating once, conditionals inside conditionals apart,
\* of which each time lowers one more.  Contracts of recursive functions are
\* elaborated twice (elab.rs:817), and so is a statement an assignment was lifted
\* out of (elab.rs:764): the casts of the first time must satisfy the second.
ElabIsIdempotent ==
  pc = "done" /\ ~ReportedBy({"elab"}) =>
    \A again \in {elab(NewEnv, decls, 1)} :
       /\ again.reports = {}
       /\ \A k \in DOMAIN decls : AllLifted(again.v[k]) = AllLifted(decls[k])

\* Elaboration neither loses, adds, reorders nor swaps code: but for casts, and
\* for assignments and conditionals that moved as C says, it is the program.
CodeIsKept ==
  Elaborated =>
    \A k \in DOMAIN decls :
      /\ decls[k].op = original[k].op
      /\ MatchesAll(DeclExprs(original[k]), DeclExprs(decls[k]))
      /\ MatchesCode(DeclCode(original[k]), DeclCode(decls[k]))
      /\ SameCode(LiftedAll(Body(original[k])), LiftedAll(Body(decls[k])))

\* In a program that takes no plain pointer for an array, nor an array for one in a
\* call, no pointer is converted: an argument of a recursive function that seemed
\* to be of another kind was cast, which F* rejects (test/recursive_struct.c:8).
PointersAreNotCast ==
  Elaborated =>
    \A k \in DOMAIN decls : \A e \in AllExprs(decls[k]) :
      e.op = "cast" => e.ty.k # "ptr"

\* After elaboration no pointer is left of the kind the front end writes for a
\* kind it does not know: types that differ in nothing else would not be equal.
\* The types of quantified variables are excepted (elab.rs:419 leaves them).
KindsAreSettled ==
  Elaborated =>
    \A k \in DOMAIN decls : \A t \in AllTypes(decls[k]) :
      t.k = "ptr" => t.kind # "unknown"
-----------------------------------------------------------------------------
\* F* reads the module from top to bottom: what an item names, an earlier one
\* defines.  The emitter prints declarations in the order it finds them, each as
\* several items, and only check stands between a program and a name that comes
\* too early.  The text of includes is the user's.
NamesAreDefinedFirst ==
  Accepted =>
    \A final \in {EnvOf(NewEnv, decls)} : \A k \in DOMAIN output :
      output[k].what # "include" =>
        \A id \in output[k].text :
          id \in DefinedBefore(output, k) \/ LeftToTheUser(final, id)

\* A predicate is applied to values of the types its definition has parameters for:
\* the emitter looks these up in tables it fills as it goes (emit.rs:865), one for
\* each of the two predicates of a type.
PredicatesFit ==
  Accepted =>
    \A k \in DOMAIN output : \A c \in ClaimsOf(output[k]) : \A j \in DOMAIN c.props :
      c.props[j].what = "pred" =>
        \A d \in DefinedIn(output, PredId(c.props[j], c.props[j].of)) :
          AppliedTypes(c, c.props[j]) = BinderTypes(output[d].claims)

\* The values bound in one claim have different names: the emitter makes a name of
\* the place the value is at and of the number of values before it (emit.rs:679).
BindersAreDistinct ==
  \A k \in DOMAIN output : \A c \in ClaimsOf(output[k]) :
    \A a, b \in DOMAIN c.binders :
      c.binders[a].name = c.binders[b].name /\ c.binders[a].name[1] = "val" => a = b

\* What a function takes, borrows and gives back, its predicates unfolded, is the
\* memory that the types of its parameters and of its result stand for, each piece
\* as often as they do: none is lost, and none claimed again, on the way through the
\* predicates of types, each printed once, with what the emitter knew at that point
\* (emit.rs:645).  And no two claims of one contract are to the same memory, which
\* would make it one that no caller can meet, or no body.
OwnershipIsThatOfTheTypes ==
  Accepted =>
    \A final \in {EnvOf(NewEnv, decls)} : \A k \in DOMAIN output :
      output[k].what = "fn" =>
        /\ \A j \in DOMAIN output[k].params :
             \A p \in {output[k].params[j]} :
               /\ Memory(output, p.pre) = Takes(final, p)
               /\ Memory(output, p.kept) = Borrows(final, p)
               /\ Memory(output, p.post) = GivesBack(final, p)
        /\ Separate(HeldBefore(output, output[k].params))
        /\ Separate(HeldAfter(output, output[k].params))

\* A function gives back the memory of every parameter it does not consume, be it
\* written or not: what it took to initialise is where it was.
MemoryIsGivenBack ==
  \A k \in DOMAIN output :
    output[k].what = "fn" =>
      \A j \in DOMAIN output[k].params :
        \A p \in {output[k].params[j]} :
          p.mode # "consumed" =>
            Places(Memory(output, p.pre)) \subseteq Places(Memory(output, p.post))
=============================================================================
