------------------------------ MODULE FrontEnd ------------------------------
(***************************************************************************)
(* Declarations and their annotations on the way from Clang to the IR      *)
(* (HandleDecl in src/cpp/impl.cpp; Ctx, DeclBuilder and the mk_type_      *)
(* functions in src/src/clang.rs).  Clang expands the macros of a          *)
(* declaration as it reads it, and hands it over once it knows where it    *)
(* ends: it can be some tokens into the next one by then.  The bodies of   *)
(* functions and the C types are translated elsewhere: here a parameter    *)
(* has its translated type, and a body is only there or not.               *)
(*                                                                         *)
(* How the text of an annotation reaches the translator: the macros of     *)
(* pal.h (src/examples/pal.h) and the MacroTracker that watches Clang      *)
(* expand them (src/cpp/impl.cpp).  The tracker stores the arguments of    *)
(* every function-like macro under the value of __COUNTER__ at that        *)
(* moment; __capture_args expands to __COUNTER__ right after its own       *)
(* arguments were stored, and so names them.  An argument is expanded      *)
(* before it is put into the body of its macro: captures inside it come    *)
(* first.                                                                  *)
(***************************************************************************)
EXTENDS Grammar

\* The snippets by number, and the value of __COUNTER__
NewTracker == [counter |-> 0, snippets |-> <<>>]

MacroExpands(st, args) == [st EXCEPT !.snippets = Put(@, st.counter, args)]
Counted(st) == [st EXCEPT !.counter = @ + 1]

\* __capture_args(args)
capture_args(st, args) == Counted(MacroExpands(st, args))

\* Every annotation on a declaration of its own ends in an anchor, whose name
\* two more macros make out of __COUNTER__: __pal_concat, __pal_concat_ind.
Anchor(st) == MacroExpands(Counted(MacroExpands(st, <<>>)), <<>>)

\* Tokens written in pal.h, and the number that __COUNTER__ was
InHeader(spaced, text) == CodeToken(spaced, <<text>>, Original(Location("pal.h", 0, 1)))
Number(n) == CodeToken(FALSE, <<ToString(n)>>, Original(Location("scratch", 0, 1)))
InlineCall(spaced, n) ==
  << InHeader(spaced, "_inline_pulse"), InHeader(FALSE, "("), Number(n), InHeader(FALSE, ")") >>

\* The parenthesis that closes the one at i
RECURSIVE Closes(_, _, _)
Closes(code, i, depth) ==
  CASE code[i].text = <<")">> /\ depth = 1 -> i
    [] code[i].text = <<")">> /\ depth > 1 -> Closes(code, i + 1, depth - 1)
    [] code[i].text = <<"(">> -> Closes(code, i + 1, depth + 1)
    [] OTHER -> Closes(code, i + 1, depth)

\* An argument expanded: each _inline_pulse(args) in it is stored, its argument
\* expanded and captured, and leaves its number.
Expanded(st, code) == [st |-> st, code |-> code]

RECURSIVE Prescan(_, _)
Captured(spaced, inner) ==
  Expanded(capture_args(inner.st, inner.code), InlineCall(spaced, inner.st.counter))
Call(st, spaced, args) == Captured(spaced, Prescan(MacroExpands(st, args), args))

Following(done, rest) == Expanded(rest.st, done.code \o rest.code)
Then(done, code) == Following(done, Prescan(done.st, code))

Prescan(st, code) ==
  CASE code = <<>> -> Expanded(st, <<>>)
    [] code # <<>> /\ code[1].text = <<"_inline_pulse">> ->
         LET end == Closes(code, 2, 0)
         IN Then(Call(st, code[1].before, SubSeq(code, 3, end - 1)), SubSeq(code, end + 1, Len(code)))
    [] OTHER -> Then(Expanded(st, <<code[1]>>), Tail(code))

\* An annotation after the preprocessor: the numbers of its snippets
Indexed(st, idx) == [st |-> st, idx |-> idx]

One(e) == Indexed(capture_args(e.st, e.code), <<e.st.counter>>)
OneArgument(st, arg) == One(Prescan(MacroExpands(st, arg), arg))

Two(first, second) ==
  Indexed(capture_args(capture_args(second.st, first.code), second.code),
          <<second.st.counter, second.st.counter + 1>>)
TwoFrom(first, arg) == Two(first, Prescan(first.st, arg))
TwoArguments(st, args) == TwoFrom(Prescan(MacroExpands(st, args[1] \o args[2]), args[1]), args[2])

\* _preserves(p) is _requires(p) _ensures(p), with p expanded once
RequiredAndEnsured(e) ==
  Indexed(capture_args(MacroExpands(capture_args(MacroExpands(e.st, e.code), e.code), e.code), e.code),
          <<e.st.counter, e.st.counter + 1>>)
Preserves(st, arg) == RequiredAndEnsured(Prescan(MacroExpands(st, arg), arg))

\* _include_pulse takes its number without a capture, its argument as it stands
Include(st, arg) == Indexed(Anchor(capture_args(st, arg)), <<st.counter>>)
Anchored(r) == [r EXCEPT !.st = Anchor(@)]

ExpandMacro(st, kind, args) ==
  CASE kind = "include" -> Include(st, args[1])
    [] kind = "preserves" -> Preserves(st, args[1])
    [] kind \in {"let", "let-rec", "letimpure", "type"} -> Anchored(TwoArguments(st, args))
    [] kind = "refine-value" -> TwoArguments(st, args)
    [] OTHER -> IF args = <<>> THEN Indexed(st, <<>>) ELSE OneArgument(st, args[1])
-----------------------------------------------------------------------------
CONSTANTS Widths,      \* the widths of the integer types of the target
          Lookahead    \* declarations whose macros Clang can have expanded ahead

VARIABLES source,            \* the declarations not yet read
          read,              \* those read and not yet handed over
          tracker,           \* the snippets and __COUNTER__
          translation_unit,  \* the declarations translated
          diagnostics        \* the places something was reported at
frontVars == <<source, read, tracker, translation_unit, diagnostics>>

DefaultWidths == [char |-> 8, short |-> 16, int |-> 32, long |-> 64, long_long |-> 64]

snippets == tracker.snippets
-----------------------------------------------------------------------------
\* What is built, and the places something was reported at on the way
Built(it, reports) == [it |-> it, reports |-> reports]
BuiltFrom(loc, parsed) == Built(parsed.it, IF parsed.reported THEN {loc} ELSE {})

\* An attribute as Clang hands it over: its kind, the numbers of its snippets,
\* its place
parse_rvalue(loc, idx) ==
  IF idx \in DOMAIN snippets THEN BuiltFrom(loc, parse_expr(loc, snippets[idx], snippets, Widths))
  ELSE Built(With(loc, ErrorExpr(ErrorType)), {loc})

\* The predicate is parsed with a list of reports of its own, and the widths are
\* not those of the target.
RefinedValue(ty, binding, pred) ==
  IF binding.ok THEN RefineValue(ty, binding.it.name, binding.it.ty, pred.it) ELSE ErrorType

mk_type_refine_value(loc, ty, idx) ==
  IF {idx[1], idx[2]} \subseteq DOMAIN snippets
  THEN RefinedValue(ty, parse_refine_value_binding(snippets[idx[1]]),
                    parse_expr(loc, snippets[idx[2]], snippets, DefaultWidths))
  ELSE ErrorType

\* Only a pointer of unknown kind becomes an array: on anything else _array
\* says so on the standard error stream and does nothing.
mk_type_array(ty, kind) == IF ty.k = "ptr" /\ ty.kind = "unknown" THEN Ptr(ty.to, kind) ELSE ty

RefineKind ==
  ("refine" :> "refine" @@ "refine-always" :> "refine_always" @@ "refine-uninit" :> "refine_uninit")

Refined(kind, ty, pred) == Built(Refine(RefineKind[kind], ty, pred.it), pred.reports)

TypeAttr(attr, ty) ==
  CASE attr.kind \in DOMAIN RefineKind -> Refined(attr.kind, ty, parse_rvalue(attr.at, attr.idx[1]))
    [] attr.kind = "refine-value" -> Built(mk_type_refine_value(attr.at, ty, attr.idx), {})
    [] attr.kind = "plain" -> Built(Plain(ty), {})
    [] attr.kind \in Arrays -> Built(mk_type_array(ty, attr.kind), {})
    [] OTHER -> Built(ty, {})

\* The attributes of a type from the last to the first: the last is innermost.
RECURSIVE trTypeAttrs(_, _)
AlsoBuilt(r, reports) == [r EXCEPT !.reports = @ \cup reports]
InnerTypeAttrs(attrs, inner) == AlsoBuilt(trTypeAttrs(attrs, inner.it), inner.reports)
trTypeAttrs(attrs, ty) ==
  IF attrs = <<>> THEN Built(ty, {})
  ELSE InnerTypeAttrs(SubSeq(attrs, 1, Len(attrs) - 1), TypeAttr(attrs[Len(attrs)], ty))

HasAttr(attrs, kind) == \E k \in DOMAIN attrs : attrs[k].kind = kind

\* const of the parameter, or of what it points to, is part of its C type
Mode(arg) ==
  CASE HasAttr(arg.attrs, "consumes") -> "consumed"
    [] ~HasAttr(arg.attrs, "consumes") /\ HasAttr(arg.attrs, "out") -> "out"
    [] OTHER -> IF arg.const THEN "const" ELSE "regular"
-----------------------------------------------------------------------------
\* A DeclBuilder holds what is known of a function so far.
NewBuilder(name) ==
  [name |-> name, ret |-> None, args |-> <<>>, ghosts |-> <<>>, requires |-> <<>>,
   ensures |-> <<>>, pure |-> FALSE, rec |-> FALSE, decreases |-> None, reports |-> {}]

Reports(b, places) == [b EXCEPT !.reports = @ \cup places]

WithArg(b, arg, ty) ==
  Reports([b EXCEPT !.args = Append(@, FnArg(arg.name, ty.it, Mode(arg)))], ty.reports)

RECURSIVE WithArgs(_, _)
WithArgs(b, args) ==
  IF args = <<>> THEN b
  ELSE WithArgs(WithArg(b, args[1], trTypeAttrs(args[1].attrs, args[1].ty)), Tail(args))

WithRet(b, ty) == Reports([b EXCEPT !.ret = ty.it], ty.reports)

WithClause(b, kind, e) ==
  Reports(CASE kind = "requires" -> [b EXCEPT !.requires = Append(@, e.it)]
            [] kind = "ensures" -> [b EXCEPT !.ensures = Append(@, e.it)]
            [] kind = "decreases" -> [b EXCEPT !.decreases = e.it],
          e.reports)

WithGhost(b, loc, binding) ==
  IF binding.ok THEN [b EXCEPT !.ghosts = Append(@, binding.it)] ELSE Reports(b, {loc})

ghost_arg(b, loc, idx) ==
  IF idx \in DOMAIN snippets THEN WithGhost(b, loc, parse_ghost_arg_binding(snippets[idx]))
  ELSE Reports(b, {loc})

WithAttr(b, attr) ==
  CASE attr.kind \in {"requires", "ensures", "decreases"} ->
         WithClause(b, attr.kind, parse_rvalue(attr.at, attr.idx[1]))
    [] attr.kind = "pure" -> [b EXCEPT !.pure = TRUE]
    [] attr.kind = "rec" -> [b EXCEPT !.rec = TRUE]
    [] attr.kind = "ghost-arg" -> ghost_arg(b, attr.at, attr.idx[1])
    [] OTHER -> b

RECURSIVE WithAttrs(_, _)
WithAttrs(b, attrs) == IF attrs = <<>> THEN b ELSE WithAttrs(WithAttr(b, attrs[1]), Tail(attrs))

FnDecl(b, body) ==
  [is |-> IF body THEN "fn_defn" ELSE "fn_decl", name |-> b.name, ret |-> b.ret, args |-> b.args,
   ghosts |-> b.ghosts, requires |-> b.requires, ensures |-> b.ensures, pure |-> b.pure,
   rec |-> b.rec, decreases |-> b.decreases]

add_fn(b, body) == Built(<<FnDecl(b, body)>>, b.reports)

HandleFn(d) ==
  add_fn(WithAttrs(WithRet(WithArgs(NewBuilder(d.name), d.args), trTypeAttrs(d.attrs, d.ret)), d.attrs),
         d.body)
-----------------------------------------------------------------------------
\* What the annotations that stand on their own are translated to
Known(d) == \A k \in DOMAIN d.idx : d.idx[k] \in DOMAIN snippets
Nothing(loc) == Built(<<>>, {loc})

Code(d, k) == process_inline_pulse(d.at, snippets[d.idx[k]], snippets, Widths)

add_include(d) == IF Known(d) THEN Built(<<[is |-> "include", code |-> Code(d, 1)]>>, {}) ELSE Nothing(d.at)

LetDecl(d, sig, body) ==
  IF sig.ok
  THEN Built(<<[is |-> "let", rec |-> d.is = "let-rec", impure |-> d.is = "letimpure",
                sig |-> sig.it, body |-> body.it]>>, body.reports)
  ELSE Nothing(d.at)

add_let_decl(d) ==
  IF Known(d)
  THEN LetDecl(d, parse_let_signature(d.at, snippets[d.idx[1]], snippets, Widths),
               parse_rvalue(d.at, d.idx[2]))
  ELSE Nothing(d.at)

TypeDecl(d, name) ==
  IF name.ok THEN Built(<<[is |-> "opaque", name |-> name.it, code |-> Code(d, 2)]>>, {})
  ELSE Nothing(d.at)

add_type_decl(d) == IF Known(d) THEN TypeDecl(d, parse_type_name(snippets[d.idx[1]])) ELSE Nothing(d.at)

TypeDefn(name, ty) == Built(<<[is |-> "typedef", name |-> name, body |-> ty.it]>>, ty.reports)
add_typedef(d) == TypeDefn(d.name, trTypeAttrs(d.attrs, d.ty))
-----------------------------------------------------------------------------
\* A translation unit as written: a sequence of declarations
FrontInit(written) ==
  /\ source = written
  /\ read = <<>>
  /\ tracker = NewTracker
  /\ translation_unit = <<>>
  /\ diagnostics = {}

\* _preserves leaves two attributes
Attributes(attr, idx) ==
  IF attr.kind = "preserves"
  THEN << [kind |-> "requires", idx |-> <<idx[1]>>, at |-> attr.at],
          [kind |-> "ensures", idx |-> <<idx[2]>>, at |-> attr.at] >>
  ELSE <<[kind |-> attr.kind, idx |-> idx, at |-> attr.at]>>

\* The macros of attributes, one after the other
RECURSIVE ExpandAttrs(_, _)
Prepend(attrs, rest) == [st |-> rest.st, attrs |-> attrs \o rest.attrs]
ExpandRest(attr, r, attrs) == Prepend(Attributes(attr, r.idx), ExpandAttrs(r.st, attrs))
ExpandAttrs(st, attrs) ==
  IF attrs = <<>> THEN [st |-> st, attrs |-> <<>>]
  ELSE ExpandRest(attrs[1], ExpandMacro(st, attrs[1].kind, attrs[1].args), Tail(attrs))

\* A declaration whose macros are expanded: those of its parameters, then those of
\* its attributes, which stand after them
RECURSIVE ExpandArgs(_, _)
ArgRest(arg, r, args) ==
  LET rest == ExpandArgs(r.st, args)
  IN [st |-> rest.st, args |-> <<[arg EXCEPT !.attrs = r.attrs]>> \o rest.args]
ExpandArgs(st, args) ==
  IF args = <<>> THEN [st |-> st, args |-> <<>>]
  ELSE ArgRest(args[1], ExpandAttrs(st, args[1].attrs), Tail(args))

FnOf(d, args, r) == [st |-> r.st, decl |-> [d EXCEPT !.args = args.args, !.attrs = r.attrs]]
FnAfter(d, args) == FnOf(d, args, ExpandAttrs(args.st, d.attrs))
TypedefOf(d, r) == [st |-> r.st, decl |-> [d EXCEPT !.attrs = r.attrs]]
StandaloneOf(d, r) == [st |-> r.st, decl |-> [is |-> d.is, idx |-> r.idx, at |-> d.at]]

ExpandDecl(st, d) ==
  CASE d.is = "fn" -> FnAfter(d, ExpandArgs(st, d.args))
    [] d.is = "typedef" -> TypedefOf(d, ExpandAttrs(st, d.attrs))
    [] OTHER -> StandaloneOf(d, ExpandMacro(st, d.is, d.args))

ReadInto(r) == /\ tracker' = r.st
               /\ read' = Append(read, r.decl)

ReadDecl ==
  /\ source # <<>>
  /\ Len(read) <= Lookahead
  /\ ReadInto(ExpandDecl(tracker, Head(source)))
  /\ source' = Tail(source)
  /\ UNCHANGED <<translation_unit, diagnostics>>

Add(built) ==
  /\ translation_unit' = translation_unit \o built.it
  /\ diagnostics' = diagnostics \cup built.reports

Handle(d) ==
  \/ /\ d.is = "fn"
     /\ Add(HandleFn(d))
  \/ /\ d.is = "typedef"
     /\ Add(add_typedef(d))
  \/ /\ d.is = "include"
     /\ Add(add_include(d))
  \/ /\ d.is \in {"let", "let-rec", "letimpure"}
     /\ Add(add_let_decl(d))
  \/ /\ d.is = "type"
     /\ Add(add_type_decl(d))

HandleDecl ==
  /\ read # <<>>
  /\ Handle(Head(read))
  /\ read' = Tail(read)
  /\ UNCHANGED <<source, tracker>>

FrontNext == ReadDecl \/ HandleDecl

Translated == source = <<>> /\ read = <<>>
=============================================================================
