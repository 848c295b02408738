----------------------------- MODULE Annotated -----------------------------
(***************************************************************************)
(* Annotations from the C text to the emitted module and back: a program   *)
(* is written as C text, read and translated (FrontEnd), and the contracts *)
(* of its functions are printed, each node within its annotation (Printer).*)
(* A program is given by what its annotations say (Surface), and the unit  *)
(* it is translated to is compared with that.                              *)
(***************************************************************************)
EXTENDS Surface, Printer

CONSTANTS Programs,    \* what is written
          Printed      \* those of them that are printed

VARIABLE program       \* what was written

annotatedVars == <<program, frontVars, printerVars>>
-----------------------------------------------------------------------------
\* What is printed of a contract: the text of a node is put around that of its
\* operands; a name has three characters, a parenthesis one.
RECURSIVE Doc(_)
annotated(loc, doc) == Begin(loc) \o doc \o End
Docs(es) == Lists!FlattenSeq([k \in DOMAIN es |-> Newline \o Doc(es[k])])

\* A variable and its name are both annotated.
Doc(e) ==
  CASE e.op = "var" -> annotated(e.loc, annotated(e.loc, Characters(3)))
    [] e.op # "var" /\ e.kids = <<>> -> annotated(e.loc, Characters(3))
    [] OTHER -> annotated(e.loc, Characters(1) \o Docs(e.kids) \o Characters(1))

Contracts(tu) ==
  Lists!FlattenSeq([k \in DOMAIN tu |-> IF tu[k].is = "fn_decl" THEN tu[k].requires \o tu[k].ensures ELSE <<>>])
-----------------------------------------------------------------------------
Init ==
  /\ program \in Programs
  /\ FrontInit(SourceOf(program))
  /\ PrinterInit

Translate ==
  /\ FrontNext
  /\ UNCHANGED <<program, printerVars>>

EmitContracts ==
  /\ Translated
  /\ program \in Printed
  /\ SetDocument(Docs(Contracts(translation_unit)))
  /\ UNCHANGED <<program, frontVars>>

RenderContracts ==
  /\ Render
  /\ UNCHANGED <<program, frontVars>>

Next == Translate \/ EmitContracts \/ RenderContracts

Spec == Init /\ [][Next]_annotatedVars
-----------------------------------------------------------------------------
\* The expressions of the unit, and what they say without their places
RECURSIVE BareExpr(_)
BareCode(code) ==
  [k \in DOMAIN code |->
     [f \in DOMAIN code[k] |-> IF f = "expr" THEN BareExpr(code[k].expr) ELSE code[k][f]]]
BareExpr(e) ==
  [f \in DOMAIN e \ {"loc"} |->
     CASE f = "kids" -> [k \in DOMAIN e.kids |-> BareExpr(e.kids[k])]
       [] f = "code" -> BareCode(e.code)
       [] OTHER -> e[f]]
BareAll(es) == [k \in DOMAIN es |-> BareExpr(es[k])]

RECURSIVE BareType(_)
BareType(ty) ==
  [f \in DOMAIN ty |->
     CASE f = "pred" -> BareExpr(ty.pred) [] f \in {"of", "to"} -> BareType(ty[f]) [] OTHER -> ty[f]]

BareSig(sig) == [sig EXCEPT !.requires = BareAll(@), !.ensures = BareAll(@)]

BareDecl(d) ==
  CASE d.is = "fn_decl" ->
         [d EXCEPT !.ret = BareType(@), !.requires = BareAll(@), !.ensures = BareAll(@),
                   !.args = [a \in DOMAIN @ |-> [@[a] EXCEPT !.ty = BareType(@)]],
                   !.decreases = IF @ = None THEN None ELSE BareExpr(@)]
    [] d.is = "typedef" -> [d EXCEPT !.body = BareType(@)]
    [] d.is = "let" -> [d EXCEPT !.sig = BareSig(@), !.body = BareExpr(@)]
    [] d.is \in {"include", "opaque"} -> [d EXCEPT !.code = BareCode(@)]

\* What the annotations of a program mean is in the unit, in order, whatever the
\* macros did with their texts and in whichever order Clang expanded them
\* (impl.cpp:75-125, clang.rs:300-560, hauntedc.rs): operators bind as in C, no
\* annotation has the text of another, and a text with a fault is an error.
AnnotationsMeanWhatTheySay ==
  Translated /\ document = <<>> =>
    [k \in DOMAIN translation_unit |-> BareDecl(translation_unit[k])] = Meaning(program)

\* An annotation is reported if and only if its text is not what it takes: a
\* parser that gave up, or read only the beginning, says so at its place
\* (hauntedc.rs:1365-1400, clang.rs:480-620).
FaultsAreReported ==
  Translated /\ document = <<>> =>
    diagnostics = {a.at : a \in {b \in Annotations(program) :
                     b.kind # "refine-value" /\ FaultyArgument(b.kind, b.texts)}}

\* What the report promises (clang.rs:562): the same of every annotation, and of
\* the Pulse code in it
EveryFaultIsReported ==
  Translated /\ document = <<>> =>
    \A a \in Annotations(program) :
      FaultyArgument(a.kind, a.texts) \/ FaultyCode(a.texts) => a.at \in diagnostics
-----------------------------------------------------------------------------
HasOwnPlace(e) == e.loc.loc.from < e.loc.loc.to       \* that of an annotation is empty

\* The text at a place of the C source, and the ends of the stored texts
Excerpts(place) ==
  UNION {{SubSeq(snippets[n], i, j) : i \in {k \in DOMAIN snippets[n] : snippets[n][k].loc.loc.from = place.from},
                                      j \in {k \in DOMAIN snippets[n] : snippets[n][k].loc.loc.to = place.to}} :
           n \in DOMAIN snippets}
Ends == UNION {{SubSeq(snippets[n], i, Len(snippets[n])) : i \in DOMAIN snippets[n]} : n \in DOMAIN snippets}

Reads(text, e) == BareExpr(parse_expr(e.loc, text, snippets, Widths).it) = BareExpr(e)

RECURSIVE HasCode(_)
HasCode(e) == e.op = "inline" \/ \E k \in DOMAIN e.kids : HasCode(e.kids[k])

\* a->f is (*a).f and a != b is !(a == b): the operand has the place of the whole.
SamePlace(e, kid) ==
  kid.loc = e.loc /\ <<e.op, kid.op>> \in {<<"member", "deref">>, <<"not", "bin_op">>}

RECURSIVE PlacedWell(_)
PlacedWell(e) ==
  /\ \/ HasCode(e)
     \/ \E text \in IF HasOwnPlace(e) THEN Excerpts(e.loc.loc) ELSE Ends : Reads(text, e)
  /\ \A k \in DOMAIN e.kids :
       IF SamePlace(e, e.kids[k]) THEN \A l \in DOMAIN e.kids[k].kids : PlacedWell(e.kids[k].kids[l])
       ELSE PlacedWell(e.kids[k])

\* At the place of an expression stands its text and no other: parsed again, it is
\* that expression.  Only what ends where its annotation ends has the place of the
\* annotation (TokenSI, hauntedc.rs:903-1000).
PositionsAreOfTheText ==
  Translated /\ document = <<>> /\ diagnostics = {} =>
    \A k \in DOMAIN Contracts(translation_unit) : PlacedWell(Contracts(translation_unit)[k])
=============================================================================
