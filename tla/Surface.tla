------------------------------ MODULE Surface ------------------------------
(***************************************************************************)
(* Programs given by what their annotations say: how they are written as   *)
(* C text, what they mean, and which of their annotations have faults.     *)
(* Like CSyntax this is a reference: nothing here follows the translator.  *)
(***************************************************************************)
EXTENDS CSyntax

LOCAL Lists == INSTANCE SequencesExt

(* A text is what an argument of an annotation is: an expression, *)
(* Pulse code, a signature, a type and a name, or words.                     *)
ExprText(e) == [is |-> "expr", expr |-> e]
CodeText(code) == [is |-> "code", code |-> code]
WordsText(words) == [is |-> "words", words |-> words]
SigText(ret, name, params, requires, ensures) ==
  [is |-> "sig", ret |-> ret, name |-> name, params |-> params, requires |-> requires,
   ensures |-> ensures]
SigParam(mode, kind, ty, name) == [mode |-> mode, kind |-> kind, ty |-> ty, name |-> name]

\* Annotations and declarations; redundant: the style expressions are written in
Attr(kind, texts) == [kind |-> kind, texts |-> texts]
ArgOf(name, ty, attrs) == [name |-> name, ty |-> ty, attrs |-> attrs, const |-> FALSE]
Function(name, args, ret, attrs) ==
  [is |-> "fn", name |-> name, args |-> args, ret |-> ret, attrs |-> attrs, body |-> FALSE]
TypedefOfType(name, ty, attrs) == [is |-> "typedef", name |-> name, ty |-> ty, attrs |-> attrs]
Standalone(kind, texts) == [is |-> kind, texts |-> texts]
Program(redundant, decls) == [redundant |-> redundant, decls |-> decls]

RECURSIVE WrittenParams(_), WrittenClauses(_, _, _)
WrittenParam(p) ==
  (IF p.mode = "" THEN <<>> ELSE Word(p.mode)) \o (IF p.kind = "" THEN <<>> ELSE Word(("array" :> "_array" @@ "arrayptr" :> "_arrayptr")[p.kind]))
    \o WrittenType(p.ty) \o (IF p.name = "" THEN <<>> ELSE Word(p.name))
WrittenParams(ps) ==
  CASE ps = <<>> -> <<>>
    [] Len(ps) = 1 -> WrittenParam(ps[1])
    [] OTHER -> WrittenParam(ps[1]) \o Word(",") \o WrittenParams(Tail(ps))
WrittenClauses(word, es, redundant) ==
  IF es = <<>> THEN <<>>
  ELSE Word(word) \o Word("(") \o Written(es[1], redundant) \o Word(")")
         \o WrittenClauses(word, Tail(es), redundant)

WrittenText(t, redundant) ==
  CASE t.is = "expr" -> Written(t.expr, redundant)
    [] t.is = "code" -> WrittenCode(t.code, redundant)
    [] t.is = "words" -> Spelled(t.words)
    [] t.is = "sig" ->
         WrittenType(t.ret) \o Word(t.name) \o Word("(") \o WrittenParams(t.params) \o Word(")")
           \o WrittenClauses("requires", t.requires, redundant)
           \o WrittenClauses("ensures", t.ensures, redundant)

\* The place of annotation n is where its macro begins; that of a token is its own.
PlaceOf(n) == Original(Location("main", 10000 * n, 10000 * n))
Placed(tokens, from) ==
  [k \in DOMAIN tokens |-> CodeToken(tokens[k].before, tokens[k].text,
                                     Original(Location("main", from + 2 * k, from + 2 * k + 1)))]

Texts(n, texts, redundant) ==
  [k \in DOMAIN texts |-> Placed(WrittenText(texts[k], redundant), 10000 * n + 3000 * (k - 1) + 10)]

\* Annotations are numbered by declaration, parameter (0: none) and position.
Numbered(d, a, j) == 1000 * d + 100 * a + j
AttrsAt(d, a, attrs, redundant) ==
  [j \in DOMAIN attrs |->
     [kind |-> attrs[j].kind, args |-> Texts(Numbered(d, a, j), attrs[j].texts, redundant),
      at |-> PlaceOf(Numbered(d, a, j))]]

SourceDecl(decl, d, redundant) ==
  CASE decl.is = "fn" ->
         [decl EXCEPT !.args = [a \in DOMAIN @ |-> [@[a] EXCEPT !.attrs = AttrsAt(d, a, @, redundant)]],
                      !.attrs = AttrsAt(d, 0, @, redundant)]
    [] decl.is = "typedef" -> [decl EXCEPT !.attrs = AttrsAt(d, 0, @, redundant)]
    [] OTHER -> [is |-> decl.is, args |-> Texts(Numbered(d, 0, 0), decl.texts, redundant),
                 at |-> PlaceOf(Numbered(d, 0, 0))]

SourceOf(p) == [d \in DOMAIN p.decls |-> SourceDecl(p.decls[d], d, p.redundant)]
-----------------------------------------------------------------------------
(* What a program means.                                                     *)
SaidBy(text) == SaysWhole(text.expr)

\* The first attribute of a type is the outermost, whatever it is given.
RefinementOf == ("refine" :> "refine" @@ "refine-always" :> "refine_always" @@ "refine-uninit" :> "refine_uninit")
RECURSIVE MeantType(_, _)
MeantType(attrs, ty) ==
  LET inner == MeantType(Tail(attrs), ty)
      texts == attrs[1].texts
  IN CASE attrs = <<>> -> ty
       [] attrs # <<>> /\ attrs[1].kind \in DOMAIN RefinementOf ->
            Refine(RefinementOf[attrs[1].kind], inner, SaidBy(texts[1]))
       [] attrs # <<>> /\ attrs[1].kind = "refine-value" ->
            RefineValue(inner, texts[1].words[2], TypeRef("typedef", texts[1].words[1]), SaidBy(texts[2]))
       [] attrs # <<>> /\ attrs[1].kind = "plain" -> Plain(inner)
       [] attrs # <<>> /\ attrs[1].kind \in Arrays -> Ptr(inner.to, attrs[1].kind)
       [] OTHER -> inner             \* not an attribute of the type

Of(attrs, kinds) == SelectSeq(attrs, LAMBDA a : a.kind \in kinds)
SaidByAll(attrs) == [k \in DOMAIN attrs |-> SaidBy(attrs[k].texts[1])]

MeantMode(attrs) ==
  IF Of(attrs, {"consumes"}) # <<>> THEN "consumed"
  ELSE IF Of(attrs, {"out"}) # <<>> THEN "out" ELSE "regular"

Pair(words) == Len(words) = 2
MeantGhosts(attrs) ==
  LET bound == SelectSeq(attrs, LAMBDA a : a.kind = "ghost-arg" /\ Pair(a.texts[1].words))
  IN [k \in DOMAIN bound |-> [name |-> bound[k].texts[1].words[2],
                              ty |-> Meant(CType(<<bound[k].texts[1].words[1]>>, 0))]]

MeantFn(f) ==
  [is |-> "fn_decl", name |-> f.name, ret |-> MeantType(f.attrs, f.ret),
   args |-> [a \in DOMAIN f.args |->
               FnArg(f.args[a].name, MeantType(f.args[a].attrs, f.args[a].ty), MeantMode(f.args[a].attrs))],
   ghosts |-> MeantGhosts(f.attrs),
   requires |-> SaidByAll(Of(f.attrs, {"requires", "preserves"})),
   ensures |-> SaidByAll(Of(f.attrs, {"ensures", "preserves"})),
   pure |-> Of(f.attrs, {"pure"}) # <<>>, rec |-> Of(f.attrs, {"rec"}) # <<>>,
   decreases |-> IF Of(f.attrs, {"decreases"}) = <<>> THEN None
                 ELSE SaidBy(Lists!Last(Of(f.attrs, {"decreases"})).texts[1])]

ModeWord ==
  ("" :> "regular" @@ "const" :> "const" @@ "_plain" :> "const" @@ "_consumes" :> "consumed" @@ "_out" :> "out")
MeantParam(p) ==
  FnArg(p.name,
        IF p.kind = "" THEN Meant(p.ty) ELSE MeantType(<<Attr(p.kind, <<>>)>>, Meant(p.ty)),
        ModeWord[p.mode])
MeantSig(t) ==
  [name |-> t.name, ret |-> Meant(t.ret), args |-> [k \in DOMAIN t.params |-> MeantParam(t.params[k])],
   requires |-> SaysAll(t.requires), ensures |-> SaysAll(t.ensures)]

\* A declaration whose signature or name cannot be read is left out.
MeantDecl(d) ==
  CASE d.is = "fn" -> <<MeantFn(d)>>
    [] d.is = "typedef" -> <<[is |-> "typedef", name |-> d.name, body |-> MeantType(d.attrs, d.ty)]>>
    [] d.is = "include" -> <<[is |-> "include", code |-> SaysCode(d.texts[1].code)]>>
    [] d.is \in {"let", "let-rec", "letimpure"} /\ d.texts[1].is = "sig" ->
         <<[is |-> "let", rec |-> d.is = "let-rec", impure |-> d.is = "letimpure",
            sig |-> MeantSig(d.texts[1]), body |-> SaidBy(d.texts[2])]>>
    [] d.is = "type" /\ Len(d.texts[1].words) = 1 ->
         <<[is |-> "opaque", name |-> d.texts[1].words[1], code |-> SaysCode(d.texts[2].code)]>>
    [] OTHER -> <<>>

Meaning(p) == Lists!FlattenSeq([d \in DOMAIN p.decls |-> MeantDecl(p.decls[d])])

\* The faults of an annotation: a text that is not what the annotation takes ...
FaultyArgument(kind, texts) ==
  CASE texts = <<>> \/ kind = "include" -> FALSE
    [] texts # <<>> /\ kind = "ghost-arg" -> ~Pair(texts[1].words)
    [] texts # <<>> /\ kind = "type" -> Len(texts[1].words) # 1
    [] texts # <<>> /\ kind \in {"let", "let-rec", "letimpure"} ->
         texts[1].is # "sig" \/ Unfinished(texts[2].expr)
    [] texts # <<>> /\ kind = "refine-value" -> ~Pair(texts[1].words) \/ Unfinished(texts[2].expr)
    [] OTHER -> Unfinished(texts[1].expr)

\* ... or a fault in the Pulse code of one of its texts
RECURSIVE FaultIn(_), FaultInCode(_)
FaultIn(e) == IF e.op = "code" THEN FaultInCode(e.code) ELSE \E k \in DOMAIN e.kids : FaultIn(e.kids[k])
FaultInCode(code) ==
  \E k \in DOMAIN code :
    \/ /\ code[k].is = "quote"
       /\ (Unfinished(code[k].expr) \/ FaultIn(code[k].expr))
    \/ /\ code[k].is = "mention"
       /\ code[k].ty.words = <<"+">>
FaultyCode(texts) ==
  \E k \in DOMAIN texts : \/ (texts[k].is = "expr" /\ FaultIn(texts[k].expr))
                         \/ (texts[k].is = "code" /\ FaultInCode(texts[k].code))

\* The annotations of a program
Annotation(n, kind, texts) == [at |-> PlaceOf(n), kind |-> kind, texts |-> texts]
AnnotationsOf(d, a, attrs) ==
  {Annotation(Numbered(d, a, j), attrs[j].kind, attrs[j].texts) : j \in DOMAIN attrs}
AnnotationsOn(decl, d) ==
  CASE decl.is = "fn" -> AnnotationsOf(d, 0, decl.attrs)
                           \cup UNION {AnnotationsOf(d, a, decl.args[a].attrs) : a \in DOMAIN decl.args}
    [] decl.is = "typedef" -> AnnotationsOf(d, 0, decl.attrs)
    [] OTHER -> {Annotation(Numbered(d, 0, 0), decl.is, decl.texts)}
Annotations(p) == UNION {AnnotationsOn(p.decls[d], d) : d \in DOMAIN p.decls}
=============================================================================
