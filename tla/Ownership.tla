----------------------------- MODULE Ownership -----------------------------
(***************************************************************************)
(* What the emitted module says of memory, with its predicates unfolded,   *)
(* and what it is to say: the memory a value of a type stands for, read    *)
(* off the types of the program (the attributes of src/pal.h, and the      *)
(* cases of emit_type_slprop in src/src/pass/emit.rs, without predicates). *)
(***************************************************************************)
EXTENDS Emission
LOCAL INSTANCE SequencesExt

\* A piece of memory, or a predicate of the program that is claimed of it.  What is
\* claimed is a sequence of pieces, and compared as a bag: order means nothing to
\* separating conjunction, but two claims to one piece are no claim to one.
Piece(what, v, at) == [what |-> what, init |-> v.init, perm |-> v.perm, at |-> at]

DefinedIn(output, id) == {k \in DOMAIN output : id \in output[k].defines}

CONSTANT Unfolded(_, _)
Def_Unfolded(output, p) ==
  LET here == DefinedIn(output, PredId(p, p.of))
      body == output[CHOOSE k \in here : TRUE].claims.props
      Applied(q) == [q EXCEPT !.perm = IF q.init THEN p.perm ELSE @,
                              !.at = subst_this(@, p.at)]
  IN IF p.what # "pred" \/ here = {} THEN <<Piece(p.what, p, p.at)>>
     ELSE FlattenSeq([k \in DOMAIN body |-> Unfolded(output, Applied(body[k]))])

Claimed(output, c) == FlattenSeq([k \in DOMAIN c.props |-> Unfolded(output, c.props[k])])
Memory(output, c) == ToBag(Claimed(output, c))

\* The memory of a value e of type t.  A structure stands for that of its fields, but
\* not for other structures of its kind that they point to.
CONSTANT Owned(_, _, _, _, _)
Def_Owned(env, open, t, v, e) ==
  LET Inside(u, x) == Owned(env, "none", u, v, x)
      fields == env.structs[t.name]
      stated == IF States(t, v) THEN <<Piece("refined", Uninitialised, subst_this(t.pred, e))>>
                ELSE <<>>
  IN CASE t.k = "ptr" /\ t.kind = "array" ->
            <<Piece(IF v.init THEN "array_pts_to" ELSE "array_pts_to_uninit", v, e)>>
       [] t.k = "ptr" /\ t.kind \in {"ref", "unknown"} /\ ~v.init ->
            <<Piece("pts_to_uninit", v, e)>>
       [] t.k = "ptr" /\ t.kind \in {"ref", "unknown"} /\ v.init ->
            <<Piece("pts_to", v, e)>>
              \o IF t.to = TypeRef("struct", open) THEN <<>>
                 ELSE Owned(env, open, t.to, v, Deref(e))
       [] t.k = "typedef" /\ t.name \in DOMAIN env.typedefs -> Inside(env.typedefs[t.name], e)
       [] t.k = "typedef" /\ t.name \notin DOMAIN env.typedefs -> <<Piece("pred", v, e)>>
       [] t.k = "struct" ->
            FlattenSeq([k \in DOMAIN fields |->
                          Owned(env, t.name, fields[k].ty, v, Member(e, fields[k].name))])
       [] t.k \in Refinements \cup {"refine_value"} -> Owned(env, open, t.of, v, e) \o stated
       [] OTHER -> <<>>

\* What a function is to take, to be lent and to give back of a parameter
Takes(env, p) ==
  LET Of(v) == ToBag(Owned(env, "none", p.ty, v, Var(p.name)))
  IN CASE p.mode \in {"regular", "consumed"} -> Of(Initialised("1.0R"))
       [] p.mode = "out" -> Of(Uninitialised)
       [] OTHER -> ToBag(<<>>)
Borrows(env, p) ==
  ToBag(IF p.mode # "const" THEN <<>>
        ELSE Owned(env, "none", p.ty, Initialised("'p"), Var(p.name)))
GivesBack(env, p) ==
  ToBag(IF p.mode \in {"const", "consumed"} THEN <<>>
        ELSE Owned(env, "none", p.ty, Initialised("1.0R"), Var(p.name)))

\* Where memory is, whatever is in it
Places(memory) == {p.at : p \in {q \in DOMAIN memory : q.what # "refined"}}

\* What a function holds, all its parameters together, when it is called and when
\* it returns
HeldBefore(output, params) ==
  FlattenSeq([j \in DOMAIN params |->
                Claimed(output, params[j].pre) \o Claimed(output, params[j].kept)])
HeldAfter(output, params) ==
  FlattenSeq([j \in DOMAIN params |->
                Claimed(output, params[j].post) \o Claimed(output, params[j].kept)])

\* No memory is claimed twice, be it in another way the second time.
Separate(pieces) ==
  \A a, b \in {k \in DOMAIN pieces : pieces[k].what # "refined"} :
    pieces[a].at = pieces[b].at => a = b
-----------------------------------------------------------------------------
\* Names whose definition the user writes in inline Pulse code, if anyone does: what
\* belongs to types whose definition the unit does not have.
LeftToTheUser(env, id) ==
  LET undefined == /\ id[2] = "typedef"
                   /\ id[3] \in env.opaque
      incomplete == id[2] = "struct" /\ env.structs[id[3]] = <<>>
  IN \/ id[1] = "report"
     \/ id[1] \in {"pred", "uninit_pred", "default"} /\ undefined
     \/ id[1] = "default" /\ incomplete

DefinedBefore(output, k) == UNION {output[j].defines : j \in 1 .. k - 1}

\* The claims that stand in one scope
ClaimsOf(item) ==
  {item.claims} \cup UNION {{item.params[k].pre, item.params[k].kept, item.params[k].post} :
                              k \in DOMAIN item.params}

\* The types of the values a predicate is applied to
AppliedTypes(c, p) ==
  [j \in DOMAIN p.vals |->
     c.binders[CHOOSE b \in DOMAIN c.binders : c.binders[b].name = p.vals[j]].ty]
=============================================================================
