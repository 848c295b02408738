------------------------------ MODULE MCPrune ------------------------------
(***************************************************************************)
(* Units of three declarations over a function f and a struct, a typedef   *)
(* and a global variable that share the identifier s: chains,              *)
(* cycles and self-dependencies between them, several declarations of one  *)
(* name, and mentions prune does not scan.                                 *)
(***************************************************************************)
EXTENDS Prune

MCId == {"f", "s"}

N(kind, id) == [kind |-> kind, id |-> id]
M(pos, kind, id) == [pos |-> pos, name |-> N(kind, id)]

HeaderMentions ==
  {{}, {M("call", "Fn", "f")}, {M("type", "Struct", "s")},
   {M("type", "Typedef", "s"), M("antiquot", "Struct", "s"), M("verbatim", "Fn", "f")}}
MainMentions ==
  {{}, {M("call", "Fn", "f"), M("decreases", "Typedef", "s")},
   {M("type", "Typedef", "s"), M("var", "GlobalVar", "s")},
   {M("init", "Struct", "s"), M("type", "Typedef", "s")}}

Decls(shapes, main, mentions) ==
  {[variant |-> v[1], id |-> v[2], main |-> main, mentions |-> ms] : v \in shapes, ms \in mentions}

Shapes == {<<"FnDecl", "f">>, <<"StructDefn", "s">>, <<"Typedef", "s">>}
Bare == Decls({<<"StructDecl", "s">>, <<"GlobalVar", "s">>}, FALSE, {{}})

\* The first declaration comes from a header and the last one from the main
\* file, as the includes of a C file put them.
MCUnits ==
  {<<a, b, c>> : a \in Decls(Shapes, FALSE, HeaderMentions) \cup Bare,
                 b \in Decls(Shapes, FALSE, HeaderMentions) \cup Decls(Shapes, TRUE, MainMentions),
                 c \in Decls({<<"FnDefn", "f">>, <<"IncludeDecl", "f">>},
                             TRUE, MainMentions)}
=============================================================================
