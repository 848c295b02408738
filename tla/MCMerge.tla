------------------------------ MODULE MCMerge ------------------------------
(***************************************************************************)
(* Units of up to three declarations out of: declarations and definitions  *)
(* of f with three types (one of them the type of an untranslatable        *)
(* construct), its two parameters in either order and various contracts, a *)
(* declaration of another function g, and the declaration and the          *)
(* definition of a struct f; and units of four where f has one type and    *)
(* one order of parameters.                                                *)
(***************************************************************************)
EXTENDS Merge

MCIdent == {"f", "g"}
MCParam == {"x", "y"}
MCText == {"p", "q"}
MCPlace == {1, 2}
MCType == {"t", "u", "error"}
MCErrorType == "error"

D(kind, name, type, params, specs) ==
  [kind |-> kind, name |-> name, type |-> type, params |-> params,
   requires |-> specs[1], ensures |-> specs[2]]
C(text, place) == <<[about |-> "x", says |-> text, at |-> place]>>

\* No contract, a clause of each kind, and the first clause somewhere else
NoSpecs == << << >>, << >> >>
Specs == {NoSpecs, <<C("p", 1), << >>>>, << << >>, C("q", 1)>>}
AllSpecs == Specs \cup {<<C("p", 2), << >>>>, <<C("q", 1), << >>>>}

Fns(types, params, specs) ==
  {D(k, "f", t, ps, s) : k \in {"FnDecl", "FnDefn"}, t \in types, ps \in params, s \in specs}
Structs ==
  {D("StructDecl", "f", "t", << >>, NoSpecs), D("StructDefn", "f", "t", << >>, NoSpecs)}
G == D("FnDecl", "g", "t", << >>, <<C("p", 1), << >>>>)

MCUnits ==
  BoundedSeq(Fns(MCType, {<<"x", "y">>}, Specs) \cup Structs \cup {G}, 3)
    \cup BoundedSeq(Fns({"t"}, {<<"x", "y">>, <<"y", "x">>}, AllSpecs), 3)
    \cup TupleOf(Fns({"t"}, {<<"x", "y">>}, Specs) \cup Structs, 4)
=============================================================================
