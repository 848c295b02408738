--------------------------- MODULE MCNameMangling ---------------------------
(***************************************************************************)
(* Ten names chosen to collide: variables that differ in case or look like *)
(* a numbered one, a field and the getter of another one, a field called   *)
(* pred, the direct and the ghost projection of one field, two union       *)
(* constructors that spell the same, and the variable `return`.            *)
(***************************************************************************)
EXTENDS NameMangling

MCLowerOf == ("X" :> "x") @@ ("Field" :> "field") @@ ("S" :> "s")
MCPart ==
  {"", "x", "X", "f", "s", "S", "u", "Field", "field", "this",
   "var", "val", "p", "func", "struct", "union", "ty", "pred", "get", "aux",
   "uninit", "has", "zero", "default"}
    \cup {ToString(k) : k \in 0 .. 40}
    \cup UNION {{r[k] : k \in DOMAIN r} : r \in RESERVED}

Mk(con, kind, first, second) ==
  [con |-> con, kind |-> kind, first |-> first, second |-> second]

MCNames ==
  {Mk("Var", "none", <<"x">>, << >>), Mk("Var", "none", <<"X">>, << >>),
   Mk("Var", "none", <<"x", "1">>, << >>), Mk("Var", "none", <<"return">>, << >>),
   Mk("TypeRefPred", "struct", <<"s">>, << >>),
   Mk("DirectFieldName", "struct", <<"s">>, <<"pred">>),
   Mk("GhostFieldProj", "struct", <<"s">>, <<"pred">>),
   Mk("DirectFieldName", "struct", <<"S">>, <<"pred", "1">>),
   Mk("UnionFieldConstructor", "none", <<"u", "", "s">>, <<"f">>),
   Mk("UnionFieldConstructor", "none", <<"u">>, <<"s", "", "f">>)}
=============================================================================
