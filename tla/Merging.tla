------------------------------ MODULE Merging ------------------------------
(***************************************************************************)
(* What the pass merge (src/src/pass/merge.rs) makes of a unit with its    *)
(* types and expressions, for the passes that go over the unit after it.   *)
(* The module Merge has its loops step by step, over abstract types.       *)
(***************************************************************************)
EXTENDS Types

\* Expressions carry their places and are equal only where one text was read for
\* both: the contracts of two declarations of a unit never are.
HasSpecs(d) == d.requires \o d.ensures # <<>>

types_match(env, decl, defn) ==
  /\ Len(decl.args) = Len(defn.args)
  /\ \A k \in DOMAIN decl.args : TypeEq(env, decl.args[k].ty, defn.args[k].ty)
  /\ TypeEq(env, decl.ret, defn.ret)

Mismatch(env, decl, defn) ==
  CASE ~types_match(env, decl, defn) -> {"different types"}
    [] types_match(env, decl, defn) /\ HasSpecs(defn) ->
         IF HasSpecs(decl) THEN {"differing specifications"} ELSE {"specifications belong elsewhere"}
    [] OTHER -> {}

\* The last definition of a function
FnDefns(unit, f) == {k \in DOMAIN unit : unit[k].op = "fn_defn" /\ unit[k].name = f}
DefnIndex(unit, f) == CHOOSE k \in FnDefns(unit, f) : \A j \in FnDefns(unit, f) : j <= k

CONSTANT EnvOf(_, _)
Def_EnvOf(env, unit) == IF unit = <<>> THEN env ELSE EnvOf(PushDecl(env, Head(unit)), Tail(unit))

\* The declarations of functions that are defined, and what is wrong with them
Declared(unit) ==
  {k \in DOMAIN unit : unit[k].op = "fn_decl" /\ FnDefns(unit, unit[k].name) # {}}
Mismatches(env, unit) ==
  [k \in Declared(unit) |-> Mismatch(env, unit[k], unit[DefnIndex(unit, unit[k].name)])]
StructsDefined(unit) ==
  {k \in DOMAIN unit : /\ unit[k].op = "struct_decl"
                       /\ \E j \in DOMAIN unit : /\ unit[j].op = "struct_defn"
                                                 /\ unit[j].name = unit[k].name}

\* A definition without a contract takes that of the first merged declaration that
\* has one, parameters by name.
WithSpecs(unit, merged, k) ==
  LET givers == {j \in merged : /\ unit[j].op = "fn_decl" /\ unit[j].name = unit[k].name
                                /\ HasSpecs(unit[j])}
      first == CHOOSE j \in givers : \A m \in givers : j <= m
  IN IF /\ unit[k].op = "fn_defn" /\ DefnIndex(unit, unit[k].name) = k
        /\ ~HasSpecs(unit[k]) /\ givers # {}
     THEN [unit[k] EXCEPT !.requires = unit[first].requires, !.ensures = unit[first].ensures]
     ELSE unit[k]

CONSTANT Without(_, _, _)
Def_Without(unit, merged, k) ==
  IF k > Len(unit) THEN <<>>
  ELSE (IF k \in merged THEN <<>> ELSE <<WithSpecs(unit, merged, k)>>) \o Without(unit, merged, k + 1)

MergedUnit(unit, mismatches) ==
  [unit |-> Without(unit, {k \in DOMAIN mismatches : mismatches[k] = {}} \cup StructsDefined(unit), 1),
   reports |-> UNION {{<<k, r>> : r \in mismatches[k]} : k \in DOMAIN mismatches}]
merge(unit) == MergedUnit(unit, Mismatches(EnvOf(NewEnv, unit), unit))
=============================================================================
