------------------------------- MODULE Merge -------------------------------
(***************************************************************************)
(* The merge pass (src/src/pass/merge.rs).  A C function may be declared   *)
(* several times before it is defined, usually with its contract on the    *)
(* declaration; Pulse wants one definition that carries the contract.      *)
(* merge checks every declaration of a function against its definition,    *)
(* copies the contract over and removes the declaration, and removes the   *)
(* declarations of structs that are defined.                               *)
(*                                                                         *)
(* A declaration is a record, with a type that is an opaque value and the  *)
(* names of its parameters; a contract is the pair of its requires and     *)
(* ensures clauses.  A clause speaks of a parameter by name.               *)
(***************************************************************************)
EXTENDS Naturals, Sequences, FiniteSets, SequencesExt

CONSTANTS
  Ident, Param, Text, Place, Type,
  ErrorType,      \* the type of what the front end could not translate
  Units           \* the translation units considered

Kind == {"FnDecl", "FnDefn", "StructDecl", "StructDefn"}
\* Expressions are compared with their places in the source.
Clause == [about : Param, says : Text, at : Place]
Decl == [kind : Kind, name : Ident, type : Type, params : Seq(Param),
         requires : Seq(Clause), ensures : Seq(Clause)]

ASSUME TypeAssumption == ErrorType \in Type
ASSUME UnitsAssumption == Units \subseteq Seq(Decl)

VARIABLES
  original,        \* tu.decls on entry
  decls,           \* tu.decls
  defn_indices,    \* where the definition of a function is
  i,               \* the index of the running loop
  to_remove,       \* the indices of the declarations merged, as they were found
  diags,           \* the functions an error has been reported for
  pc

vars == <<original, decls, defn_indices, i, to_remove, diags, pc>>
-----------------------------------------------------------------------------
\* Env::vtype_eq: a type that could not be translated equals every type.
vtype_eq(a, b) == a = b \/ ErrorType \in {a, b}

types_match(decl, defn) == vtype_eq(decl.type, defn.type)

HasSpecs(d) == d.requires # << >> \/ d.ensures # << >>
SameSpecs(d, e) == d.requires = e.requires /\ d.ensures = e.ensures

DefnPositions(unit, name) ==
  {k \in DOMAIN unit : unit[k].kind = "FnDefn" /\ unit[k].name = name}

\* The last definition of a name wins (HashMap::insert).
DefnIndices(unit) ==
  [n \in {unit[k].name : k \in {j \in DOMAIN unit : unit[j].kind = "FnDefn"}} |->
     Max(DefnPositions(unit, n))]

StructDefnNames(unit) ==
  {unit[k].name : k \in {j \in DOMAIN unit : unit[j].kind = "StructDefn"}}
-----------------------------------------------------------------------------
Init ==
  /\ original \in Units
  /\ decls = original
  /\ defn_indices = DefnIndices(original)
  /\ i = 1
  /\ to_remove = << >>
  /\ diags = {}
  /\ pc = "match"

\* A declaration whose definition can take it in.
Compatible(decl, defn) ==
  /\ types_match(decl, defn)
  /\ ~(HasSpecs(defn) /\ ~HasSpecs(decl))
  /\ HasSpecs(decl) /\ HasSpecs(defn) => SameSpecs(decl, defn)

\* Mutant: the errors are not reported.
MatchSilently ==
  /\ pc = "match"
  /\ i <= Len(decls)
  /\ decls[i].kind = "FnDecl"
  /\ decls[i].name \in DOMAIN defn_indices
  /\ to_remove' = IF Compatible(decls[i], decls[defn_indices[decls[i].name]])
                   THEN Append(to_remove, i) ELSE to_remove
  /\ i' = i + 1
  /\ UNCHANGED <<original, decls, defn_indices, diags, pc>>

\* A declared function that is defined: the declaration is marked for
\* removal, or an error is reported and the declaration stays.
MatchFnDecl ==
  /\ pc = "match"
  /\ i <= Len(decls)
  /\ decls[i].kind = "FnDecl"
  /\ decls[i].name \in DOMAIN defn_indices
  /\ IF Compatible(decls[i], decls[defn_indices[decls[i].name]])
     THEN to_remove' = Append(to_remove, i) /\ UNCHANGED diags
     ELSE diags' = diags \cup {decls[i].name} /\ UNCHANGED to_remove
  /\ i' = i + 1
  /\ UNCHANGED <<original, decls, defn_indices, pc>>

\* Mutant: a struct declaration is dropped though nothing defines the struct.
MatchEveryStructDecl ==
  /\ pc = "match"
  /\ i <= Len(decls)
  /\ decls[i].kind = "StructDecl"
  /\ to_remove' = Append(to_remove, i)
  /\ i' = i + 1
  /\ UNCHANGED <<original, decls, defn_indices, diags, pc>>

MatchStructDecl ==
  /\ pc = "match"
  /\ i <= Len(decls)
  /\ decls[i].kind = "StructDecl"
  /\ decls[i].name \in StructDefnNames(decls)
  /\ to_remove' = Append(to_remove, i)
  /\ i' = i + 1
  /\ UNCHANGED <<original, decls, defn_indices, diags, pc>>

MatchOther ==
  /\ pc = "match"
  /\ i <= Len(decls)
  /\ ~(decls[i].kind = "FnDecl" /\ decls[i].name \in DOMAIN defn_indices)
  /\ ~(decls[i].kind = "StructDecl" /\ decls[i].name \in StructDefnNames(decls))
  /\ i' = i + 1
  /\ UNCHANGED <<original, decls, defn_indices, to_remove, diags, pc>>

\* Mutant: the copying loop starts behind the first entry.
EndMatchSkipsOne ==
  /\ pc = "match"
  /\ i > Len(decls)
  /\ i' = 2
  /\ pc' = "copy"
  /\ UNCHANGED <<original, decls, defn_indices, to_remove, diags>>

EndMatch ==
  /\ pc = "match"
  /\ i > Len(decls)
  /\ i' = 1
  /\ pc' = "copy"
  /\ UNCHANGED <<original, decls, defn_indices, to_remove, diags>>

CopySpecs ==
  /\ pc = "copy"
  /\ i <= Len(to_remove)
  /\ LET decl == decls[to_remove[i]] IN
     IF decl.kind = "FnDecl" /\ ~HasSpecs(decls[defn_indices[decl.name]])
     THEN decls' = [decls EXCEPT ![defn_indices[decl.name]].requires = decl.requires,
                                 ![defn_indices[decl.name]].ensures = decl.ensures]
     ELSE UNCHANGED decls
  /\ i' = i + 1
  /\ UNCHANGED <<original, defn_indices, to_remove, diags, pc>>

EndCopy ==
  /\ pc = "copy"
  /\ i > Len(to_remove)
  /\ pc' = "remove"
  /\ UNCHANGED <<original, decls, defn_indices, i, to_remove, diags>>

\* Mutant: in the order they were found, so that later indices are stale.
RemoveForward ==
  /\ pc = "remove"
  /\ to_remove # << >>
  /\ to_remove[1] \in DOMAIN decls
  /\ decls' = RemoveAt(decls, to_remove[1])
  /\ to_remove' = Tail(to_remove)
  /\ UNCHANGED <<original, defn_indices, i, diags, pc>>

\* `to_remove` is sorted and walked from its end: the largest index first.
RemoveMerged ==
  /\ pc = "remove"
  /\ to_remove # << >>
  /\ LET last == CHOOSE k \in DOMAIN to_remove : to_remove[k] = Max(ToSet(to_remove))
     IN /\ decls' = RemoveAt(decls, to_remove[last])
        /\ to_remove' = RemoveAt(to_remove, last)
  /\ UNCHANGED <<original, defn_indices, i, diags, pc>>

Return ==
  /\ pc = "remove"
  /\ to_remove = << >>
  /\ pc' = "done"
  /\ UNCHANGED <<original, decls, defn_indices, i, to_remove, diags>>

Next == \/ MatchFnDecl \/ MatchStructDecl \/ MatchOther \/ EndMatch
        \/ CopySpecs \/ EndCopy \/ RemoveMerged \/ Return

\* The pass is a function that runs until it returns.
Spec == Init /\ [][Next]_vars /\ WF_vars(Next)
-----------------------------------------------------------------------------
\* Every variable holds a value of its Rust type, and indices lie in range.
TypeOK ==
  /\ original \in Units
  /\ decls \in Seq(Decl)
  /\ DOMAIN defn_indices \subseteq Ident
  /\ \A n \in DOMAIN defn_indices : defn_indices[n] \in 1 .. Len(original)
  /\ i \in 1 .. Len(original) + 1
  /\ \A k \in DOMAIN to_remove : to_remove[k] \in DOMAIN decls
  /\ diags \subseteq Ident
  /\ pc \in {"match", "copy", "remove", "done"}

Declares(unit, kinds, name) == \E k \in DOMAIN unit : unit[k].kind \in kinds /\ unit[k].name = name
Contract(d) == [requires |-> d.requires, ensures |-> d.ensures]

\* What a unit says of a function: its contracts, other than the empty one.
Contracts(unit, name) ==
  {Contract(unit[k]) : k \in {j \in DOMAIN unit :
     unit[j].kind \in {"FnDecl", "FnDefn"} /\ unit[j].name = name /\ HasSpecs(unit[j])}}

\* Merging removes declarations, never definitions, and never the last thing
\* that declares a function or a struct (indices shift while declarations are
\* removed, merge.rs:147).
NothingIsLost ==
  /\ \A n \in Ident :
       /\ Declares(original, {"FnDecl", "FnDefn"}, n) => Declares(decls, {"FnDecl", "FnDefn"}, n)
       /\ Declares(original, {"StructDecl", "StructDefn"}, n) =>
            Declares(decls, {"StructDecl", "StructDefn"}, n)
  /\ \A n \in Ident : \A kind \in {"FnDefn", "StructDefn"} :
       Cardinality({k \in DOMAIN decls : decls[k].kind = kind /\ decls[k].name = n})
         = Cardinality({k \in DOMAIN original : original[k].kind = kind /\ original[k].name = n})

\* A function about which nothing was reported is left with one entry if it is
\* defined, so the emitter, which emits every entry, defines it once.
OneEntryUnlessReported ==
  pc = "done" =>
    \A n \in Ident \ diags :
      Cardinality(DefnPositions(original, n)) = 1 =>
        Cardinality({k \in DOMAIN decls :
           decls[k].kind \in {"FnDecl", "FnDefn"} /\ decls[k].name = n}) = 1

\* If the unit gives a function one contract, on any number of its
\* declarations, its definition ends with exactly that text as its contract, or
\* an error is reported.
OneContractIsKept ==
  pc = "done" =>
    \A n \in Ident \ diags :
      \A c \in Contracts(original, n) :
        Contracts(original, n) = {c} => Contracts(decls, n) = {c}

\* What a clause of a declaration says: names of parameters stand for positions.
Resolved(d, clause) ==
  [says |-> clause.says, about |-> {j \in DOMAIN d.params : d.params[j] = clause.about}]
Meaning(d) ==
  [requires |-> [k \in DOMAIN d.requires |-> Resolved(d, d.requires[k])],
   ensures |-> [k \in DOMAIN d.ensures |-> Resolved(d, d.ensures[k])]]
Meanings(unit, name) ==
  {Meaning(unit[k]) : k \in {j \in DOMAIN unit :
     unit[j].kind \in {"FnDecl", "FnDefn"} /\ unit[j].name = name /\ HasSpecs(unit[j])}}

\* A function defined once, with a contract on every declaration if the definition
\* has one, and with types that match
Mergeable(unit, name) ==
  LET fns == {k \in DOMAIN unit : unit[k].kind \in {"FnDecl", "FnDefn"} /\ unit[k].name = name}
  IN \E k \in fns :
       /\ DefnPositions(unit, name) = {k}
       /\ \A j \in fns : types_match(unit[j], unit[k])
       /\ HasSpecs(unit[k]) => \A j \in fns : HasSpecs(unit[j])

\* The contracts of declaration and definition must match, says merge.rs:99, and
\* a definition without one has that of its declaration (test/merge_decl.c:9):
\* contracts that say the same are merged without an error, and what the
\* definition says in the end, of whichever parameter, is what the declarations
\* said.
ContractsMustMatch ==
  pc = "done" =>
    \A n \in Ident :
      Mergeable(original, n) =>
        IF n \in diags THEN Cardinality(Meanings(original, n)) > 1
        ELSE Meanings(decls, n) = Meanings(original, n)
=============================================================================
