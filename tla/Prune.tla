------------------------------- MODULE Prune -------------------------------
(***************************************************************************)
(* The prune pass (src/src/pass/prune.rs).  A translation unit holds the   *)
(* declarations of the main file and of every header it includes, in       *)
(* source order; prune keeps the ones the main file needs.  It collects    *)
(* the dependencies of every name, takes the names declared in the main    *)
(* file as roots, propagates the roots along the dependencies with a       *)
(* worklist, and cuts the unit down to the declarations whose name became  *)
(* a root.                                                                 *)
(*                                                                         *)
(* A declaration is a record: the constructor of DeclT, its identifier,    *)
(* whether it lies in the main file, and the names it mentions with the    *)
(* position they are mentioned at.  The sets are hash sets in the code, so *)
(* the order in which a set is iterated is not determined.                 *)
(***************************************************************************)
EXTENDS Naturals, Sequences

CONSTANTS
  Id,      \* identifiers (and the locations that name include declarations)
  Units    \* the translation units considered

Variant == {"FnDefn", "FnDecl", "LetDecl", "StructDefn", "StructDecl",
            "UnionDefn", "Typedef", "OpaqueTypeDecl", "GlobalVar", "IncludeDecl"}

\* The positions of a name in a declaration.  Every position but the last
\* three is scanned: a variable mention (prune.rs:135), the measure of a
\* decreases clause (prune.rs:300) and verbatim Pulse text are passed over.
ScannedPosition == {"type", "call", "init", "antiquot"}
Position == ScannedPosition \cup {"var", "decreases", "verbatim"}

DeclName == [kind : {"Fn", "Struct", "Union", "Typedef", "GlobalVar", "Include"},
             id : Id]
Mention == [pos : Position, name : DeclName]
Decl == [variant : Variant, id : Id, main : BOOLEAN, mentions : SUBSET Mention]

ASSUME UnitsAssumption == Units \subseteq Seq(Decl)

VARIABLES
  unit,    \* tu.decls on entry
  i,       \* the loop index of the two passes over tu.decls
  deps,    \* Deps.deps: a map from names to sets of names
  roots,   \* Deps.roots
  todo,    \* the stack of dependency sets still to be visited
  iter,    \* what the running `for` loop over a set has not yielded yet
  out,     \* tu.decls on return
  pc

vars == <<unit, i, deps, roots, todo, iter, out, pc>>
-----------------------------------------------------------------------------
KindOf(variant) ==
  CASE variant \in {"FnDefn", "FnDecl", "LetDecl"} -> "Fn"
    [] variant \in {"StructDefn", "StructDecl"} -> "Struct"
    [] variant = "UnionDefn" -> "Union"
    [] variant \in {"Typedef", "OpaqueTypeDecl"} -> "Typedef"
    [] variant = "GlobalVar" -> "GlobalVar"
    [] OTHER -> "Include"

decl_name(d) == [kind |-> KindOf(d.variant), id |-> d.id]

MentionedAt(d, positions) ==
  {m.name : m \in {x \in d.mentions : x.pos \in positions}}

scan_type(d) == MentionedAt(d, {"type"})
scan_expr(d) == MentionedAt(d, {"call", "init"})
scan_inline_pulse_code(d) == MentionedAt(d, {"antiquot"})
scan_decl(d) == scan_type(d) \cup scan_expr(d) \cup scan_inline_pulse_code(d)

\* `deps.remove(n)`
Without(f, n) == [m \in DOMAIN f \ {n} |-> f[m]]

\* Mutant: a later declaration of a name replaces the dependencies of the
\* earlier ones (`insert` for `entry`).
ExtendReplaces(f, n, names) == [m \in DOMAIN f \cup {n} |-> IF m # n THEN f[m] ELSE names]

\* `deps.entry(n).or_default()`, then every scanned name is inserted
Extend(f, n, names) ==
  [m \in DOMAIN f \cup {n} |->
     IF m # n THEN f[m]
     ELSE (IF n \in DOMAIN f THEN f[n] ELSE {}) \cup names]
-----------------------------------------------------------------------------
Init ==
  /\ unit \in Units
  /\ i = 1
  /\ deps = [n \in {} |-> {}]
  /\ roots = {}
  /\ todo = << >>
  /\ iter = {}
  /\ out = << >>
  /\ pc = "scan"

ScanDecl ==
  /\ pc = "scan"
  /\ i <= Len(unit)
  /\ deps' = Extend(deps, decl_name(unit[i]), scan_decl(unit[i]))
  /\ i' = i + 1
  /\ UNCHANGED <<unit, roots, todo, iter, out, pc>>

\* Mutant: the second pass goes on with the first one's index.
EndScanKeepsIndex ==
  /\ pc = "scan"
  /\ i > Len(unit)
  /\ i' = i + 1
  /\ pc' = "roots"
  /\ UNCHANGED <<unit, deps, roots, todo, iter, out>>

EndScan ==
  /\ pc = "scan"
  /\ i > Len(unit)
  /\ i' = 1
  /\ pc' = "roots"
  /\ UNCHANGED <<unit, deps, roots, todo, iter, out>>

\* Mutant: every declaration is a root, headers' too.
AddRootOfAnyFile ==
  /\ pc = "roots"
  /\ i <= Len(unit)
  /\ roots' = roots \cup {decl_name(unit[i])}
  /\ i' = i + 1
  /\ UNCHANGED <<unit, deps, todo, iter, out, pc>>

AddRoot ==
  /\ pc = "roots"
  /\ i <= Len(unit)
  /\ roots' = IF unit[i].main THEN roots \cup {decl_name(unit[i])} ELSE roots
  /\ i' = i + 1
  /\ UNCHANGED <<unit, deps, todo, iter, out, pc>>

\* `for r in &self.roots`: the loop that fills the worklist begins.
EndRoots ==
  /\ pc = "roots"
  /\ i > Len(unit)
  /\ iter' = roots
  /\ pc' = "seed"
  /\ UNCHANGED <<unit, i, deps, roots, todo, out>>

\* Mutant: only one set waits at a time, a second one pushes the first out.
TakeDepsOverwrites(n) ==
  IF n \in DOMAIN deps
  THEN deps' = Without(deps, n) /\ todo' = <<deps[n]>>
  ELSE UNCHANGED <<deps, todo>>

\* `if let Some(t) = deps.remove(n) { todo.push(t) }`
TakeDeps(n) ==
  IF n \in DOMAIN deps
  THEN deps' = Without(deps, n) /\ todo' = Append(todo, deps[n])
  ELSE UNCHANGED <<deps, todo>>

Seed ==
  /\ pc = "seed"
  /\ \E r \in iter : TakeDeps(r) /\ iter' = iter \ {r}
  /\ UNCHANGED <<unit, i, roots, out, pc>>

EndSeed ==
  /\ pc = "seed"
  /\ iter = {}
  /\ pc' = "pop"
  /\ UNCHANGED <<unit, i, deps, roots, todo, iter, out>>

\* Mutant: the top of the stack is read and left there.
PopPeeks ==
  /\ pc = "pop"
  /\ todo # << >>
  /\ iter' = todo[Len(todo)]
  /\ pc' = "visit"
  /\ UNCHANGED <<unit, i, deps, roots, todo, out>>

Pop ==
  /\ pc = "pop"
  /\ todo # << >>
  /\ iter' = todo[Len(todo)]
  /\ todo' = SubSeq(todo, 1, Len(todo) - 1)
  /\ pc' = "visit"
  /\ UNCHANGED <<unit, i, deps, roots, out>>

Visit ==
  /\ pc = "visit"
  /\ \E n \in iter :
       /\ TakeDeps(n)
       /\ roots' = roots \cup {n}
       /\ iter' = iter \ {n}
  /\ UNCHANGED <<unit, i, out, pc>>

EndVisit ==
  /\ pc = "visit"
  /\ iter = {}
  /\ pc' = "pop"
  /\ UNCHANGED <<unit, i, deps, roots, todo, iter, out>>

\* `decls.retain(|d| deps.contains(decl_name(d)))`
Retained(decls, names) ==
  LET Contained(d) == decl_name(d) \in names IN SelectSeq(decls, Contained)

\* Mutant: one set is visited (`if let` for `while let`), the others are not.
RetainEarly ==
  /\ pc = "pop"
  /\ out' = Retained(unit, roots)
  /\ pc' = "done"
  /\ UNCHANGED <<unit, i, deps, roots, todo, iter>>

Retain ==
  /\ pc = "pop"
  /\ todo = << >>
  /\ out' = Retained(unit, roots)
  /\ pc' = "done"
  /\ UNCHANGED <<unit, i, deps, roots, todo, iter>>

Next == \/ ScanDecl \/ EndScan \/ AddRoot \/ EndRoots
        \/ Seed \/ EndSeed \/ Pop \/ Visit \/ EndVisit \/ Retain

\* prune is a function called once: it runs until it returns.
Spec == Init /\ [][Next]_vars /\ WF_vars(Next)
-----------------------------------------------------------------------------
\* The reference definition: the least set of names that holds the main
\* file's and, with a name, everything its declarations are scanned for.

MainNames == {decl_name(unit[j]) : j \in {k \in DOMAIN unit : unit[k].main}}
DependsOn(n) ==
  UNION {scan_decl(unit[j]) : j \in {k \in DOMAIN unit : decl_name(unit[k]) = n}}
Occurring ==
  {decl_name(unit[j]) : j \in DOMAIN unit} \cup UNION {scan_decl(unit[j]) : j \in DOMAIN unit}
IsClosed(S) == \A n \in S : DependsOn(n) \subseteq S
ClosedSets == {S \in SUBSET Occurring : MainNames \subseteq S /\ IsClosed(S)}
Needed == LET closedSets == ClosedSets IN {n \in Occurring : \A S \in closedSets : n \in S}

\* Every variable holds a value of its Rust type.
TypeOK ==
  /\ unit \in Units
  /\ i \in 1 .. Len(unit) + 1
  /\ DOMAIN deps \subseteq DeclName
  /\ \A n \in DOMAIN deps : deps[n] \subseteq DeclName
  /\ roots \subseteq DeclName
  /\ todo \in Seq(SUBSET DeclName)
  /\ iter \subseteq DeclName
  /\ pc # "done" => out = << >>
  /\ pc \in {"scan", "roots", "seed", "pop", "visit", "done"}

\* At no point is a name marked that the main file does not reach: prune
\* never keeps a header declaration nobody needs (prune.rs:30-46).
NothingExtra == roots \subseteq Needed

\* A dependency set taken out of the map is never lost: while the worklist
\* runs, whatever a marked name depends on is marked, or waits on the stack or
\* in the running loop (the `remove` before the `push`, prune.rs:33 and 39).
Waiting == iter \cup UNION {todo[j] : j \in DOMAIN todo}
NoDependencyLost ==
  pc \in {"pop", "visit", "done"} =>
    \A n \in roots : DependsOn(n) \subseteq roots \cup Waiting

\* On return the unit is exactly the needed declarations, in source order,
\* whatever the order in which the hash sets were iterated.
KeepsExactlyTheNeeded ==
  pc = "done" => out = Retained(unit, Needed)

\* The worklist runs dry, on cyclic dependencies (recursive structs, mutually
\* recursive functions) too.
Terminates == <>(pc = "done")

\* Pruning implements the abstract retention: until propagation starts, the
\* main file's names are what is kept.
Kept == IF pc \in {"scan", "roots"} THEN MainNames ELSE roots
Abstract == INSTANCE Retention WITH
  root <- MainNames,
  dependsOn <- [n \in Occurring |-> DependsOn(n)],
  kept <- Kept, closed <- (pc = "done")
RefinesRetention == Abstract!Spec
=============================================================================
