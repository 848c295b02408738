----------------------------- MODULE PruneProofs -----------------------------
(***************************************************************************)
(* Proofs about the prune pass, for every translation unit: it keeps       *)
(* exactly the declarations the main file needs, it implements Retention,  *)
(* and every step leaves it less to do.                                    *)
(***************************************************************************)
EXTENDS Prune, FiniteSetTheorems, SequenceTheorems, WellFoundedInduction, TLAPS

\* The names of declarations and the names they are scanned for are DeclNames.
LEMMA NameTypes ==
  ASSUME NEW d \in Decl
  PROVE  decl_name(d) \in DeclName /\ scan_decl(d) \subseteq DeclName
<1>1. decl_name(d) \in DeclName
  BY SMT DEF Decl, Variant, decl_name, KindOf, DeclName
<1>2. scan_decl(d) \subseteq DeclName
  BY Zenon DEF Decl, Mention, scan_decl, scan_type, scan_expr, scan_inline_pulse_code, MentionedAt
<1> QED  BY <1>1, <1>2

\* The variables a step hands on unchanged keep their types, and so do those
\* it assigns (the type invariant of Prune is inductive).
LEMMA TypeStep == TypeOK /\ [Next]_vars => TypeOK'
<1> SUFFICES ASSUME TypeOK, [Next]_vars PROVE TypeOK'
  OBVIOUS
<1> USE DEF TypeOK
<1>0. unit \in Seq(Decl) /\ Len(unit) \in Nat /\ \A j \in 1 .. Len(unit) : unit[j] \in Decl
  BY UnitsAssumption
<1>1. CASE ScanDecl
  <2>1. unit[i] \in Decl
    BY <1>0, <1>1 DEF ScanDecl
  <2>2. decl_name(unit[i]) \in DeclName /\ scan_decl(unit[i]) \subseteq DeclName
    BY <2>1, NameTypes
  <2>3. deps' = Extend(deps, decl_name(unit[i]), scan_decl(unit[i]))
    BY <1>1 DEF ScanDecl
  <2>4. DOMAIN deps' \subseteq DeclName /\ \A n \in DOMAIN deps' : deps'[n] \subseteq DeclName
    BY <2>2, <2>3 DEF Extend
  <2> QED  BY <1>0, <1>1, <2>4 DEF ScanDecl
<1>2. CASE EndScan
  BY <1>0, <1>2 DEF EndScan
<1>3. CASE AddRoot
  <2>1. decl_name(unit[i]) \in DeclName
    BY <1>0, <1>3, NameTypes DEF AddRoot
  <2> QED  BY <1>0, <1>3, <2>1 DEF AddRoot
<1>4. CASE EndRoots
  BY <1>4 DEF EndRoots
<1>5. ASSUME NEW n \in DeclName, TakeDeps(n)
      PROVE  /\ DOMAIN deps' \subseteq DeclName
             /\ \A m \in DOMAIN deps' : deps'[m] \subseteq DeclName
             /\ todo' \in Seq(SUBSET DeclName)
  BY <1>5, AppendProperties DEF TakeDeps, Without
<1>6. CASE Seed
  <2>1. PICK r \in iter : TakeDeps(r) /\ iter' = iter \ {r}
    BY <1>6 DEF Seed
  <2> QED  BY <1>5, <1>6, <2>1 DEF Seed
<1>7. CASE EndSeed
  BY <1>7 DEF EndSeed
<1>8. CASE Pop
  <2>1. todo[Len(todo)] \subseteq DeclName
    BY <1>8, EmptySeq DEF Pop
  <2>2. todo' \in Seq(SUBSET DeclName)
    BY <1>8, SubSeqProperties DEF Pop
  <2> QED  BY <1>8, <2>1, <2>2 DEF Pop
<1>9. CASE Visit
  <2>1. PICK n \in iter : TakeDeps(n) /\ roots' = roots \cup {n} /\ iter' = iter \ {n}
    BY <1>9 DEF Visit
  <2> QED  BY <1>5, <1>9, <2>1 DEF Visit
<1>10. CASE EndVisit
  BY <1>10 DEF EndVisit
<1>11. CASE Retain
  BY <1>11 DEF Retain
<1>12. CASE UNCHANGED vars
  BY <1>12 DEF vars
<1> QED
  BY <1>1, <1>2, <1>3, <1>4, <1>6, <1>7, <1>8, <1>9, <1>10, <1>11, <1>12 DEF Next

\* Every variable of the pass holds a value of its Rust type, for every unit.
THEOREM TypeCorrect == Spec => []TypeOK
<1>1. Init => TypeOK
  BY UnitsAssumption DEF Init, TypeOK
<1> QED  BY <1>1, TypeStep, PTL DEF Spec
-----------------------------------------------------------------------------
\* What the roots found so far depend on
Reached == UNION {DependsOn(n) : n \in roots}

\* The inductive invariant, in parts.  A name is marked, or about to be, only
\* if the main file declares it or a marked name depends on it ...
Justified ==
  /\ roots \subseteq Needed
  /\ \A n \in DOMAIN deps : deps[n] \subseteq DependsOn(n)
  /\ \A j \in DOMAIN todo : todo[j] \subseteq Reached
  /\ pc = "visit" => iter \subseteq Reached

\* ... the loops over tu.decls have treated the declarations before i, and the
\* running loop over a set is where pc says ...
Progress ==
  /\ pc \in {"scan", "roots"} => iter = {} /\ todo = << >>
  /\ pc \in {"scan", "roots", "seed"} => roots \subseteq MainNames
  /\ pc = "roots" => \A j \in 1 .. i - 1 : unit[j].main => decl_name(unit[j]) \in roots
  /\ pc \notin {"scan", "roots"} => MainNames \subseteq roots
  /\ pc = "seed" => iter \subseteq roots
  /\ pc \in {"pop", "done"} => iter = {}
  /\ pc = "done" => todo = << >> /\ out = Retained(unit, roots)

\* ... a scanned declaration's dependencies are in the map until they are
\* taken out, and then marked or waiting ...
Scanned(j) ==
  LET n == decl_name(unit[j])
  IN IF n \in DOMAIN deps THEN scan_decl(unit[j]) \subseteq deps[n]
     ELSE pc # "scan" /\ scan_decl(unit[j]) \subseteq roots \cup Waiting
NothingDropped == \A j \in 1 .. Len(unit) : (pc = "scan" => j < i) => Scanned(j)

\* ... and the dependencies of a marked name are taken out.
MarkedAreTaken ==
  /\ pc = "seed" => roots \cap DOMAIN deps \subseteq iter
  /\ pc \in {"pop", "visit", "done"} => roots \cap DOMAIN deps = {}

IInv == TypeOK /\ Justified /\ Progress /\ NothingDropped /\ MarkedAreTaken

\* What the main file declares is needed, and with a name all it depends on.
LEMMA NeededIsClosed ==
  ASSUME TypeOK
  PROVE  /\ MainNames \subseteq Needed
         /\ \A n \in Needed : DependsOn(n) \subseteq Needed
<1>1. MainNames \subseteq Occurring
  BY DEF MainNames, Occurring
<1>2. ASSUME NEW n PROVE DependsOn(n) \subseteq Occurring
  BY DEF DependsOn, Occurring
<1>3. MainNames \subseteq Needed
  BY <1>1 DEF Needed, ClosedSets
<1>4. ASSUME NEW n \in Needed PROVE DependsOn(n) \subseteq Needed
  BY <1>2 DEF Needed, ClosedSets, IsClosed
<1> QED  BY <1>3, <1>4

\* A closed set of needed names that holds the main file's is all of Needed.
LEMMA ClosedIsAll ==
  ASSUME NEW S, S \subseteq Needed, MainNames \subseteq S, IsClosed(S)
  PROVE  S = Needed
<1>1. S \in ClosedSets
  BY DEF ClosedSets, Needed
<1> QED  BY <1>1 DEF Needed

\* A declaration is scanned for part of what its name depends on.
LEMMA ScannedIsDependency ==
  ASSUME NEW j \in DOMAIN unit
  PROVE  scan_decl(unit[j]) \subseteq DependsOn(decl_name(unit[j]))
BY DEF DependsOn

\* Before the first step nothing is marked and nothing is scanned.
LEMMA IInvInit == Init => IInv
<1> SUFFICES ASSUME Init PROVE IInv
  OBVIOUS
<1>1. TypeOK
  BY UnitsAssumption DEF Init, TypeOK
<1>2. Justified
  BY DEF Init, Justified
<1>3. Progress /\ MarkedAreTaken
  BY DEF Init, Progress, MarkedAreTaken
<1>4. NothingDropped
  BY <1>1 DEF Init, NothingDropped, TypeOK
<1> QED  BY <1>1, <1>2, <1>3, <1>4 DEF IInv

\* Marking a name and taking its dependencies out, which Seed and Visit have
\* in common, leaves what was marked or waiting marked or waiting.
LEMMA MarkAndTake ==
  ASSUME IInv, NEW n \in iter, TakeDeps(n), n \in Needed,
         pc \in {"seed", "visit"}, UNCHANGED <<unit, pc>>,
         roots' = roots \cup {n}, iter' = iter \ {n}
  PROVE  /\ \A k \in DOMAIN todo' : todo'[k] \subseteq Reached'
         /\ \A m \in DOMAIN deps' : deps'[m] \subseteq DependsOn(m)'
         /\ Reached \subseteq Reached'
         /\ NothingDropped' /\ MarkedAreTaken'
<1> USE DEF IInv
<1>1. \A m : DependsOn(m)' = DependsOn(m)
  BY DEF DependsOn
<1>2. Reached \subseteq Reached' /\ DependsOn(n) \subseteq Reached'
  BY <1>1 DEF Reached
<1>3. \A m \in DOMAIN deps' : m \in DOMAIN deps /\ deps'[m] = deps[m]
  BY DEF TakeDeps, Without
<1>4. n \notin DOMAIN deps' /\ DOMAIN deps = DOMAIN deps' \cup (DOMAIN deps \cap {n})
  BY DEF TakeDeps, Without
<1>5. todo \in Seq(SUBSET DeclName)
  BY DEF TypeOK
<1>6. CASE n \in DOMAIN deps
  <2>1. todo' = Append(todo, deps[n]) /\ deps[n] \subseteq DependsOn(n)
    BY <1>6 DEF TakeDeps, Justified
  <2>2. deps[n] \in SUBSET DeclName
    BY <1>6 DEF TypeOK
  <2>3. /\ DOMAIN todo' = DOMAIN todo \cup {Len(todo) + 1}
        /\ \A k \in DOMAIN todo : todo'[k] = todo[k]
        /\ todo'[Len(todo) + 1] = deps[n]
    BY <1>5, <2>1, <2>2, AppendProperties
  <2>4. \A k \in DOMAIN todo' : todo'[k] \subseteq Reached'
    BY <1>2, <2>1, <2>3 DEF Justified
  <2>5. Waiting \subseteq Waiting' \cup roots' /\ deps[n] \subseteq Waiting'
    BY <2>3 DEF Waiting
  <2>6. NothingDropped'
    <3> SUFFICES ASSUME NEW j \in 1 .. Len(unit) PROVE Scanned(j)'
      BY DEF NothingDropped
    <3>1. Scanned(j)
      BY DEF NothingDropped
    <3> QED  BY <1>3, <1>4, <2>5, <3>1 DEF Scanned
  <2> QED  BY <1>1, <1>2, <1>3, <1>4, <2>4, <2>6 DEF Justified, MarkedAreTaken
<1>7. CASE n \notin DOMAIN deps
  <2>1. UNCHANGED <<deps, todo>>
    BY <1>7 DEF TakeDeps
  <2>2. Waiting \subseteq Waiting' \cup roots'
    BY <2>1 DEF Waiting
  <2>3. NothingDropped'
    BY <2>1, <2>2 DEF NothingDropped, Scanned
  <2> QED  BY <1>1, <1>2, <1>7, <2>1, <2>3 DEF Justified, MarkedAreTaken
<1> QED  BY <1>6, <1>7

\* Steps that leave the unit alone leave what is needed alone.
LEMMA UnitIsFixed ==
  ASSUME [Next]_vars
  PROVE  /\ unit' = unit
         /\ MainNames' = MainNames /\ Needed' = Needed
         /\ \A n : DependsOn(n)' = DependsOn(n)
<1>1. unit' = unit
  BY DEF Next, vars, ScanDecl, EndScan, AddRoot, EndRoots, Seed, EndSeed, Pop, Visit, EndVisit, Retain
<1> QED
  BY <1>1 DEF MainNames, Needed, ClosedSets, Occurring, DependsOn, IsClosed

\* Every step keeps the invariant.
LEMMA IInvStep == IInv /\ [Next]_vars => IInv'
<1> SUFFICES ASSUME IInv, [Next]_vars PROVE IInv'
  OBVIOUS
<1>0. TypeOK /\ TypeOK'
  BY TypeStep DEF IInv
<1> USE UnitIsFixed
<1>t. unit \in Seq(Decl) /\ Len(unit) \in Nat /\ DOMAIN unit = 1 .. Len(unit) /\ i \in Nat \ {0}
  BY <1>0, UnitsAssumption DEF TypeOK
<1>1. CASE ScanDecl
  <2> DEFINE n == decl_name(unit[i])
  <2>1. /\ pc = "scan" /\ pc' = "scan" /\ i <= Len(unit) /\ i' = i + 1
        /\ deps' = Extend(deps, n, scan_decl(unit[i]))
        /\ UNCHANGED <<roots, todo, iter, out>>
    BY <1>1 DEF ScanDecl
  <2>2. scan_decl(unit[i]) \subseteq DependsOn(n)
    BY <1>t, <2>1, ScannedIsDependency
  <2>3. Justified'
    BY <2>1, <2>2 DEF IInv, Justified, Progress, Extend, Reached
  <2>4. Progress' /\ MarkedAreTaken'
    BY <2>1 DEF IInv, Progress, MarkedAreTaken
  <2>5. NothingDropped'
    <3> SUFFICES ASSUME NEW j \in 1 .. Len(unit), j < i + 1 PROVE Scanned(j)'
      BY <2>1 DEF NothingDropped
    <3>1. CASE j = i
      BY <2>1, <3>1 DEF Scanned, Extend
    <3>2. CASE j < i
      <4>1. Scanned(j)
        BY <2>1, <3>2 DEF IInv, NothingDropped
      <4> QED  BY <2>1, <4>1 DEF Scanned, Extend
    <3> QED  BY <1>t, <3>1, <3>2
  <2> QED  BY <1>0, <2>3, <2>4, <2>5 DEF IInv
<1>2. CASE EndScan
  <2>1. /\ pc = "scan" /\ pc' = "roots" /\ i > Len(unit) /\ i' = 1
        /\ UNCHANGED <<deps, roots, todo, iter, out>>
    BY <1>2 DEF EndScan
  <2>2. Justified' /\ Progress' /\ MarkedAreTaken'
    BY <2>1 DEF IInv, Justified, Progress, MarkedAreTaken, Reached
  <2>3. NothingDropped'
    BY <1>t, <2>1 DEF IInv, NothingDropped, Scanned
  <2> QED  BY <1>0, <2>2, <2>3 DEF IInv
<1>3. CASE AddRoot
  <2>1. /\ pc = "roots" /\ pc' = "roots" /\ i <= Len(unit) /\ i' = i + 1
        /\ roots' = IF unit[i].main THEN roots \cup {decl_name(unit[i])} ELSE roots
        /\ UNCHANGED <<deps, todo, iter, out>>
    BY <1>3 DEF AddRoot
  <2>2. roots \subseteq roots' /\ roots' \subseteq MainNames
    BY <1>t, <2>1 DEF IInv, Progress, MainNames
  <2>3. Justified'
    BY <1>0, <2>1, <2>2, NeededIsClosed, EmptySeq DEF IInv, Justified, Progress, Reached
  <2>4. Progress' /\ MarkedAreTaken'
    BY <1>t, <2>1, <2>2 DEF IInv, Progress, MarkedAreTaken
  <2>5. NothingDropped'
    BY <2>1, <2>2 DEF IInv, NothingDropped, Scanned, Waiting
  <2> QED  BY <1>0, <2>3, <2>4, <2>5 DEF IInv
<1>4. CASE EndRoots
  <2>1. /\ pc = "roots" /\ pc' = "seed" /\ i > Len(unit) /\ iter' = roots
        /\ UNCHANGED <<i, deps, roots, todo, out>>
    BY <1>4 DEF EndRoots
  <2>2. MainNames \subseteq roots
    BY <1>t, <2>1 DEF IInv, Progress, MainNames
  <2>3. Justified' /\ Progress' /\ MarkedAreTaken'
    BY <2>1, <2>2 DEF IInv, Justified, Progress, MarkedAreTaken, Reached
  <2>4. NothingDropped'
    BY <2>1 DEF IInv, NothingDropped, Scanned, Waiting, Progress
  <2> QED  BY <1>0, <2>3, <2>4 DEF IInv
<1>5. CASE Seed
  <2>1. PICK r \in iter : TakeDeps(r) /\ iter' = iter \ {r}
    BY <1>5 DEF Seed
  <2>2. /\ pc = "seed" /\ pc' = "seed" /\ UNCHANGED <<i, roots, out>>
    BY <1>5 DEF Seed
  <2>3. r \in roots /\ r \in Needed /\ roots' = roots \cup {r}
    BY <2>1, <2>2 DEF IInv, Progress, Justified
  <2>4. /\ \A k \in DOMAIN todo' : todo'[k] \subseteq Reached'
        /\ \A m \in DOMAIN deps' : deps'[m] \subseteq DependsOn(m)'
        /\ NothingDropped' /\ MarkedAreTaken'
    BY <2>1, <2>2, <2>3, MarkAndTake
  <2>5. Justified'
    BY <2>2, <2>4 DEF IInv, Justified
  <2>6. Progress'
    BY <2>1, <2>2 DEF IInv, Progress
  <2> QED  BY <1>0, <2>4, <2>5, <2>6 DEF IInv
<1>6. CASE EndSeed
  <2>1. /\ pc = "seed" /\ pc' = "pop" /\ iter = {}
        /\ UNCHANGED <<i, deps, roots, todo, iter, out>>
    BY <1>6 DEF EndSeed
  <2>2. Justified' /\ Progress' /\ MarkedAreTaken'
    BY <2>1 DEF IInv, Justified, Progress, MarkedAreTaken, Reached
  <2>3. NothingDropped'
    BY <2>1 DEF IInv, NothingDropped, Scanned, Waiting
  <2> QED  BY <1>0, <2>2, <2>3 DEF IInv
<1>7. CASE Pop
  <2> DEFINE last == Len(todo)
  <2>1. /\ pc = "pop" /\ pc' = "visit" /\ todo # << >>
        /\ iter' = todo[last] /\ todo' = SubSeq(todo, 1, last - 1)
        /\ UNCHANGED <<i, deps, roots, out>>
    BY <1>7 DEF Pop
  <2>2. todo \in Seq(SUBSET DeclName) /\ last \in Nat \ {0} /\ DOMAIN todo = 1 .. last
    BY <1>0, <2>1, EmptySeq DEF TypeOK
  <2>3. /\ DOMAIN todo' = 1 .. last - 1
        /\ \A k \in 1 .. last - 1 : todo'[k] = todo[k]
    BY <2>1, <2>2
  <2>4. Justified'
    BY <2>1, <2>2, <2>3 DEF IInv, Justified, Reached
  <2>5. Progress' /\ MarkedAreTaken'
    BY <2>1 DEF IInv, Progress, MarkedAreTaken
  <2>6. Waiting \subseteq Waiting'
    <3>1. iter = {}
      BY <2>1 DEF IInv, Progress
    <3>2. \A k \in DOMAIN todo : k \in 1 .. last - 1 \/ k = last
      BY <2>2
    <3> QED  BY <2>1, <2>3, <3>1, <3>2 DEF Waiting
  <2>7. NothingDropped'
    BY <2>1, <2>6 DEF IInv, NothingDropped, Scanned
  <2> QED  BY <1>0, <2>4, <2>5, <2>7 DEF IInv
<1>8. CASE Visit
  <2>1. PICK n \in iter : TakeDeps(n) /\ roots' = roots \cup {n} /\ iter' = iter \ {n}
    BY <1>8 DEF Visit
  <2>2. /\ pc = "visit" /\ pc' = "visit" /\ UNCHANGED <<i, out>>
    BY <1>8 DEF Visit
  <2>3. iter \subseteq Reached
    BY <2>2 DEF IInv, Justified
  <2>4. n \in Needed
    BY <1>0, <2>1, <2>3, NeededIsClosed DEF IInv, Justified, Reached
  <2>5. /\ \A k \in DOMAIN todo' : todo'[k] \subseteq Reached'
        /\ \A m \in DOMAIN deps' : deps'[m] \subseteq DependsOn(m)'
        /\ Reached \subseteq Reached'
        /\ NothingDropped' /\ MarkedAreTaken'
    BY <2>1, <2>2, <2>4, MarkAndTake
  <2>6. Justified'
    BY <2>1, <2>3, <2>4, <2>5 DEF IInv, Justified
  <2>7. Progress'
    BY <2>1, <2>2 DEF IInv, Progress
  <2> QED  BY <1>0, <2>5, <2>6, <2>7 DEF IInv
<1>9. CASE EndVisit
  <2>1. /\ pc = "visit" /\ pc' = "pop" /\ iter = {}
        /\ UNCHANGED <<i, deps, roots, todo, iter, out>>
    BY <1>9 DEF EndVisit
  <2>2. Justified' /\ Progress' /\ MarkedAreTaken'
    BY <2>1 DEF IInv, Justified, Progress, MarkedAreTaken, Reached
  <2>3. NothingDropped'
    BY <2>1 DEF IInv, NothingDropped, Scanned, Waiting
  <2> QED  BY <1>0, <2>2, <2>3 DEF IInv
<1>10. CASE Retain
  <2>1. /\ pc = "pop" /\ pc' = "done" /\ todo = << >> /\ out' = Retained(unit, roots)
        /\ UNCHANGED <<i, deps, roots, todo, iter>>
    BY <1>10 DEF Retain
  <2>2. Justified' /\ Progress' /\ MarkedAreTaken'
    BY <2>1 DEF IInv, Justified, Progress, MarkedAreTaken, Reached
  <2>3. NothingDropped'
    BY <2>1 DEF IInv, NothingDropped, Scanned, Waiting
  <2> QED  BY <1>0, <2>2, <2>3 DEF IInv
<1>11. CASE UNCHANGED vars
  <2>1. Justified' /\ Progress' /\ MarkedAreTaken' /\ NothingDropped'
    BY SMTT(30), <1>11 DEF vars, IInv, Justified, Progress, MarkedAreTaken, NothingDropped,
                 Scanned, Waiting, Reached
  <2> QED  BY <1>0, <2>1 DEF IInv
<1> QED
  BY <1>1, <1>2, <1>3, <1>4, <1>5, <1>6, <1>7, <1>8, <1>9, <1>10, <1>11 DEF Next

\* In every reachable state: marked names are justified, and nothing scanned
\* is forgotten.
THEOREM Invariance == Spec => []IInv
BY IInvInit, IInvStep, PTL DEF Spec

\* A name is marked only if the main file reaches it: prune never keeps a
\* header declaration nobody needs (prune.rs:30-46).
THEOREM NothingExtraHolds == Spec => []NothingExtra
<1>1. IInv => NothingExtra
  BY DEF IInv, Justified, NothingExtra
<1> QED  BY <1>1, Invariance, PTL

\* Whatever is removed from the map is marked or waits, in any iteration order
\* (prune.rs:33 and 39).
LEMMA NoDependencyIsLost == IInv => NoDependencyLost
<1> SUFFICES ASSUME IInv, pc \in {"pop", "visit", "done"}, NEW n \in roots
             PROVE  DependsOn(n) \subseteq roots \cup Waiting
  BY DEF NoDependencyLost
<1>1. n \notin DOMAIN deps
  BY DEF IInv, MarkedAreTaken
<1>2. DOMAIN unit = 1 .. Len(unit)
  BY UnitsAssumption DEF IInv, TypeOK
<1>3. ASSUME NEW j \in DOMAIN unit, decl_name(unit[j]) = n
      PROVE  scan_decl(unit[j]) \subseteq roots \cup Waiting
  BY <1>1, <1>2, <1>3 DEF IInv, NothingDropped, Scanned
<1> QED  BY <1>3 DEF DependsOn

\* In every reachable state: what a kept declaration depends on is kept, in
\* whatever order the closure visits the names (prune.rs:30-46).
THEOREM NoDependencyLostHolds == Spec => []NoDependencyLost
BY NoDependencyIsLost, Invariance, PTL

\* With the worklist empty, the marked names are closed, so they are all that
\* is needed.
LEMMA RootsAreAllNeeded ==
  ASSUME IInv, pc \in {"pop", "done"}, todo = << >>
  PROVE  IsClosed(roots) /\ roots = Needed
<1>1. Waiting = {}
  BY DEF IInv, Progress, Waiting
<1>2. IsClosed(roots)
  BY <1>1, NoDependencyIsLost DEF NoDependencyLost, IsClosed
<1>3. roots \subseteq Needed /\ MainNames \subseteq roots
  BY DEF IInv, Justified, Progress
<1> QED  BY <1>2, <1>3, ClosedIsAll

\* On return the unit is exactly the needed declarations, in source order.
THEOREM KeepsExactlyTheNeededHolds == Spec => []KeepsExactlyTheNeeded
<1>1. IInv => KeepsExactlyTheNeeded
  BY RootsAreAllNeeded DEF IInv, Progress, KeepsExactlyTheNeeded
<1> QED  BY <1>1, Invariance, PTL
-----------------------------------------------------------------------------
\* What a marked name depends on and is not marked yet is what Retention calls
\* missing.
LEMMA MissingNames ==
  ASSUME TypeOK, pc \notin {"scan", "roots"}, roots \subseteq Needed
  PROVE  Abstract!Missing = Reached \ roots
<1>1. roots \subseteq Occurring
  BY DEF Needed
<1>2. Kept = roots
  BY DEF Kept
<1>3. \A m \in roots : [n \in Occurring |-> DependsOn(n)][m] = DependsOn(m)
  BY <1>1
<1>4. UNION {[n \in Occurring |-> DependsOn(n)][m] : m \in roots} = Reached
  BY <1>3 DEF Reached
<1> QED  BY <1>2, <1>4 DEF Abstract!Missing

\* A step of the worklist that marks a name keeps a missing one; the final
\* retain is the step that closes; every other step is invisible.
LEMMA StepRefines ==
  ASSUME IInv, IInv', [Next]_vars
  PROVE  [Abstract!Next]_(Abstract!retentionVars)
<1> USE UnitIsFixed
<1>0. UNCHANGED <<MainNames, [n \in Occurring |-> DependsOn(n)]>>
  BY DEF Occurring
<1>1. ASSUME UNCHANGED <<Kept, pc = "done">> PROVE UNCHANGED Abstract!retentionVars
  BY <1>0, <1>1 DEF Abstract!retentionVars
<1>2. CASE ScanDecl \/ EndScan \/ AddRoot
  BY <1>1, <1>2 DEF ScanDecl, EndScan, AddRoot, Kept
<1>3. CASE EndRoots
  <2>1. Kept = MainNames /\ Kept' = roots
    BY <1>3 DEF EndRoots, Kept
  <2>2. roots = MainNames
    BY <1>3 DEF EndRoots, IInv, Progress
  <2> QED  BY <1>1, <1>3, <2>1, <2>2 DEF EndRoots
<1>4. CASE Seed \/ EndSeed \/ Pop \/ EndVisit \/ UNCHANGED vars
  BY <1>1, <1>4 DEF Seed, EndSeed, Pop, EndVisit, Kept, vars
<1>5. CASE Visit
  <2>1. PICK n \in iter : roots' = roots \cup {n}
    BY <1>5 DEF Visit
  <2>2. pc = "visit" /\ pc' = "visit" /\ Kept = roots /\ Kept' = roots'
    BY <1>5 DEF Visit, Kept
  <2>3. CASE n \in roots
    BY <1>1, <2>1, <2>2, <2>3
  <2>4. CASE n \notin roots
    <3>1. n \in Abstract!Missing
      BY <2>1, <2>2, <2>4, MissingNames DEF IInv, Justified
    <3>2. Abstract!Keep
      BY <1>0, <2>1, <2>2, <3>1 DEF Abstract!Keep
    <3> QED  BY <3>2 DEF Abstract!Next
  <2> QED  BY <2>3, <2>4
<1>6. CASE Retain
  <2>1. /\ pc = "pop" /\ pc' = "done" /\ todo = << >> /\ roots' = roots
        /\ Kept' = Kept
    BY <1>6 DEF Retain, Kept
  <2>2. Abstract!Missing = {}
    BY <2>1, MissingNames, RootsAreAllNeeded DEF IInv, Justified, Reached, IsClosed
  <2>3. Abstract!Close
    BY <1>0, <2>1, <2>2 DEF Abstract!Close
  <2> QED  BY <2>3 DEF Abstract!Next
<1> QED  BY <1>2, <1>3, <1>4, <1>5, <1>6 DEF Next

\* Pruning implements Retention, its fairness apart: initial states map to
\* initial states, and every step to a step or to a stutter.
THEOREM ImplementsRetention ==
  Spec => Abstract!Init /\ [][Abstract!Next]_(Abstract!retentionVars)
<1>1. Init => Abstract!Init
  BY DEF Init, Abstract!Init, Kept
<1>2. IInv /\ IInv' /\ [Next]_vars => [Abstract!Next]_(Abstract!retentionVars)
  BY StepRefines
<1> QED  BY <1>1, <1>2, Invariance, PTL DEF Spec
-----------------------------------------------------------------------------
(***************************************************************************)
(* The worklist runs dry.  A step goes on to a later phase, or takes a set *)
(* from the stack: with the map, the stack holds fewer sets than before,   *)
(* since a set is put there only by taking it out of the map.  Otherwise   *)
(* it ends a loop over a set, or yields one of its names.                  *)
(***************************************************************************)
Phase ==
  CASE pc = "scan" -> 4 [] pc = "roots" -> 3 [] pc = "seed" -> 2
    [] pc \in {"pop", "visit"} -> 1 [] OTHER -> 0
SetsLeft == IF pc \in {"pop", "visit"} THEN Cardinality(DOMAIN deps) + Len(todo) ELSE 0
InLoop == IF pc = "visit" THEN 1 ELSE 0
LeftInLoop == IF pc \in {"scan", "roots"} THEN Len(unit) + 1 - i ELSE Cardinality(iter)

StillToDo == [k \in 1 .. 4 |-> CASE k = 1 -> Phase [] k = 2 -> SetsLeft
                                 [] k = 3 -> InLoop [] OTHER -> LeftInLoop]

\* The lexicographic order of four numbers: every descent in it ends.
Order == LexProductOrdering(OpToRel(<, Nat), Nat, 4)
LEMMA DescentEnds == IsWellFoundedOn(Order, [1 .. 4 -> Nat])
BY NatLessThanWellFounded, WFLexProductOrdering DEF Order

\* In this order a list of numbers comes before another one if it is less where
\* they first differ.
LEMMA Descends ==
  ASSUME NEW v \in [1 .. 4 -> Nat], NEW w \in [1 .. 4 -> Nat],
         NEW j \in 1 .. 4, \A k \in 1 .. j - 1 : v[k] = w[k], v[j] < w[j]
  PROVE  <<v, w>> \in Order
<1>1. <<v[j], w[j]>> \in OpToRel(<, Nat)
  BY Zenon DEF OpToRel
<1> QED  BY <1>1 DEF Order, LexProductOrdering

\* What a hash set holds is finite.
UnitsAreFinite == \A u \in Units : \A k \in DOMAIN u : IsFiniteSet(u[k].mentions)

FiniteInv ==
  /\ IsFiniteSet(DOMAIN deps)
  /\ \A n \in DOMAIN deps : IsFiniteSet(deps[n])
  /\ IsFiniteSet(roots)
  /\ \A k \in DOMAIN todo : IsFiniteSet(todo[k])
  /\ IsFiniteSet(iter)

\* A declaration is scanned for finitely many names.
LEMMA FewMentioned ==
  ASSUME NEW d, IsFiniteSet(d.mentions), NEW positions
  PROVE  IsFiniteSet(MentionedAt(d, positions))
<1> DEFINE S == {x \in d.mentions : x.pos \in positions}
           f == [m \in S |-> m.name]
           T == {m.name : m \in S}
<1>1. IsFiniteSet(S)
  BY FS_Subset
<1>2. f \in Surjection(S, T)
  BY DEF Surjection
<1>3. IsFiniteSet(T)
  <2> HIDE DEF S, T, f
  <2> QED  BY <1>1, <1>2, FS_Surjection
<1> QED  BY <1>3 DEF MentionedAt

\* The three scans together find finitely many names.
LEMMA FewScanned ==
  ASSUME NEW d, IsFiniteSet(d.mentions)
  PROVE  IsFiniteSet(scan_decl(d))
<1>1. /\ IsFiniteSet(scan_type(d)) /\ IsFiniteSet(scan_expr(d))
      /\ IsFiniteSet(scan_inline_pulse_code(d))
  BY FewMentioned DEF scan_type, scan_expr, scan_inline_pulse_code
<1> QED  BY <1>1, FS_Union DEF scan_decl

\* Taking the dependencies of a name moves a set from the map to the stack.
LEMMA TakeMoves ==
  ASSUME TypeOK, FiniteInv, NEW n, TakeDeps(n)
  PROVE  /\ IsFiniteSet(DOMAIN deps')
         /\ \A m \in DOMAIN deps' : IsFiniteSet(deps'[m])
         /\ \A k \in DOMAIN todo' : IsFiniteSet(todo'[k])
         /\ Cardinality(DOMAIN deps') + Len(todo') = Cardinality(DOMAIN deps) + Len(todo)
<1>1. /\ IsFiniteSet(DOMAIN deps) /\ Cardinality(DOMAIN deps) \in Nat
      /\ todo \in Seq(SUBSET DeclName) /\ Len(todo) \in Nat
  BY FS_CardinalityType DEF TypeOK, FiniteInv
<1>2. CASE n \notin DOMAIN deps
  BY <1>2 DEF TakeDeps, FiniteInv
<1>3. CASE n \in DOMAIN deps
  <2>1. /\ DOMAIN deps' = DOMAIN deps \ {n} /\ \A m \in DOMAIN deps' : deps'[m] = deps[m]
        /\ todo' = Append(todo, deps[n])
    BY <1>3 DEF TakeDeps, Without
  <2>2. /\ IsFiniteSet(DOMAIN deps \ {n})
        /\ Cardinality(DOMAIN deps \ {n}) = Cardinality(DOMAIN deps) - 1
    BY <1>1, <1>3, FS_RemoveElement
  <2>3. deps[n] \in SUBSET DeclName
    BY <1>3 DEF TypeOK
  <2>4. /\ Len(todo') = Len(todo) + 1 /\ todo'[Len(todo) + 1] = deps[n]
        /\ \A k \in 1 .. Len(todo) : todo'[k] = todo[k]
        /\ DOMAIN todo' = 1 .. Len(todo) + 1 /\ DOMAIN todo = 1 .. Len(todo)
    BY <1>1, <2>1, <2>3, AppendProperties
  <2>5. \A k \in 1 .. Len(todo) + 1 : k \in 1 .. Len(todo) \/ k = Len(todo) + 1
    BY <1>1
  <2>6. \A k \in DOMAIN todo' : IsFiniteSet(todo'[k])
    BY <1>3, <2>4, <2>5 DEF FiniteInv
  <2>7. Cardinality(DOMAIN deps') + Len(todo') = Cardinality(DOMAIN deps) + Len(todo)
    BY <1>1, <2>1, <2>2, <2>4
  <2> QED  BY <2>1, <2>2, <2>6, <2>7 DEF FiniteInv
<1> QED  BY <1>2, <1>3

\* A stack without its top.
LEMMA Shorter ==
  ASSUME NEW S, NEW s \in Seq(S), Len(s) \in Nat \ {0}
  PROVE  /\ Len(SubSeq(s, 1, Len(s) - 1)) = Len(s) - 1
         /\ DOMAIN SubSeq(s, 1, Len(s) - 1) = 1 .. Len(s) - 1
         /\ \A k \in 1 .. Len(s) - 1 : SubSeq(s, 1, Len(s) - 1)[k] = s[k]
<1>1. 1 \in Int /\ Len(s) - 1 \in Int /\ \A k \in 1 .. Len(s) - 1 : s[k] \in S
  OBVIOUS
<1>2. /\ SubSeq(s, 1, Len(s) - 1) \in Seq(S)
      /\ Len(SubSeq(s, 1, Len(s) - 1)) = IF 1 <= Len(s) - 1 THEN (Len(s) - 1) - 1 + 1 ELSE 0
      /\ \A k \in 1 .. (Len(s) - 1) - 1 + 1 : SubSeq(s, 1, Len(s) - 1)[k] = s[1 + k - 1]
  BY <1>1, SubSeqProperties
<1>3. Len(s) - 1 = (Len(s) - 1) - 1 + 1 /\ \A k \in Int : 1 + k - 1 = k
  OBVIOUS
<1>4. Len(SubSeq(s, 1, Len(s) - 1)) = Len(s) - 1
  <2>1. \A n \in Nat \ {0} : (IF 1 <= n - 1 THEN (n - 1) - 1 + 1 ELSE 0) = n - 1
    OBVIOUS
  <2> QED  BY <1>2, <2>1
<1> QED  BY <1>2, <1>3, <1>4

\* The sets stay finite.
LEMMA FiniteStep ==
  ASSUME UnitsAreFinite, TypeOK, FiniteInv, [Next]_vars
  PROVE  FiniteInv'
<1>1. CASE ScanDecl
  <2>1. unit \in Seq(Decl) /\ unit \in Units /\ i \in 1 .. Len(unit)
    BY <1>1, UnitsAssumption DEF ScanDecl, TypeOK
  <2>2. IsFiniteSet(scan_decl(unit[i]))
    BY <2>1, FewScanned DEF UnitsAreFinite
  <2> DEFINE name == decl_name(unit[i])
             names == scan_decl(unit[i])
  <2>3. deps' = Extend(deps, name, names) /\ UNCHANGED <<roots, todo, iter>>
    BY <1>1 DEF ScanDecl
  <2> HIDE DEF name, names
  <2>4. /\ DOMAIN deps' = DOMAIN deps \cup {name}
        /\ \A m \in DOMAIN deps' :
             deps'[m] = IF m # name THEN deps[m]
                        ELSE (IF name \in DOMAIN deps THEN deps[name] ELSE {}) \cup names
    BY <2>3 DEF Extend
  <2>5. IsFiniteSet(DOMAIN deps')
    BY <2>4, FS_AddElement DEF FiniteInv
  <2>6. IsFiniteSet(names) /\ IsFiniteSet({})
    BY <2>2, FS_EmptySet DEF names
  <2>7. ASSUME NEW m \in DOMAIN deps' PROVE IsFiniteSet(deps'[m])
    <3>1. CASE m # name
      BY <2>4, <3>1 DEF FiniteInv
    <3>2. CASE m = name /\ name \in DOMAIN deps
      <4>1. deps'[m] = deps[name] \cup names /\ IsFiniteSet(deps[name])
        BY <2>4, <3>2 DEF FiniteInv
      <4> QED  BY <2>6, <4>1, FS_Union
    <3>3. CASE m = name /\ name \notin DOMAIN deps
      BY <2>4, <2>6, <3>3
    <3> QED  BY <3>1, <3>2, <3>3
  <2> QED  BY <2>3, <2>5, <2>7 DEF FiniteInv
<1>2. CASE EndScan \/ EndSeed \/ EndVisit \/ Retain \/ UNCHANGED vars
  BY <1>2 DEF EndScan, EndSeed, EndVisit, Retain, vars, FiniteInv
<1>3. CASE AddRoot
  BY <1>3, FS_AddElement DEF AddRoot, FiniteInv
<1>4. CASE EndRoots
  BY <1>4 DEF EndRoots, FiniteInv
<1>5. CASE Seed
  <2>1. PICK r \in iter : TakeDeps(r) /\ iter' = iter \ {r}
    BY <1>5 DEF Seed
  <2> QED  BY <1>5, <2>1, TakeMoves, FS_RemoveElement DEF Seed, FiniteInv
<1>6. CASE Pop
  <2>1. /\ todo \in Seq(SUBSET DeclName) /\ Len(todo) \in Nat \ {0}
        /\ iter' = todo[Len(todo)] /\ todo' = SubSeq(todo, 1, Len(todo) - 1)
        /\ UNCHANGED <<deps, roots>>
    BY <1>6, EmptySeq DEF Pop, TypeOK
  <2>2. DOMAIN todo' = 1 .. Len(todo) - 1 /\ \A k \in 1 .. Len(todo) - 1 : todo'[k] = todo[k]
    BY <2>1, Shorter
  <2>3. \A k \in 1 .. Len(todo) : IsFiniteSet(todo[k])
    BY <2>1 DEF FiniteInv
  <2>4. Len(todo) \in 1 .. Len(todo) /\ \A k \in 1 .. Len(todo) - 1 : k \in 1 .. Len(todo)
    BY <2>1
  <2> QED  BY <2>1, <2>2, <2>3, <2>4 DEF FiniteInv
<1>7. CASE Visit
  <2>1. PICK n \in iter : TakeDeps(n) /\ roots' = roots \cup {n} /\ iter' = iter \ {n}
    BY <1>7 DEF Visit
  <2> QED  BY <2>1, TakeMoves, FS_AddElement, FS_RemoveElement DEF FiniteInv
<1> QED  BY <1>1, <1>2, <1>3, <1>4, <1>5, <1>6, <1>7 DEF Next

FourNumbers == StillToDo \in [1 .. 4 -> Nat]

\* What is still to do is four numbers.
LEMMA StillToDoType ==
  ASSUME TypeOK, FiniteInv
  PROVE  FourNumbers
<1>1. /\ Cardinality(DOMAIN deps) \in Nat /\ Cardinality(iter) \in Nat /\ Len(todo) \in Nat
  BY FS_CardinalityType DEF FiniteInv, TypeOK
<1>2. Len(unit) \in Nat /\ i \in 1 .. Len(unit) + 1
  BY UnitsAssumption DEF TypeOK
<1>3. Phase \in Nat /\ SetsLeft \in Nat /\ InLoop \in Nat
  BY <1>1 DEF Phase, SetsLeft, InLoop
<1>4. LeftInLoop \in Nat
  BY <1>1, <1>2 DEF LeftInLoop
<1> HIDE DEF Phase, SetsLeft, InLoop, LeftInLoop
<1> QED  BY <1>3, <1>4 DEF StillToDo, FourNumbers

\* What is left to do gets less.
Lessens == <<StillToDo', StillToDo>> \in Order

\* Every step leaves less to do.
LEMMA StepLessens ==
  ASSUME TypeOK, FiniteInv, FourNumbers, FourNumbers', Next
  PROVE  Lessens
<1>1. /\ StillToDo[1] = Phase /\ StillToDo[2] = SetsLeft
      /\ StillToDo[3] = InLoop /\ StillToDo[4] = LeftInLoop
      /\ StillToDo'[1] = Phase' /\ StillToDo'[2] = SetsLeft'
      /\ StillToDo'[3] = InLoop' /\ StillToDo'[4] = LeftInLoop'
  BY DEF StillToDo
<1>2. SUFFICES \/ Phase' < Phase
               \/ Phase' = Phase /\ SetsLeft' < SetsLeft
               \/ Phase' = Phase /\ SetsLeft' = SetsLeft /\ InLoop' < InLoop
               \/ /\ Phase' = Phase /\ SetsLeft' = SetsLeft /\ InLoop' = InLoop
                  /\ LeftInLoop' < LeftInLoop
  <2> DEFINE v == StillToDo'
             w == StillToDo
  <2>1. \/ v[1] < w[1]
        \/ v[1] = w[1] /\ v[2] < w[2]
        \/ v[1] = w[1] /\ v[2] = w[2] /\ v[3] < w[3]
        \/ v[1] = w[1] /\ v[2] = w[2] /\ v[3] = w[3] /\ v[4] < w[4]
    BY <1>1, <1>2
  <2> HIDE DEF v, w
  <2>2. PICK j \in 1 .. 4 : v[j] < w[j] /\ \A k \in 1 .. j - 1 : v[k] = w[k]
    <3>1. CASE v[1] < w[1]
      BY <3>1
    <3>2. CASE v[1] = w[1] /\ v[2] < w[2]
      BY <3>2
    <3>3. CASE v[1] = w[1] /\ v[2] = w[2] /\ v[3] < w[3]
      BY <3>3
    <3>4. CASE v[1] = w[1] /\ v[2] = w[2] /\ v[3] = w[3] /\ v[4] < w[4]
      BY <3>4
    <3> QED  BY <2>1, <3>1, <3>2, <3>3, <3>4
  <2>3. v \in [1 .. 4 -> Nat] /\ w \in [1 .. 4 -> Nat]
    BY DEF v, w, FourNumbers
  <2> QED  BY <2>2, <2>3, Descends DEF v, w, Lessens
<1>3. Len(unit) \in Nat /\ i \in 1 .. Len(unit) + 1 /\ unit' = unit
  BY UnitsAssumption, UnitIsFixed DEF TypeOK
<1>4. ASSUME NEW n \in iter, iter' = iter \ {n} PROVE Cardinality(iter') < Cardinality(iter)
  <2>1. Cardinality(iter) \in Nat /\ Cardinality(iter') = Cardinality(iter) - 1
    BY <1>4, FS_RemoveElement, FS_CardinalityType DEF FiniteInv
  <2> QED  BY <2>1
<1>5. CASE ScanDecl \/ AddRoot
  <2>1. /\ pc' = pc /\ pc \in {"scan", "roots"}
        /\ i' = i + 1 /\ i <= Len(unit) /\ unit' = unit
    BY <1>5 DEF ScanDecl, AddRoot
  <2>2. Len(unit) + 1 - (i + 1) < Len(unit) + 1 - i
    BY <1>3
  <2>3. Phase' = Phase /\ SetsLeft' = SetsLeft /\ InLoop' = InLoop
    BY <2>1 DEF Phase, SetsLeft, InLoop
  <2>4. LeftInLoop' < LeftInLoop
    BY <2>1, <2>2 DEF LeftInLoop
  <2> QED  BY <2>3, <2>4
<1>6. CASE EndScan \/ EndRoots \/ EndSeed \/ Retain
  BY <1>6 DEF EndScan, EndRoots, EndSeed, Retain, Phase
<1>7. CASE Seed
  <2>1. PICK r \in iter : TakeDeps(r) /\ iter' = iter \ {r}
    BY <1>7 DEF Seed
  <2>2. pc = "seed" /\ pc' = "seed"
    BY <1>7 DEF Seed
  <2> QED  BY <1>4, <2>1, <2>2 DEF Phase, SetsLeft, InLoop, LeftInLoop
<1>8. CASE Pop
  <2>1. /\ todo \in Seq(SUBSET DeclName) /\ Len(todo) \in Nat \ {0}
        /\ todo' = SubSeq(todo, 1, Len(todo) - 1) /\ deps' = deps
        /\ pc = "pop" /\ pc' = "visit"
    BY <1>8, EmptySeq DEF Pop, TypeOK
  <2>2. Len(todo') = Len(todo) - 1
    BY <2>1, Shorter
  <2>3. Cardinality(DOMAIN deps) \in Nat
    BY FS_CardinalityType DEF FiniteInv
  <2>4. Phase' = Phase
    BY <2>1 DEF Phase
  <2>5. SetsLeft' < SetsLeft
    BY <2>1, <2>2, <2>3 DEF SetsLeft
  <2> QED  BY <2>4, <2>5
<1>9. CASE Visit
  <2>1. PICK n \in iter : TakeDeps(n) /\ roots' = roots \cup {n} /\ iter' = iter \ {n}
    BY <1>9 DEF Visit
  <2>2. pc = "visit" /\ pc' = "visit"
    BY <1>9 DEF Visit
  <2>3. Cardinality(DOMAIN deps') + Len(todo') = Cardinality(DOMAIN deps) + Len(todo)
    BY <2>1, TakeMoves
  <2>4. Phase' = Phase /\ SetsLeft' = SetsLeft /\ InLoop' = InLoop
    BY <2>2, <2>3 DEF Phase, SetsLeft, InLoop
  <2>5. LeftInLoop' < LeftInLoop
    BY <1>4, <2>1, <2>2 DEF LeftInLoop
  <2> QED  BY <2>4, <2>5
<1>10. CASE EndVisit
  BY <1>10 DEF EndVisit, Phase, SetsLeft, InLoop, LeftInLoop
<1> QED  BY <1>5, <1>6, <1>7, <1>8, <1>9, <1>10 DEF Next

\* The closure ends on every unit, cyclic dependencies or not, and whatever the order
\* of the hash sets: each step leaves less to do, in an order in which every descent
\* ends (DescentEnds; prune.rs:30-46).  All that is left to fairness in Terminates is
\* that steps are taken.
THEOREM EveryStepLessens ==
  ASSUME UnitsAreFinite
  PROVE  Spec => [][Lessens]_vars
<1>1. Init => FiniteInv
  BY FS_EmptySet DEF Init, FiniteInv
<1>2. TypeOK /\ FiniteInv /\ [Next]_vars => FiniteInv'
  BY FiniteStep
<1>3. TypeOK /\ FiniteInv => FourNumbers
  BY StillToDoType
<1>4. TypeOK /\ FiniteInv /\ FourNumbers /\ FourNumbers' /\ [Next]_vars
      => [Lessens]_vars
  BY StepLessens
<1> QED  BY <1>1, <1>2, <1>3, <1>4, TypeCorrect, PTL DEF Spec
=============================================================================
