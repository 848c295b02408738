---------------------------- MODULE MergeProofs ----------------------------
(***************************************************************************)
(* Proofs about the merge pass, for every translation unit: what it may    *)
(* remove, what is left of a function, and what becomes of its contract.   *)
(***************************************************************************)
EXTENDS Merge, FiniteSetTheorems, SequenceTheorems, WellFoundedInduction, TLAPS

-----------------------------------------------------------------------------
\* The largest of some positions in a sequence is one of them.
LEMMA LargestPosition ==
  ASSUME NEW n \in Nat, NEW P, P \subseteq 1 .. n, P # {}
  PROVE  Max(P) \in P /\ \A x \in P : x <= Max(P)
<1> DEFINE less == OpToRel(<, Nat)
           down == {n - x : x \in P}
<1>1. down \subseteq Nat /\ down # {}
  <2>1. \A x \in P : x \in 1 .. n /\ n - x \in Nat
    OBVIOUS
  <2> QED  BY <2>1
<1>2. PICK d \in down : \A y \in down : <<y, d>> \notin less
  <2> HIDE DEF down
  <2> QED  BY <1>1, NatLessThanWellFounded, WFMin
<1>3. PICK x \in P : d = n - x
  BY <1>2
<1>4. ASSUME NEW y \in P, y > x PROVE FALSE
  <2>1. n - y \in Nat /\ d \in Nat /\ n - y < d
    BY <1>3, <1>4
  <2>2. <<n - y, d>> \in less
    BY <2>1, Zenon DEF OpToRel
  <2>3. n - y \in down
    OBVIOUS
  <2> QED
    <3> HIDE DEF down, less
    <3> QED  BY <1>2, <2>2, <2>3
<1>5. \A y \in P : x >= y
  <2> TAKE y \in P
  <2>1. x \in 1 .. n /\ y \in 1 .. n
    OBVIOUS
  <2> QED  BY <1>4, <2>1
<1> QED  BY <1>3, <1>5 DEF Max

\* What is left of a sequence when its element k is removed
Old(k, j) == IF j < k THEN j ELSE j + 1

LEMMA Removed ==
  ASSUME NEW S, NEW s \in Seq(S), NEW k \in 1 .. Len(s)
  PROVE  /\ RemoveAt(s, k) \in Seq(S)
         /\ Len(RemoveAt(s, k)) = Len(s) - 1
         /\ \A j \in 1 .. Len(s) - 1 :
              Old(k, j) \in 1 .. Len(s) /\ RemoveAt(s, k)[j] = s[Old(k, j)]
<1> DEFINE before == SubSeq(s, 1, k - 1)
           after == SubSeq(s, k + 1, Len(s))
<1>1. /\ before \in Seq(S) /\ Len(before) = k - 1
      /\ \A j \in 1 .. k - 1 : before[j] = s[j]
  BY SubSeqProperties
<1>2. /\ after \in Seq(S) /\ Len(after) = Len(s) - k
      /\ \A j \in 1 .. Len(s) - k : after[j] = s[k + j]
  <2>1. \A j \in k + 1 .. Len(s) : s[j] \in S
    OBVIOUS
  <2>2. /\ after \in Seq(S)
        /\ Len(after) = IF k + 1 <= Len(s) THEN Len(s) - (k + 1) + 1 ELSE 0
        /\ \A j \in 1 .. Len(s) - (k + 1) + 1 : after[j] = s[(k + 1) + j - 1]
    BY <2>1, SubSeqProperties
  <2> QED  BY <2>2
<1>3. RemoveAt(s, k) = before \o after
  BY DEF RemoveAt
<1> HIDE DEF before, after
<1>4. /\ before \o after \in Seq(S) /\ Len(before \o after) = Len(s) - 1
      /\ \A j \in 1 .. Len(s) - 1 :
           (before \o after)[j] = IF j <= k - 1 THEN before[j] ELSE after[j - (k - 1)]
  <2>1. Len(before) + Len(after) = Len(s) - 1
    BY <1>1, <1>2
  <2>2. /\ before \o after \in Seq(S) /\ Len(before \o after) = Len(before) + Len(after)
        /\ \A j \in 1 .. Len(before) + Len(after) :
             (before \o after)[j] = IF j <= Len(before) THEN before[j] ELSE after[j - Len(before)]
    BY <1>1, <1>2, ConcatProperties
  <2> QED  BY <1>1, <2>1, <2>2
<1>5. ASSUME NEW j \in 1 .. Len(s) - 1
      PROVE  Old(k, j) \in 1 .. Len(s) /\ (before \o after)[j] = s[Old(k, j)]
  <2>1. CASE j < k
    BY <1>1, <1>4, <2>1 DEF Old
  <2>2. CASE ~(j < k)
    <3>1. j - (k - 1) \in 1 .. Len(s) - k /\ k + (j - (k - 1)) = j + 1
      BY <2>2
    <3> QED  BY <1>2, <1>4, <2>2, <3>1 DEF Old
  <2> QED  BY <2>1, <2>2
<1> QED  BY <1>3, <1>4, <1>5

\* Every position but k is the old one of a position that is left.
LEMMA OldIsOnto ==
  ASSUME NEW n \in Nat, NEW k \in 1 .. n, NEW m \in 1 .. n, m # k
  PROVE  \E j \in 1 .. n - 1 : Old(k, j) = m
<1>1. CASE m < k
  <2>1. m \in 1 .. n - 1 /\ Old(k, m) = m
    BY <1>1 DEF Old
  <2> QED  BY <2>1
<1>2. CASE m > k
  <2>1. m - 1 \in 1 .. n - 1 /\ Old(k, m - 1) = m
    BY <1>2 DEF Old
  <2> QED  BY <2>1
<1> QED  BY <1>1, <1>2

\* Removing an element leaves as many of those that are not like it.
LEMMA OthersAreCounted ==
  ASSUME NEW n \in Nat, NEW k \in 1 .. n, NEW P \in SUBSET (1 .. n), k \notin P,
         NEW Q \in SUBSET (1 .. n - 1), \A j \in 1 .. n - 1 : (j \in Q <=> Old(k, j) \in P)
  PROVE  Cardinality(Q) = Cardinality(P)
<1> DEFINE f == [j \in Q |-> Old(k, j)]
<1>1. f \in [Q -> P]
  OBVIOUS
<1>2. \A x, y \in Q : f[x] = f[y] => x = y
  BY DEF Old
<1>3. \A m \in P : \E j \in Q : f[j] = m
  <2> TAKE m \in P
  <2>1. PICK j \in 1 .. n - 1 : Old(k, j) = m
    BY OldIsOnto
  <2>2. j \in Q /\ f[j] = m
    BY <2>1
  <2> QED  BY <2>2
<1> HIDE DEF f
<1>4. f \in Bijection(Q, P)
  BY <1>1, <1>2, <1>3 DEF Bijection, Injection, Surjection, IsInjective
<1>5. IsFiniteSet(Q)
  <2>1. IsFiniteSet(1 .. n - 1)
    BY FS_Interval
  <2> QED  BY <2>1, FS_Subset
<1> QED  BY <1>4, <1>5, FS_Bijection DEF ExistsBijection
-----------------------------------------------------------------------------
\* The index of a name is that of a definition of it.
Indices ==
  /\ DOMAIN defn_indices
       = {original[k].name : k \in {j \in DOMAIN original : original[j].kind = "FnDefn"}}
  /\ \A n \in DOMAIN defn_indices : defn_indices[n] \in DefnPositions(original, n)

\* Until something is removed every declaration is where it was, and has lost
\* no contract.
Same(d, e) == d.kind = e.kind /\ d.name = e.name
InPlace ==
  /\ pc = "match" => decls = original
  /\ pc = "copy" => /\ Len(decls) = Len(original)
                    /\ \A k \in DOMAIN decls : /\ Same(decls[k], original[k])
                                               /\ HasSpecs(original[k]) => HasSpecs(decls[k])

\* What is to be removed has a definition; its indices are valid, and in order.
HasDefn(d) ==
  \/ d.kind = "FnDecl" /\ d.name \in DOMAIN defn_indices
  \/ d.kind = "StructDecl" /\ d.name \in StructDefnNames(original)
Marked ==
  /\ to_remove \in Seq(Nat)
  /\ \A j, k \in DOMAIN to_remove : j < k => to_remove[j] < to_remove[k]
  /\ \A k \in DOMAIN to_remove : to_remove[k] \in DOMAIN decls /\ HasDefn(decls[to_remove[k]])
  /\ pc = "match" => Len(to_remove) < i /\ \A k \in DOMAIN to_remove : to_remove[k] < i
  /\ pc = "copy" => Len(to_remove) <= Len(original) /\ i <= Len(to_remove) + 1

IInv == TypeOK /\ Indices /\ InPlace /\ Marked

\* The facts about sequences that TypeOK and Marked give
LEMMA Lengths ==
  ASSUME IInv
  PROVE  /\ original \in Seq(Decl) /\ Len(original) \in Nat /\ DOMAIN original = 1 .. Len(original)
         /\ decls \in Seq(Decl) /\ Len(decls) \in Nat /\ DOMAIN decls = 1 .. Len(decls)
         /\ Len(to_remove) \in Nat /\ DOMAIN to_remove = 1 .. Len(to_remove)
         /\ i \in Nat /\ i >= 1
         /\ \A k \in 1 .. Len(decls) : decls[k] \in Decl
         /\ \A k \in 1 .. Len(original) : original[k] \in Decl
         /\ \A k \in 1 .. Len(to_remove) : to_remove[k] \in 1 .. Len(decls)
<1>1. original \in Seq(Decl) /\ decls \in Seq(Decl) /\ to_remove \in Seq(Nat)
  BY UnitsAssumption DEF IInv, TypeOK, Marked
<1>2. /\ Len(original) \in Nat /\ DOMAIN original = 1 .. Len(original)
      /\ Len(decls) \in Nat /\ DOMAIN decls = 1 .. Len(decls)
      /\ Len(to_remove) \in Nat /\ DOMAIN to_remove = 1 .. Len(to_remove)
      /\ \A k \in 1 .. Len(decls) : decls[k] \in Decl
      /\ \A k \in 1 .. Len(original) : original[k] \in Decl
  BY <1>1
<1>3. i \in Nat /\ i >= 1
  BY <1>2 DEF IInv, TypeOK
<1>4. \A k \in 1 .. Len(to_remove) : to_remove[k] \in 1 .. Len(decls)
  BY <1>2 DEF IInv, Marked
<1> QED  BY <1>1, <1>2, <1>3, <1>4

LEMMA IInvInit == Init => IInv
<1> SUFFICES ASSUME Init PROVE IInv
  OBVIOUS
<1>1. /\ original \in Seq(Decl) /\ Len(original) \in Nat /\ DOMAIN original = 1 .. Len(original)
      /\ \A k \in 1 .. Len(original) : original[k] \in Decl
  BY UnitsAssumption DEF Init
<1>2. ASSUME NEW n \in DOMAIN defn_indices
      PROVE  n \in Ident /\ defn_indices[n] \in DefnPositions(original, n)
  <2>1. PICK k \in DOMAIN original : original[k].kind = "FnDefn" /\ original[k].name = n
    BY <1>2 DEF Init, DefnIndices
  <2>2. k \in DefnPositions(original, n)
    BY <2>1 DEF DefnPositions
  <2>3. DefnPositions(original, n) \subseteq 1 .. Len(original)
    BY <1>1 DEF DefnPositions
  <2>4. Max(DefnPositions(original, n)) \in DefnPositions(original, n)
    BY <1>1, <2>2, <2>3, LargestPosition
  <2>5. defn_indices[n] = Max(DefnPositions(original, n))
    BY <1>2 DEF Init, DefnIndices
  <2>6. n \in Ident
    BY <1>1, <2>1 DEF Decl
  <2> QED  BY <2>4, <2>5, <2>6
<1>3. Indices
  BY <1>2 DEF Indices, Init, DefnIndices
<1>4. TypeOK
  BY <1>1, <1>2 DEF Init, TypeOK, DefnPositions
<1>5. InPlace /\ Marked
  BY <1>1 DEF Init, InPlace, Marked
<1> QED  BY <1>3, <1>4, <1>5 DEF IInv
-----------------------------------------------------------------------------
\* Three steps that keep the invariant: the matching loop goes on, with or
\* without the declaration at i marked; a contract is copied; the last of the
\* marked declarations is removed.
LEMMA MarkKeepsIInv ==
  ASSUME IInv, pc = "match", i <= Len(decls), HasDefn(decls[i]), to_remove' = Append(to_remove, i),
         i' = i + 1, UNCHANGED <<original, decls, defn_indices, diags, pc>>
  PROVE  IInv'
<1> USE Lengths
<1>1. i \in Nat /\ to_remove \in Seq(Nat)
  BY DEF IInv, Marked
<1>2. /\ to_remove' \in Seq(Nat)
      /\ Len(to_remove') = Len(to_remove) + 1
      /\ \A k \in 1 .. Len(to_remove) : to_remove'[k] = to_remove[k]
      /\ to_remove'[Len(to_remove) + 1] = i
  BY <1>1, AppendProperties
<1>3. DOMAIN to_remove' = 1 .. Len(to_remove) + 1
  BY <1>2
<1>4. i \in 1 .. Len(original) /\ i \in DOMAIN decls
  BY DEF IInv, InPlace
<1>5. \A k \in DOMAIN to_remove' : to_remove'[k] \in DOMAIN decls' /\ HasDefn(decls[to_remove'[k]])
  <2> TAKE k \in DOMAIN to_remove'
  <2>1. CASE k = Len(to_remove) + 1
    BY <1>2, <1>4, <2>1
  <2>2. CASE k \in 1 .. Len(to_remove)
    BY <1>2, <2>2 DEF IInv, Marked
  <2> QED  BY <1>3, <2>1, <2>2
<1>6. TypeOK' /\ Indices' /\ InPlace'
  BY <1>4, <1>5 DEF IInv, TypeOK, Indices, InPlace
<1>7. \A j, k \in DOMAIN to_remove' : j < k => to_remove'[j] < to_remove'[k]
  BY SMTT(30), <1>2, <1>3 DEF IInv, Marked
<1>8. Len(to_remove') < i' /\ \A k \in DOMAIN to_remove' : to_remove'[k] < i'
  BY <1>2, <1>3 DEF IInv, Marked
<1>9. Marked'
  BY <1>2, <1>5, <1>7, <1>8 DEF Marked, HasDefn
<1> QED  BY <1>6, <1>9 DEF IInv

LEMMA PassKeepsIInv ==
  ASSUME IInv, pc = "match", i <= Len(decls), diags' \subseteq Ident, i' = i + 1,
         UNCHANGED <<original, decls, defn_indices, to_remove, pc>>
  PROVE  IInv'
<1> USE Lengths
<1>1. TypeOK' /\ Indices' /\ InPlace'
  BY DEF IInv, TypeOK, Indices, InPlace
<1>2. Marked'
  BY DEF IInv, Marked, HasDefn
<1> QED  BY <1>1, <1>2 DEF IInv

\* What copying changes: a definition gets the contract of a declaration of its
\* name.
LEMMA Copied ==
  ASSUME IInv, CopySpecs
  PROVE  /\ decls' \in Seq(Decl) /\ Len(decls') = Len(decls)
         /\ \A k \in 1 .. Len(decls) :
              \/ decls'[k] = decls[k]
              \/ LET decl == decls[to_remove[i]]
                 IN /\ decl.kind = "FnDecl" /\ k = defn_indices[decl.name] /\ ~HasSpecs(decls[k])
                    /\ Same(decls'[k], decls[k]) /\ Contract(decls'[k]) = Contract(decl)
         /\ LET decl == decls[to_remove[i]]
            IN decl.kind = "FnDecl" /\ ~HasSpecs(decls[defn_indices[decl.name]])
                 => Contract(decls'[defn_indices[decl.name]]) = Contract(decl)
<1> USE Lengths
<1> DEFINE decl == decls[to_remove[i]]
           at == defn_indices[decl.name]
           new == [decls[at] EXCEPT !.requires = decl.requires, !.ensures = decl.ensures]
<1>1. i \in 1 .. Len(to_remove) /\ decl \in Decl
  <2>1. i \in 1 .. Len(to_remove)
    <3>1. i <= Len(to_remove)
      BY ZenonT(30) DEF CopySpecs
    <3> QED  BY <3>1
  <2>2. to_remove[i] \in 1 .. Len(decls)
    BY <2>1
  <2> QED  BY <2>1, <2>2
<1>2. CASE ~(decl.kind = "FnDecl" /\ ~HasSpecs(decls[at]))
  BY <1>2 DEF CopySpecs
<1>3. CASE decl.kind = "FnDecl" /\ ~HasSpecs(decls[at])
  <2>1. at \in 1 .. Len(decls)
    <3>1. HasDefn(decl)
      BY <1>1 DEF IInv, Marked
    <3>2. decl.name \in DOMAIN defn_indices
      BY <1>3, <3>1 DEF HasDefn
    <3> QED  BY <3>2 DEF IInv, Indices, DefnPositions, InPlace, CopySpecs
  <2>2. decls[at] \in Decl
    BY <2>1
  <2>3. new \in Decl /\ Same(new, decls[at]) /\ Contract(new) = Contract(decl)
    BY <1>1, <2>2 DEF Decl, Same, Contract
  <2>4. decls' = [decls EXCEPT ![at] = new]
    BY <1>3 DEF CopySpecs
  <2> HIDE DEF new, at, decl
  <2>5. /\ decls' \in Seq(Decl) /\ Len(decls') = Len(decls)
        /\ \A k \in 1 .. Len(decls) : decls'[k] = IF k = at THEN new ELSE decls[k]
    BY <2>1, <2>3, <2>4, ExceptSeq
  <2> QED  BY <1>3, <2>1, <2>3, <2>5 DEF decl, at
<1> QED  BY <1>2, <1>3

LEMMA CopyKeepsIInv == IInv /\ CopySpecs => IInv'
<1> SUFFICES ASSUME IInv, CopySpecs PROVE IInv'
  OBVIOUS
<1> USE Lengths
<1>1. /\ decls' \in Seq(Decl) /\ Len(decls') = Len(decls)
      /\ \A k \in 1 .. Len(decls) : Same(decls'[k], decls[k]) /\ (HasSpecs(decls[k]) => HasSpecs(decls'[k]))
  <2>1. \A k \in 1 .. Len(decls) : Same(decls[k], decls[k])
    BY DEF Same
  <2> QED  BY <2>1, Copied
<1>2. DOMAIN decls' = DOMAIN decls
  BY <1>1
<1>3. pc = "copy" /\ i <= Len(to_remove) /\ Len(to_remove) <= Len(original)
      /\ UNCHANGED <<original, defn_indices, to_remove, diags, pc>> /\ i' = i + 1
  BY DEF CopySpecs, IInv, Marked
<1>4. TypeOK'
  BY <1>1, <1>2, <1>3 DEF IInv, TypeOK
<1>5. Indices'
  BY <1>3 DEF IInv, Indices
<1>6. InPlace'
  BY <1>1, <1>2, <1>3 DEF IInv, InPlace, Same
<1>7. Marked'
  BY <1>1, <1>2, <1>3 DEF IInv, Marked, HasDefn, Same
<1> QED  BY <1>4, <1>5, <1>6, <1>7 DEF IInv
\* What removing changes: the declaration with the largest index goes.
Largest == to_remove[Len(to_remove)]

LEMMA RemovedLast ==
  ASSUME IInv, RemoveMerged
  PROVE  /\ Len(to_remove) >= 1 /\ Largest \in 1 .. Len(decls) /\ HasDefn(decls[Largest])
         /\ decls' \in Seq(Decl) /\ Len(decls') = Len(decls) - 1
         /\ \A j \in 1 .. Len(decls) - 1 :
              Old(Largest, j) \in 1 .. Len(decls) /\ decls'[j] = decls[Old(Largest, j)]
         /\ to_remove' \in Seq(Nat) /\ Len(to_remove') = Len(to_remove) - 1
         /\ \A k \in 1 .. Len(to_remove) - 1 :
              /\ to_remove'[k] = to_remove[k] /\ to_remove[k] < Largest
              /\ decls'[to_remove[k]] = decls[to_remove[k]]
<1> USE Lengths
<1> DEFINE n == Len(to_remove)
           last == CHOOSE k \in DOMAIN to_remove : to_remove[k] = Max(ToSet(to_remove))
<1>1. to_remove \in Seq(Nat) /\ to_remove # << >> /\ n >= 1
  BY EmptySeq DEF IInv, Marked, RemoveMerged
<1>2. \A k \in 1 .. n - 1 : to_remove[k] < to_remove[n]
  BY <1>1 DEF IInv, Marked
<1>3. to_remove[n] \in 1 .. Len(decls) /\ HasDefn(decls[to_remove[n]])
  BY <1>1 DEF IInv, Marked
<1>4. Max(ToSet(to_remove)) = to_remove[n]
  <2>1. ToSet(to_remove) \subseteq 1 .. Len(decls) /\ to_remove[n] \in ToSet(to_remove)
    BY <1>1 DEF ToSet
  <2>2. /\ Max(ToSet(to_remove)) \in ToSet(to_remove)
        /\ \A x \in ToSet(to_remove) : x <= Max(ToSet(to_remove))
    BY <2>1, LargestPosition
  <2>3. \A x \in ToSet(to_remove) : x <= to_remove[n]
    BY SMTT(30), <1>1, <1>2 DEF ToSet
  <2>4. Max(ToSet(to_remove)) <= to_remove[n] /\ to_remove[n] <= Max(ToSet(to_remove))
    BY <2>1, <2>2, <2>3
  <2>5. Max(ToSet(to_remove)) \in 1 .. Len(decls)
    BY <2>1, <2>2
  <2> QED  BY <1>3, <2>4, <2>5
<1>5. last = n
  <2>1. n \in DOMAIN to_remove
    BY <1>1
  <2>2. last \in DOMAIN to_remove /\ to_remove[last] = to_remove[n]
    BY <1>4, <2>1
  <2> HIDE DEF last
  <2>3. last \in 1 .. n /\ to_remove[last] \in Nat
    BY <1>1, <2>2
  <2> QED  BY <1>2, <2>2, <2>3
<1>6. decls' = RemoveAt(decls, to_remove[n]) /\ to_remove' = RemoveAt(to_remove, n)
  <2> HIDE DEF n
  <2>1. decls' = RemoveAt(decls, to_remove[last]) /\ to_remove' = RemoveAt(to_remove, last)
    BY DEF RemoveMerged
  <2> QED  BY <1>5, <2>1
<1>7. /\ decls' \in Seq(Decl) /\ Len(decls') = Len(decls) - 1
      /\ \A j \in 1 .. Len(decls) - 1 :
           Old(to_remove[n], j) \in 1 .. Len(decls) /\ decls'[j] = decls[Old(to_remove[n], j)]
  BY <1>3, <1>6, Removed
<1>8. /\ to_remove' \in Seq(Nat) /\ Len(to_remove') = n - 1
      /\ \A k \in 1 .. n - 1 : to_remove'[k] = to_remove[k]
  <2>1. n \in 1 .. Len(to_remove)
    BY <1>1
  <2>2. /\ to_remove' \in Seq(Nat) /\ Len(to_remove') = n - 1
        /\ \A k \in 1 .. n - 1 : to_remove'[k] = to_remove[Old(n, k)]
    BY <1>1, <1>6, <2>1, Removed
  <2> QED  BY <2>2 DEF Old
<1>9. ASSUME NEW k \in 1 .. n - 1 PROVE decls'[to_remove[k]] = decls[to_remove[k]]
  <2>1. to_remove[k] \in 1 .. Len(decls) /\ to_remove[k] < to_remove[n]
    BY <1>1, <1>2
  <2>2. to_remove[k] \in 1 .. Len(decls) - 1
    BY <1>3, <2>1
  <2>3. Old(to_remove[n], to_remove[k]) = to_remove[k]
    BY <2>1 DEF Old
  <2> DEFINE m == to_remove[k]
             idx == to_remove[n]
  <2>4. \A j \in 1 .. Len(decls) - 1 : decls'[j] = decls[Old(idx, j)]
    BY <1>7
  <2>5. m \in 1 .. Len(decls) - 1 /\ Old(idx, m) = m
    BY <2>2, <2>3
  <2> QED
    <3> SUFFICES decls'[m] = decls[m]
      OBVIOUS
    <3> HIDE DEF m, idx
    <3> QED  BY <2>4, <2>5
<1> QED  BY <1>1, <1>2, <1>3, <1>7, <1>8, <1>9 DEF Largest

LEMMA RemoveKeepsIInv == IInv /\ RemoveMerged => IInv'
<1> SUFFICES ASSUME IInv, RemoveMerged PROVE IInv'
  OBVIOUS
<1> USE Lengths
<1>1. pc = "remove" /\ UNCHANGED <<original, defn_indices, i, diags, pc>>
  BY DEF RemoveMerged
<1>2. /\ DOMAIN to_remove' = 1 .. Len(to_remove) - 1
      /\ DOMAIN decls' = 1 .. Len(decls) - 1
      /\ Len(to_remove) >= 1 /\ Largest \in 1 .. Len(decls)
      /\ decls' \in Seq(Decl) /\ to_remove' \in Seq(Nat)
      /\ \A k \in 1 .. Len(to_remove) - 1 :
           to_remove'[k] = to_remove[k] /\ to_remove[k] < Largest /\ decls'[to_remove[k]] = decls[to_remove[k]]
  BY RemovedLast
<1>3. \A k \in DOMAIN to_remove' : to_remove'[k] \in DOMAIN decls' /\ HasDefn(decls'[to_remove'[k]])
  <2> SUFFICES ASSUME NEW k \in 1 .. Len(to_remove) - 1
               PROVE  to_remove'[k] \in DOMAIN decls' /\ HasDefn(decls'[to_remove'[k]])
    BY <1>2
  <2>1. k \in 1 .. Len(to_remove)
    OBVIOUS
  <2>2. to_remove[k] \in 1 .. Len(decls) /\ HasDefn(decls[to_remove[k]])
    BY <2>1 DEF IInv, Marked
  <2>3. to_remove'[k] = to_remove[k] /\ to_remove[k] < Largest /\ decls'[to_remove[k]] = decls[to_remove[k]]
    BY <1>2
  <2>4. to_remove[k] \in 1 .. Len(decls) - 1
    BY <1>2, <2>2, <2>3
  <2> QED  BY <1>2, <2>2, <2>3, <2>4
<1>4. TypeOK'
  BY <1>1, <1>2, <1>3 DEF IInv, TypeOK
<1>5. Indices' /\ InPlace'
  BY <1>1 DEF IInv, Indices, InPlace
<1>6. \A j, k \in DOMAIN to_remove' : j < k => to_remove'[j] < to_remove'[k]
  <2>1. \A j, k \in 1 .. Len(to_remove) : j < k => to_remove[j] < to_remove[k]
    BY DEF IInv, Marked
  <2>2. \A k \in 1 .. Len(to_remove) - 1 : k \in 1 .. Len(to_remove)
    OBVIOUS
  <2> QED  BY <1>2, <2>1, <2>2
<1>7. Marked'
  BY <1>1, <1>2, <1>3, <1>6 DEF Marked, HasDefn
<1> QED  BY <1>4, <1>5, <1>7 DEF IInv

LEMMA IInvStep == IInv /\ [Next]_vars => IInv'
<1> SUFFICES ASSUME IInv, [Next]_vars PROVE IInv'
  OBVIOUS
<1> USE Lengths
<1>1. CASE MatchFnDecl
  <2>1. decls[i] \in Decl /\ decls[i].name \in Ident
    BY <1>1 DEF MatchFnDecl, Decl
  <2>2. CASE Compatible(decls[i], decls[defn_indices[decls[i].name]])
    BY <1>1, <2>2, MarkKeepsIInv DEF MatchFnDecl, HasDefn
  <2>3. CASE ~Compatible(decls[i], decls[defn_indices[decls[i].name]])
    <3>1. diags' \subseteq Ident
      BY <1>1, <2>1, <2>3 DEF MatchFnDecl, IInv, TypeOK
    <3> QED  BY <1>1, <2>3, <3>1, PassKeepsIInv DEF MatchFnDecl
  <2> QED  BY <2>2, <2>3
<1>2. CASE MatchStructDecl
  BY <1>2, MarkKeepsIInv DEF MatchStructDecl, HasDefn, IInv, InPlace
<1>3. CASE MatchOther
  <2>1. diags' \subseteq Ident
    BY <1>3 DEF MatchOther, IInv, TypeOK
  <2> QED  BY <1>3, <2>1, PassKeepsIInv DEF MatchOther
<1>4. CASE EndMatch
  <2>1. decls = original /\ Len(to_remove) <= Len(original)
    BY <1>4 DEF EndMatch, IInv, InPlace, Marked, TypeOK
  <2>2. TypeOK' /\ Indices'
    BY <1>4 DEF EndMatch, IInv, TypeOK, Indices
  <2>3. InPlace'
    BY <1>4, <2>1 DEF EndMatch, InPlace, Same
  <2>4. Marked'
    BY <1>4, <2>1 DEF EndMatch, IInv, Marked, HasDefn
  <2> QED  BY <2>2, <2>3, <2>4 DEF IInv
<1>5. CASE CopySpecs
  BY <1>5, CopyKeepsIInv
<1>6. CASE EndCopy
  BY <1>6 DEF EndCopy, IInv, TypeOK, Indices, InPlace, Marked, HasDefn
<1>7. CASE RemoveMerged
  BY <1>7, RemoveKeepsIInv
<1>8. CASE Return
  BY <1>8 DEF Return, IInv, TypeOK, Indices, InPlace, Marked, HasDefn
<1>9. CASE UNCHANGED vars
  BY <1>9 DEF vars, IInv, TypeOK, Indices, InPlace, Marked, HasDefn
<1> QED  BY <1>1, <1>2, <1>3, <1>4, <1>5, <1>6, <1>7, <1>8, <1>9 DEF Next

LEMMA IInvHolds == Spec => []IInv
<1>1. Init => IInv
  BY IInvInit
<1>2. IInv /\ [Next]_vars => IInv'
  BY IInvStep
<1> QED  BY <1>1, <1>2, PTL DEF Spec

\* Every variable holds a value of its type, and every index is one of a
\* declaration, through all the removals.
THEOREM TypeCorrect == Spec => []TypeOK
<1>1. IInv => TypeOK
  BY DEF IInv
<1> QED  BY <1>1, IInvHolds, PTL
-----------------------------------------------------------------------------
\* What is removed has a definition, and definitions are never removed: that is
\* why no name is left undeclared.
DefinitionsStay ==
  \A n \in Ident : \A kind \in {"FnDefn", "StructDefn"} :
    Declares(original, {kind}, n) => Declares(decls, {kind}, n)
Numbers(unit, kind, n) == {k \in DOMAIN unit : unit[k].kind = kind /\ unit[k].name = n}

LostInv == IInv /\ NothingIsLost /\ DefinitionsStay

\* The two parts of NothingIsLost
StillDeclared ==
  \A n \in Ident :
    /\ Declares(original, {"FnDecl", "FnDefn"}, n) => Declares(decls, {"FnDecl", "FnDefn"}, n)
    /\ Declares(original, {"StructDecl", "StructDefn"}, n) =>
         Declares(decls, {"StructDecl", "StructDefn"}, n)
Counted ==
  \A n \in Ident : \A kind \in {"FnDefn", "StructDefn"} :
    Cardinality(Numbers(decls, kind, n)) = Cardinality(Numbers(original, kind, n))

LEMMA PartsOfNothingIsLost == NothingIsLost <=> StillDeclared /\ Counted
BY Zenon DEF NothingIsLost, StillDeclared, Counted, Numbers

\* Where kinds and names stay in place, everything that is declared stays.
LEMMA SameShapeKeepsLost ==
  ASSUME LostInv, IInv', original' = original, DOMAIN decls' = DOMAIN decls,
         \A k \in DOMAIN decls : Same(decls'[k], decls[k])
  PROVE  LostInv'
<1>1. ASSUME NEW kind, NEW n PROVE Numbers(decls', kind, n) = Numbers(decls, kind, n)
  BY DEF Numbers, Same
<1>2. ASSUME NEW kinds, NEW n PROVE Declares(decls', kinds, n) = Declares(decls, kinds, n)
  BY DEF Declares, Same
<1>3. NothingIsLost'
  <2>1. StillDeclared'
    BY <1>2, PartsOfNothingIsLost DEF LostInv, StillDeclared
  <2>2. Counted'
    BY <1>1, PartsOfNothingIsLost DEF LostInv, Counted
  <2> QED  BY <2>1, <2>2, PartsOfNothingIsLost, PTL
<1>4. DefinitionsStay'
  BY <1>2 DEF LostInv, DefinitionsStay
<1> QED  BY <1>3, <1>4 DEF LostInv

\* A declaration other than the one removed is still there.
LEMMA OthersStay ==
  ASSUME IInv, RemoveMerged, NEW kinds, NEW n,
         NEW k \in DOMAIN decls, k # Largest, decls[k].kind \in kinds, decls[k].name = n
  PROVE  Declares(decls', kinds, n)
<1>1. Len(decls) \in Nat /\ k \in 1 .. Len(decls) /\ Largest \in 1 .. Len(decls)
  BY Lengths, RemovedLast
<1>2. PICK j \in 1 .. Len(decls) - 1 : Old(Largest, j) = k
  BY <1>1, OldIsOnto
<1>3. j \in DOMAIN decls' /\ decls'[j] = decls[k]
  BY <1>2, RemovedLast
<1> QED  BY <1>3 DEF Declares

LEMMA RemoveKeepsLost == LostInv /\ RemoveMerged => LostInv'
<1> SUFFICES ASSUME LostInv, RemoveMerged PROVE LostInv'
  OBVIOUS
<1>0. IInv /\ IInv' /\ original' = original /\ defn_indices' = defn_indices
  BY RemoveKeepsIInv DEF LostInv, RemoveMerged
<1>1. Largest \in DOMAIN decls /\ HasDefn(decls[Largest]) /\ Largest \in 1 .. Len(decls)
      /\ Len(decls) \in Nat /\ DOMAIN decls = 1 .. Len(decls) /\ DOMAIN decls' = 1 .. Len(decls) - 1
  BY <1>0, Lengths, RemovedLast
<1>2. ASSUME NEW n \in Ident, NEW kind \in {"FnDefn", "StructDefn"}, Declares(original, {kind}, n)
      PROVE  \E k \in DOMAIN decls : k # Largest /\ decls[k].kind = kind /\ decls[k].name = n
  <2>1. PICK k \in DOMAIN decls : decls[k].kind = kind /\ decls[k].name = n
    BY <1>2 DEF LostInv, DefinitionsStay, Declares
  <2>2. k # Largest
    BY <1>1, <2>1 DEF HasDefn
  <2> QED  BY <2>1, <2>2
<1>3. DefinitionsStay'
  <2> SUFFICES ASSUME NEW n \in Ident, NEW kind \in {"FnDefn", "StructDefn"},
                      Declares(original, {kind}, n)
               PROVE  Declares(decls', {kind}, n)
    BY <1>0 DEF DefinitionsStay
  <2>1. PICK k \in DOMAIN decls : k # Largest /\ decls[k].kind = kind /\ decls[k].name = n
    BY <1>2
  <2> QED  BY <1>0, <2>1, OthersStay
<1>4. ASSUME NEW n \in Ident, Declares(original, {"FnDecl", "FnDefn"}, n)
      PROVE  Declares(decls', {"FnDecl", "FnDefn"}, n)
  <2>1. PICK k \in DOMAIN decls : decls[k].kind \in {"FnDecl", "FnDefn"} /\ decls[k].name = n
    BY <1>4 DEF LostInv, NothingIsLost, Declares
  <2>2. CASE k # Largest
    BY <1>0, <2>1, <2>2, OthersStay
  <2>3. CASE k = Largest
    <3>1. n \in DOMAIN defn_indices
      BY <1>1, <2>1, <2>3 DEF HasDefn
    <3>2. Declares(original, {"FnDefn"}, n)
      BY <1>0, <3>1 DEF IInv, Indices, Declares
    <3>3. PICK j \in DOMAIN decls : j # Largest /\ decls[j].kind = "FnDefn" /\ decls[j].name = n
      BY <1>2, <3>2
    <3> QED  BY <1>0, <3>3, OthersStay
  <2> QED  BY <2>2, <2>3
<1>5. ASSUME NEW n \in Ident, Declares(original, {"StructDecl", "StructDefn"}, n)
      PROVE  Declares(decls', {"StructDecl", "StructDefn"}, n)
  <2>1. PICK k \in DOMAIN decls : decls[k].kind \in {"StructDecl", "StructDefn"} /\ decls[k].name = n
    BY <1>5 DEF LostInv, NothingIsLost, Declares
  <2>2. CASE k # Largest
    BY <1>0, <2>1, <2>2, OthersStay
  <2>3. CASE k = Largest
    <3>1. n \in StructDefnNames(original)
      BY <1>1, <2>1, <2>3 DEF HasDefn
    <3>2. Declares(original, {"StructDefn"}, n)
      BY <3>1 DEF StructDefnNames, Declares
    <3>3. PICK j \in DOMAIN decls : j # Largest /\ decls[j].kind = "StructDefn" /\ decls[j].name = n
      BY <1>2, <3>2
    <3> QED  BY <1>0, <3>3, OthersStay
  <2> QED  BY <2>2, <2>3
<1>6. ASSUME NEW n \in Ident, NEW kind \in {"FnDefn", "StructDefn"}
      PROVE  Cardinality(Numbers(decls', kind, n)) = Cardinality(Numbers(decls, kind, n))
  <2> DEFINE P == Numbers(decls, kind, n)
             Q == Numbers(decls', kind, n)
             N == Len(decls)
  <2>1. N \in Nat /\ Largest \in 1 .. N
    BY <1>1
  <2>2. P \in SUBSET (1 .. N) /\ Q \in SUBSET (1 .. N - 1)
    BY <1>1 DEF Numbers
  <2>3. Largest \notin P
    BY <1>1 DEF Numbers, HasDefn
  <2>4. \A j \in 1 .. N - 1 : (j \in Q <=> Old(Largest, j) \in P)
    BY <1>0, <1>1, RemovedLast DEF Numbers
  <2>5. Cardinality(Q) = Cardinality(P)
    <3> DEFINE L == Largest
    <3>1. /\ N \in Nat /\ L \in 1 .. N /\ P \in SUBSET (1 .. N) /\ L \notin P
          /\ Q \in SUBSET (1 .. N - 1) /\ \A j \in 1 .. N - 1 : (j \in Q <=> Old(L, j) \in P)
      BY <2>1, <2>2, <2>3, <2>4
    <3> HIDE DEF P, Q, N, L
    <3> QED  BY <3>1, OthersAreCounted
  <2> QED  BY <2>5
<1>7. NothingIsLost'
  <2>1. StillDeclared'
    BY <1>0, <1>4, <1>5 DEF StillDeclared
  <2>2. Counted'
    BY <1>0, <1>6, PartsOfNothingIsLost DEF LostInv, Counted
  <2> QED  BY <2>1, <2>2, PartsOfNothingIsLost, PTL
<1> QED  BY <1>0, <1>3, <1>7 DEF LostInv

LEMMA LostStep == LostInv /\ [Next]_vars => LostInv'
<1> SUFFICES ASSUME LostInv, [Next]_vars PROVE LostInv'
  OBVIOUS
<1>1. IInv /\ IInv'
  BY IInvStep DEF LostInv
<1>2. CASE original' = original /\ decls' = decls
  BY <1>1, <1>2, SameShapeKeepsLost DEF Same
<1>3. CASE CopySpecs
  <2>1. original' = original
    BY <1>3 DEF CopySpecs
  <2>2. DOMAIN decls' = DOMAIN decls /\ \A k \in DOMAIN decls : Same(decls'[k], decls[k])
    <3>1. \A k \in 1 .. Len(decls) : Same(decls[k], decls[k])
      BY DEF Same
    <3> QED  BY <1>1, <1>3, <3>1, Lengths, Copied
  <2> QED  BY <1>1, <2>1, <2>2, SameShapeKeepsLost
<1>4. CASE RemoveMerged
  BY <1>4, RemoveKeepsLost
<1> QED
  BY <1>2, <1>3, <1>4
     DEF Next, vars, MatchFnDecl, MatchStructDecl, MatchOther, EndMatch, EndCopy, Return

LEMMA LostHolds == Spec => []LostInv
<1>1. Init => LostInv
  BY IInvInit DEF Init, LostInv, NothingIsLost, DefinitionsStay
<1> QED  BY <1>1, LostStep, PTL DEF Spec

\* Whatever the unit, however many declarations are merged, and at every step:
\* every function and struct that was declared still is, and all definitions
\* are still there, as many as there were.
THEOREM NothingIsLostHolds == Spec => []NothingIsLost
<1>1. LostInv => NothingIsLost
  BY DEF LostInv
<1> QED  BY <1>1, LostHolds, PTL
-----------------------------------------------------------------------------
\* Every declaration of a defined function is marked or reported.
Seen(k) == pc = "match" => k < i
Complete ==
  /\ \A k \in DOMAIN decls :
       Seen(k) /\ decls[k].kind = "FnDecl" /\ decls[k].name \in DOMAIN defn_indices \ diags
         => \E m \in DOMAIN to_remove : to_remove[m] = k
  /\ pc = "done" => to_remove = << >>

EntryInv == LostInv /\ Complete

\* Marking or reporting the declaration at i, or passing over one that needs
\* neither, is what the matching loop has to do.
LEMMA MatchKeepsComplete ==
  ASSUME EntryInv, pc = "match", pc' = pc, i' = i + 1, UNCHANGED <<original, decls, defn_indices>>,
         \/ to_remove' = Append(to_remove, i) /\ diags' = diags
         \/ to_remove' = to_remove /\ diags \subseteq diags'
            /\ (decls[i].kind = "FnDecl" /\ decls[i].name \in DOMAIN defn_indices
                  => decls[i].name \in diags')
  PROVE  Complete'
<1>1. to_remove \in Seq(Nat) /\ i \in Nat /\ Len(to_remove) \in Nat
  BY Lengths DEF EntryInv, LostInv, IInv, Marked
<1>2. \A m \in DOMAIN to_remove : m \in DOMAIN to_remove' /\ to_remove'[m] = to_remove[m]
  BY SMTT(30), <1>1, AppendProperties
<1> SUFFICES ASSUME NEW k \in DOMAIN decls, k < i + 1, decls[k].kind = "FnDecl",
                    decls[k].name \in DOMAIN defn_indices \ diags'
             PROVE  \E m \in DOMAIN to_remove' : to_remove'[m] = k
  BY DEF Complete, Seen
<1>3. CASE k < i
  <2>1. PICK m \in DOMAIN to_remove : to_remove[m] = k
    BY <1>3 DEF EntryInv, Complete, Seen
  <2> QED  BY <1>2, <2>1
<1>4. CASE k = i
  <2>1. to_remove' = Append(to_remove, i)
    BY <1>4 DEF EntryInv
  <2>2. /\ to_remove' \in Seq(Nat) /\ Len(to_remove') = Len(to_remove) + 1
        /\ to_remove'[Len(to_remove) + 1] = i
    BY <1>1, <2>1, AppendProperties
  <2>3. Len(to_remove) + 1 \in DOMAIN to_remove'
    BY <2>2
  <2> QED  BY <1>4, <2>2, <2>3
<1>5. k \in Nat
  BY Lengths DEF EntryInv, LostInv
<1> QED  BY <1>1, <1>3, <1>4, <1>5

LEMMA RemoveKeepsComplete ==
  ASSUME EntryInv, RemoveMerged PROVE Complete'
<1> USE DEF EntryInv, LostInv
<1>0. pc = "remove" /\ UNCHANGED <<defn_indices, diags, pc>>
  BY DEF RemoveMerged
<1> SUFFICES ASSUME NEW j \in DOMAIN decls', decls'[j].kind = "FnDecl",
                    decls'[j].name \in DOMAIN defn_indices \ diags
             PROVE  \E m \in DOMAIN to_remove' : to_remove'[m] = j
  BY <1>0 DEF Complete
<1>1. /\ j \in 1 .. Len(decls) - 1 /\ Old(Largest, j) \in DOMAIN decls
      /\ decls'[j] = decls[Old(Largest, j)]
      /\ Largest \in 1 .. Len(decls) /\ Len(decls) \in Nat /\ Len(to_remove) \in Nat
  BY SMTT(30), Lengths, RemovedLast
<1>2. PICK m \in DOMAIN to_remove : to_remove[m] = Old(Largest, j)
  BY <1>0, <1>1 DEF Complete, Seen
<1>3. m # Len(to_remove)
  BY <1>1, <1>2 DEF Old, Largest
<1>4. m \in 1 .. Len(to_remove) - 1
  BY <1>1, <1>3, Lengths
<1>5. m \in DOMAIN to_remove' /\ to_remove'[m] = to_remove[m] /\ to_remove[m] < Largest
  BY <1>4, RemovedLast
<1>6. Old(Largest, j) = j
  BY <1>1, <1>2, <1>5 DEF Old
<1> QED  BY <1>2, <1>5, <1>6

LEMMA EntryStep == EntryInv /\ [Next]_vars => EntryInv'
<1> SUFFICES ASSUME EntryInv, [Next]_vars PROVE EntryInv'
  OBVIOUS
<1>0. LostInv' /\ IInv
  BY LostStep DEF EntryInv, LostInv
<1>1. CASE MatchFnDecl
  BY <1>0, <1>1, MatchKeepsComplete DEF MatchFnDecl, EntryInv
<1>2. CASE MatchStructDecl
  BY <1>0, <1>2, MatchKeepsComplete DEF MatchStructDecl, EntryInv
<1>3. CASE MatchOther
  BY <1>0, <1>3, MatchKeepsComplete DEF MatchOther, EntryInv
<1>4. CASE EndMatch
  <2>1. \A k \in DOMAIN decls : k < i
    BY <1>0, <1>4, Lengths DEF EndMatch
  <2> QED  BY <1>0, <1>4, <2>1 DEF EndMatch, EntryInv, Complete, Seen
<1>5. CASE CopySpecs
  <2>1. DOMAIN decls' = DOMAIN decls /\ \A k \in DOMAIN decls : Same(decls'[k], decls[k])
    <3>1. \A k \in 1 .. Len(decls) : Same(decls[k], decls[k])
      BY DEF Same
    <3> QED  BY <1>0, <1>5, <3>1, Lengths, Copied
  <2> QED  BY <1>0, <1>5, <2>1 DEF CopySpecs, EntryInv, Complete, Seen, Same
<1>6. CASE EndCopy
  BY <1>0, <1>6 DEF EndCopy, EntryInv, Complete, Seen
<1>7. CASE RemoveMerged
  BY <1>0, <1>7, RemoveKeepsComplete DEF EntryInv
<1>8. CASE Return
  BY <1>0, <1>8 DEF Return, EntryInv, Complete, Seen
<1>9. CASE UNCHANGED vars
  BY <1>0, <1>9 DEF vars, EntryInv, Complete, Seen
<1> QED  BY <1>1, <1>2, <1>3, <1>4, <1>5, <1>6, <1>7, <1>8, <1>9 DEF Next

\* When the pass returns, a function defined once about which nothing was
\* reported has its definition as its only entry.
THEOREM OneEntryUnlessReportedHolds == Spec => []OneEntryUnlessReported
<1>1. Init => EntryInv
  <2>1. Init => LostInv
    BY IInvInit DEF Init, LostInv, NothingIsLost, DefinitionsStay
  <2>2. Init => Complete
    <3> SUFFICES ASSUME Init PROVE Complete
      OBVIOUS
    <3>1. \A k \in DOMAIN decls : k \in Nat /\ k >= 1
      BY IInvInit, Lengths
    <3> QED  BY <3>1 DEF Init, Complete, Seen
  <2> QED  BY <2>1, <2>2 DEF EntryInv
<1>2. ASSUME EntryInv PROVE OneEntryUnlessReported
  <2> SUFFICES ASSUME pc = "done", NEW n \in Ident \ diags,
                      Cardinality(DefnPositions(original, n)) = 1
               PROVE  Cardinality({k \in DOMAIN decls :
                         decls[k].kind \in {"FnDecl", "FnDefn"} /\ decls[k].name = n}) = 1
    BY DEF OneEntryUnlessReported
  <2>1. DefnPositions(original, n) # {}
    BY FS_EmptySet
  <2>2. n \in DOMAIN defn_indices
    BY <1>2, <2>1 DEF EntryInv, LostInv, IInv, Indices, DefnPositions
  <2>3. \A k \in DOMAIN decls : ~(decls[k].kind = "FnDecl" /\ decls[k].name = n)
    BY <1>2, <2>2 DEF EntryInv, Complete, Seen
  <2>4. {k \in DOMAIN decls : decls[k].kind \in {"FnDecl", "FnDefn"} /\ decls[k].name = n}
          = {k \in DOMAIN decls : decls[k].kind = "FnDefn" /\ decls[k].name = n}
    BY <2>3
  <2>5. Cardinality({k \in DOMAIN decls : decls[k].kind = "FnDefn" /\ decls[k].name = n})
          = Cardinality(DefnPositions(original, n))
    BY <1>2 DEF EntryInv, LostInv, NothingIsLost, DefnPositions
  <2> QED  BY <2>4, <2>5
<1> QED  BY <1>1, <1>2, EntryStep, PTL DEF Spec
-----------------------------------------------------------------------------
IsFn(d) == d.kind \in {"FnDecl", "FnDefn"}

\* Nothing is said of a function that the unit did not say of it.
Spread ==
  \A k \in DOMAIN decls :
    IsFn(decls[k]) /\ HasSpecs(decls[k]) => Contract(decls[k]) \in Contracts(original, decls[k].name)

\* The copying loop has gone past what it has copied from.
CopiedSoFar ==
  pc = "copy" =>
    \A m \in DOMAIN to_remove :
      m < i /\ decls[to_remove[m]].kind = "FnDecl" /\ HasSpecs(decls[to_remove[m]])
        => HasSpecs(decls[defn_indices[decls[to_remove[m]].name]])

\* Every function that had a contract has one on an entry that will stay.
Stays(k) == \A m \in DOMAIN to_remove : to_remove[m] # k
Carried ==
  pc \in {"remove", "done"} =>
    \A k \in DOMAIN original :
      IsFn(original[k]) /\ HasSpecs(original[k])
        => \E j \in DOMAIN decls : /\ IsFn(decls[j]) /\ decls[j].name = original[k].name
                                   /\ HasSpecs(decls[j]) /\ Stays(j)

ContractInv == IInv /\ Spread /\ CopiedSoFar /\ Carried

LEMMA DefinitionInPlace ==
  ASSUME IInv, pc = "copy", NEW n \in DOMAIN defn_indices
  PROVE  /\ defn_indices[n] \in 1 .. Len(decls)
         /\ decls[defn_indices[n]].kind = "FnDefn" /\ decls[defn_indices[n]].name = n
<1>1. defn_indices[n] \in DefnPositions(original, n) /\ DOMAIN decls = DOMAIN original
  BY Lengths DEF IInv, Indices, InPlace
<1> QED  BY <1>1, Lengths DEF IInv, InPlace, DefnPositions, Same

LEMMA CopyKeepsContracts == ContractInv /\ CopySpecs => ContractInv'
<1> SUFFICES ASSUME ContractInv, CopySpecs PROVE ContractInv'
  OBVIOUS
<1> USE Lengths
<1> DEFINE decl == decls[to_remove[i]]
           at == defn_indices[decl.name]
<1>0. IInv /\ IInv' /\ pc = "copy" /\ UNCHANGED <<original, defn_indices, to_remove, pc>> /\ i' = i + 1
  BY CopyKeepsIInv DEF ContractInv, CopySpecs
<1>1. i \in 1 .. Len(to_remove) /\ to_remove[i] \in 1 .. Len(decls) /\ HasDefn(decl)
  <2>1. i \in 1 .. Len(to_remove)
    <3>1. i <= Len(to_remove)
      BY ZenonT(30) DEF CopySpecs
    <3> QED  BY <1>0, <3>1
  <2> QED  BY <1>0, <2>1 DEF IInv, Marked
<1>2. DOMAIN decls' = DOMAIN decls /\ DOMAIN decls = 1 .. Len(decls)
  BY <1>0, Copied
<1>3. ASSUME NEW k \in DOMAIN decls
      PROVE  /\ Same(decls'[k], decls[k])
             /\ \/ decls'[k] = decls[k]
                \/ /\ decl.kind = "FnDecl" /\ k = at /\ ~HasSpecs(decls[k])
                   /\ Contract(decls'[k]) = Contract(decl)
  <2>1. Same(decls[k], decls[k])
    BY DEF Same
  <2> QED  BY <1>0, <1>2, <2>1, Copied
<1>4. ASSUME NEW k \in DOMAIN decls, decls[k].kind # "FnDefn" PROVE decls'[k] = decls[k]
  <2>1. CASE decl.kind = "FnDecl" /\ k = at
    <3>1. decl.name \in DOMAIN defn_indices
      BY <1>1, <2>1 DEF HasDefn
    <3> QED  BY <1>0, <1>4, <2>1, <3>1, DefinitionInPlace
  <2> QED  BY <1>3, <2>1
<1>5. Spread'
  <2> SUFFICES ASSUME NEW k \in DOMAIN decls, IsFn(decls'[k]), HasSpecs(decls'[k])
               PROVE  Contract(decls'[k]) \in Contracts(original, decls'[k].name)
    BY <1>0, <1>2 DEF Spread
  <2>1. CASE decls'[k] = decls[k]
    BY <2>1 DEF ContractInv, Spread
  <2>2. CASE decl.kind = "FnDecl" /\ k = at /\ Contract(decls'[k]) = Contract(decl)
    <3>1. HasSpecs(decl)
      BY <2>2 DEF HasSpecs, Contract
    <3>2. decl.name \in DOMAIN defn_indices
      BY <1>1, <2>2 DEF HasDefn
    <3>3. decls'[k].name = decl.name
      BY <1>0, <1>3, <2>2, <3>2, DefinitionInPlace DEF Same
    <3>4. Contract(decl) \in Contracts(original, decl.name)
      BY <1>1, <1>2, <2>2, <3>1 DEF ContractInv, Spread, IsFn
    <3> QED  BY <2>2, <3>3, <3>4
  <2> QED  BY <1>3, <2>1, <2>2
<1>6. CopiedSoFar'
  <2> SUFFICES ASSUME NEW m \in DOMAIN to_remove, m < i + 1, decls'[to_remove[m]].kind = "FnDecl",
                      HasSpecs(decls'[to_remove[m]])
               PROVE  HasSpecs(decls'[defn_indices[decls'[to_remove[m]].name]])
    BY <1>0 DEF CopiedSoFar
  <2> DEFINE d == decls[to_remove[m]]
  <2>1. to_remove[m] \in DOMAIN decls /\ HasDefn(d)
    BY <1>0 DEF IInv, Marked
  <2>2. d.kind = "FnDecl" /\ decls'[to_remove[m]] = d /\ d.name \in DOMAIN defn_indices
    BY <1>3, <1>4, <2>1 DEF Same, HasDefn
  <2>3. defn_indices[d.name] \in DOMAIN decls
    BY <1>0, <1>2, <2>2, DefinitionInPlace
  <2>4. CASE HasSpecs(decls[defn_indices[d.name]])
    <3>1. decls'[defn_indices[d.name]] = decls[defn_indices[d.name]]
      BY <1>3, <2>3, <2>4
    <3> QED  BY <2>2, <2>4, <3>1
  <2>5. CASE ~HasSpecs(decls[defn_indices[d.name]])
    <3>1. ~(m < i)
      BY <1>0, <2>2, <2>5 DEF ContractInv, CopiedSoFar
    <3>2. m = i
      BY <1>1, <3>1
    <3>3. Contract(decls'[defn_indices[d.name]]) = Contract(d)
      BY <1>0, <2>2, <2>5, <3>2, Copied
    <3> QED  BY <2>2, <3>3 DEF HasSpecs, Contract
  <2> QED  BY <2>4, <2>5
<1>7. Carried'
  BY <1>0 DEF Carried
<1> QED  BY <1>0, <1>5, <1>6, <1>7 DEF ContractInv

\* When the loop has gone past everything that is to be removed, what had a
\* contract has it on an entry that is not.
LEMMA EndCopyKeepsContracts == ContractInv /\ EndCopy => ContractInv'
<1> SUFFICES ASSUME ContractInv, EndCopy PROVE ContractInv'
  OBVIOUS
<1> USE Lengths
<1>0. IInv /\ IInv' /\ pc = "copy" /\ pc' = "remove" /\ i > Len(to_remove)
      /\ UNCHANGED <<original, decls, defn_indices, to_remove>>
  BY IInvStep DEF ContractInv, EndCopy, Next
<1>1. Carried'
  <2> SUFFICES ASSUME NEW k \in DOMAIN original, IsFn(original[k]), HasSpecs(original[k])
               PROVE  \E j \in DOMAIN decls : /\ IsFn(decls[j]) /\ decls[j].name = original[k].name
                                              /\ HasSpecs(decls[j]) /\ Stays(j)
    BY <1>0 DEF Carried, Stays
  <2>1. k \in DOMAIN decls /\ Same(decls[k], original[k]) /\ HasSpecs(decls[k])
    BY <1>0 DEF IInv, InPlace
  <2>2. CASE Stays(k)
    BY <2>1, <2>2 DEF Same, IsFn
  <2>3. CASE ~Stays(k)
    <3>1. PICK m \in DOMAIN to_remove : to_remove[m] = k
      BY <2>3 DEF Stays
    <3>2. decls[k].kind = "FnDecl" /\ decls[k].name \in DOMAIN defn_indices
      BY <1>0, <2>1, <3>1 DEF IInv, Marked, HasDefn, IsFn, Same
    <3> DEFINE j == defn_indices[decls[k].name]
    <3>3. j \in DOMAIN decls /\ decls[j].kind = "FnDefn" /\ decls[j].name = decls[k].name
      BY <1>0, <3>2, DefinitionInPlace
    <3>4. HasSpecs(decls[j])
      <4>1. m \in DOMAIN to_remove /\ m < i
        BY <1>0, <3>1
      <4>2. decls[to_remove[m]].kind = "FnDecl" /\ HasSpecs(decls[to_remove[m]])
        BY <2>1, <3>1, <3>2
      <4>3. HasSpecs(decls[defn_indices[decls[to_remove[m]].name]])
        BY <1>0, <4>1, <4>2 DEF ContractInv, CopiedSoFar
      <4> QED  BY <3>1, <4>3
    <3>5. Stays(j)
      BY <1>0, <3>3 DEF Stays, IInv, Marked, HasDefn
    <3> QED  BY <2>1, <3>3, <3>4, <3>5 DEF IsFn, Same
  <2> QED  BY <2>2, <2>3
<1> QED  BY <1>0, <1>1 DEF ContractInv, Spread, CopiedSoFar

LEMMA RemoveKeepsContracts == ContractInv /\ RemoveMerged => ContractInv'
<1> SUFFICES ASSUME ContractInv, RemoveMerged PROVE ContractInv'
  OBVIOUS
<1>0. IInv /\ IInv' /\ pc = "remove" /\ UNCHANGED <<original, defn_indices, pc>>
  BY RemoveKeepsIInv DEF ContractInv, RemoveMerged
<1>1. /\ Largest \in 1 .. Len(decls) /\ Len(decls) \in Nat /\ DOMAIN decls = 1 .. Len(decls)
      /\ DOMAIN decls' = 1 .. Len(decls) - 1
      /\ \A j \in 1 .. Len(decls) - 1 :
           Old(Largest, j) \in 1 .. Len(decls) /\ decls'[j] = decls[Old(Largest, j)]
  BY <1>0, RemovedLast
<1>2. /\ Len(to_remove) \in Nat /\ Len(to_remove) \in DOMAIN to_remove
      /\ DOMAIN to_remove' = 1 .. Len(to_remove) - 1
      /\ \A m \in 1 .. Len(to_remove) - 1 :
           m \in DOMAIN to_remove /\ to_remove'[m] = to_remove[m] /\ to_remove[m] < Largest
  BY <1>0, RemovedLast
<1>3. Spread'
  BY <1>0, <1>1 DEF ContractInv, Spread
<1>4. ASSUME NEW k \in DOMAIN decls, Stays(k)
      PROVE  \E j \in DOMAIN decls' : decls'[j] = decls[k] /\ Stays(j)'
  <2>1. k # Largest
    BY <1>2, <1>4 DEF Stays, Largest
  <2>2. PICK j \in 1 .. Len(decls) - 1 : Old(Largest, j) = k
    <3>1. Len(decls) \in Nat /\ Largest \in 1 .. Len(decls) /\ k \in 1 .. Len(decls)
      BY <1>1
    <3> QED  BY <2>1, <3>1, OldIsOnto
  <2>3. ASSUME NEW m \in DOMAIN to_remove', to_remove'[m] = j PROVE FALSE
    <3>1. m \in DOMAIN to_remove /\ to_remove[m] = j /\ j < Largest
      BY <1>2, <2>3
    <3>2. Old(Largest, j) = j
      BY <3>1 DEF Old
    <3> QED  BY <1>4, <2>2, <3>1, <3>2 DEF Stays
  <2>4. Stays(j)'
    BY <2>3 DEF Stays
  <2> QED  BY <1>1, <2>2, <2>4
<1>5. Carried'
  <2> SUFFICES ASSUME NEW k \in DOMAIN original, IsFn(original[k]), HasSpecs(original[k])
               PROVE  \E j \in DOMAIN decls' : /\ IsFn(decls'[j]) /\ decls'[j].name = original[k].name
                                               /\ HasSpecs(decls'[j]) /\ Stays(j)'
    BY <1>0 DEF Carried
  <2>1. PICK j \in DOMAIN decls : /\ IsFn(decls[j]) /\ decls[j].name = original[k].name
                                  /\ HasSpecs(decls[j]) /\ Stays(j)
    BY <1>0 DEF ContractInv, Carried
  <2> QED  BY <1>4, <2>1
<1> QED  BY <1>0, <1>3, <1>5 DEF ContractInv, CopiedSoFar

LEMMA ContractStep == ContractInv /\ [Next]_vars => ContractInv'
<1> SUFFICES ASSUME ContractInv, [Next]_vars PROVE ContractInv'
  OBVIOUS
<1>0. IInv /\ IInv'
  BY IInvStep DEF ContractInv
<1>1. CASE MatchFnDecl \/ MatchStructDecl \/ MatchOther
  BY <1>0, <1>1 DEF MatchFnDecl, MatchStructDecl, MatchOther, ContractInv, Spread, CopiedSoFar, Carried
<1>2. CASE EndMatch
  <2>1. \A m \in DOMAIN to_remove : ~(m < 1)
    BY <1>0, Lengths
  <2> QED  BY <1>0, <1>2, <2>1 DEF EndMatch, ContractInv, Spread, CopiedSoFar, Carried
<1>3. CASE CopySpecs
  BY <1>3, CopyKeepsContracts
<1>4. CASE EndCopy
  BY <1>4, EndCopyKeepsContracts
<1>5. CASE RemoveMerged
  BY <1>5, RemoveKeepsContracts
<1>6. CASE Return
  BY <1>0, <1>6 DEF Return, ContractInv, Spread, CopiedSoFar, Carried, Stays
<1>7. CASE UNCHANGED vars
  BY <1>0, <1>7 DEF vars, ContractInv, Spread, CopiedSoFar, Carried, Stays
<1> QED  BY <1>1, <1>2, <1>3, <1>4, <1>5, <1>6, <1>7 DEF Next

\* When the pass returns, a function to which the unit gives one contract, on
\* whatever declarations, has exactly that contract.
THEOREM OneContractIsKeptHolds == Spec => []OneContractIsKept
<1>1. Init => ContractInv
  <2> SUFFICES ASSUME Init PROVE ContractInv
    OBVIOUS
  <2>1. IInv
    BY IInvInit
  <2>2. Spread
    BY DEF Init, Spread, Contracts, IsFn
  <2> QED  BY <2>1, <2>2 DEF Init, ContractInv, CopiedSoFar, Carried
<1>2. ASSUME ContractInv PROVE OneContractIsKept
  <2> SUFFICES ASSUME pc = "done", NEW n, NEW c \in Contracts(original, n), Contracts(original, n) = {c}
               PROVE  Contracts(decls, n) = {c}
    BY DEF OneContractIsKept
  <2>1. \A d \in Contracts(decls, n) : d = c
    BY <1>2 DEF ContractInv, Spread, Contracts, IsFn
  <2>2. PICK k \in DOMAIN original : IsFn(original[k]) /\ original[k].name = n /\ HasSpecs(original[k])
    BY DEF Contracts, IsFn
  <2>3. PICK j \in DOMAIN decls : IsFn(decls[j]) /\ decls[j].name = n /\ HasSpecs(decls[j])
    BY <1>2, <2>2 DEF ContractInv, Carried
  <2>4. Contract(decls[j]) \in Contracts(decls, n)
    BY <2>3 DEF Contracts, IsFn
  <2> QED  BY <2>1, <2>4
<1> QED  BY <1>1, <1>2, ContractStep, PTL DEF Spec
=============================================================================
