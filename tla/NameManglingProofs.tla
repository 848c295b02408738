------------------------- MODULE NameManglingProofs -------------------------
(***************************************************************************)
(* Proofs about the emitter's name table, for every set of names and       *)
(* whatever they spell.  They use of the spelling of names nothing but     *)
(* that each name has a base: that different names spell the same string   *)
(* is what the table is there to cope with.                                *)
(***************************************************************************)
EXTENDS NameMangling, FiniteSetTheorems, SequenceTheorems, WellFoundedInduction, TLAPS

\* The table and the set of strings it must avoid say the same; without that,
\* a string that is handed out could be handed out again.
UsedIsWhatIsTaken == used = RESERVED \cup {map[n] : n \in DOMAIN map}

IInv == UsedIsWhatIsTaken /\ NoTwoNamesCoincide /\ NothingReserved /\ RenamedOnlyIfTaken

\* A string the loop settles on is free, and is the base if the base is free.
LEMMA PickedIsFree ==
  ASSUME NEW base, NEW new, PickNew(base, new)
  PROVE  new \notin used /\ (new # base => base \in used)
BY DEF PickNew

\* The loop of pick_new, unbounded in the code, finds a free string within
\* |used| + 1 tries, if different numbers are written differently.
LEMMA PickNewIsTotal ==
  ASSUME IsFiniteSet(used), NEW base \in Seq(Part),
         \A k \in Nat : ToString(k) \in Part,
         \A j, k \in Nat : ToString(j) = ToString(k) => j = k
  PROVE  \E new : PickNew(base, new)
<1> DEFINE tries == 1 .. Cardinality(used) + 1
           free == {k \in tries : WithSuffix(base, k) \notin used}
           less == OpToRel(<, Nat)
<1>1. Cardinality(used) \in Nat
  BY FS_CardinalityType
<1>2. ASSUME NEW j \in tries, NEW k \in tries, WithSuffix(base, j) = WithSuffix(base, k)
      PROVE  j = k
  <2>1. WithSuffix(base, j)[Len(base) + 1] = ToString(j)
    BY <1>1, AppendProperties DEF WithSuffix
  <2>2. WithSuffix(base, k)[Len(base) + 1] = ToString(k)
    BY <1>1, AppendProperties DEF WithSuffix
  <2> QED  BY <1>1, <1>2, <2>1, <2>2
<1>3. free # {}
  <2> SUFFICES ASSUME \A k \in tries : WithSuffix(base, k) \in used PROVE FALSE
    OBVIOUS
  <2> DEFINE f == [k \in tries |-> WithSuffix(base, k)]
  <2>1. f \in [tries -> used]
    OBVIOUS
  <2>2. IsFiniteSet(tries) /\ Cardinality(tries) = Cardinality(used) + 1
    BY <1>1, FS_Interval
  <2>3. Cardinality(used) < Cardinality(tries)
    BY <1>1, <2>2
  <2>4. \E j, k \in tries : j # k /\ f[j] = f[k]
    <3> HIDE DEF f, tries
    <3> QED  BY <2>1, <2>2, <2>3, FS_PigeonHole
  <2> QED  BY <1>2, <2>4
<1>4. PICK k \in free : \A j \in free : <<j, k>> \notin less
  <2>1. free \subseteq Nat
    BY <1>1
  <2> HIDE DEF free
  <2> QED  BY <1>3, <2>1, NatLessThanWellFounded, WFMin
<1>5. ASSUME NEW j \in Nat, NEW m \in Nat, j < m PROVE <<j, m>> \in less
  BY <1>5, Zenon DEF OpToRel
<1>6. ASSUME NEW j \in 1 .. k - 1 PROVE WithSuffix(base, j) \in used
  <2>1. k \in Nat /\ j \in Nat /\ j < k /\ j \in tries
    BY <1>1
  <2>2. <<j, k>> \in less
    BY <1>5, <2>1
  <2>3. j \notin free
    <3> HIDE DEF free, less
    <3> QED  BY <1>4, <2>2
  <2> QED  BY <2>1, <2>3
<1> QED  BY <1>6 DEF PickNew

\* The table after a name has been entered
LEMMA Entered ==
  ASSUME NEW n \in Names, Mangle(n)
  PROVE  \E new : /\ new \notin used /\ (new # Base(n) => Base(n) \in used)
                  /\ n \notin DOMAIN map
                  /\ DOMAIN map' = DOMAIN map \cup {n}
                  /\ \A m \in DOMAIN map : map'[m] = map[m]
                  /\ map'[n] = new
                  /\ used' = used \cup {new}
<1>1. PICK new : PickNew(Base(n), new) /\ map' = Bind(n, new) /\ used' = used \cup {new}
  BY DEF Mangle
<1>2. n \notin DOMAIN map
  BY DEF Mangle
<1>3. new \notin used /\ (new # Base(n) => Base(n) \in used)
  BY <1>1, PickedIsFree
<1>4. /\ DOMAIN map' = DOMAIN map \cup {n}
      /\ \A m \in DOMAIN map : map'[m] = map[m]
      /\ map'[n] = new
  BY <1>1, <1>2 DEF Bind
<1> QED  BY <1>1, <1>2, <1>3, <1>4

\* Entering a name keeps the table and the strings it avoids in agreement.
LEMMA IInvStep == IInv /\ [Next]_vars => IInv'
<1> SUFFICES ASSUME IInv, [Next]_vars PROVE IInv'
  OBVIOUS
<1>1. CASE Next
  <2>1. PICK n \in Names : Mangle(n)
    BY <1>1 DEF Next
  <2>2. PICK new : /\ new \notin used /\ (new # Base(n) => Base(n) \in used)
                   /\ n \notin DOMAIN map
                   /\ DOMAIN map' = DOMAIN map \cup {n}
                   /\ \A m \in DOMAIN map : map'[m] = map[m]
                   /\ map'[n] = new
                   /\ used' = used \cup {new}
    BY <2>1, Entered
  <2>3. UsedIsWhatIsTaken'
    BY <2>2 DEF IInv, UsedIsWhatIsTaken
  <2>4. NoTwoNamesCoincide'
    BY <2>2 DEF IInv, NoTwoNamesCoincide, UsedIsWhatIsTaken
  <2>5. NothingReserved'
    BY <2>2 DEF IInv, NothingReserved, UsedIsWhatIsTaken
  <2>6. RenamedOnlyIfTaken'
    BY <2>2 DEF IInv, RenamedOnlyIfTaken, UsedIsWhatIsTaken
  <2> QED  BY <2>3, <2>4, <2>5, <2>6 DEF IInv
<1>2. CASE UNCHANGED vars
  BY <1>2 DEF vars, IInv, UsedIsWhatIsTaken, NoTwoNamesCoincide, NothingReserved, RenamedOnlyIfTaken
<1> QED  BY <1>1, <1>2

\* In every reachable state the table agrees with the strings it avoids.
THEOREM Invariance == Spec => []IInv
<1>1. Init => IInv
  BY DEF Init, IInv, UsedIsWhatIsTaken, NoTwoNamesCoincide, NothingReserved, RenamedOnlyIfTaken
<1> QED  BY <1>1, IInvStep, PTL DEF Spec

\* Two entities of the C program are never emitted as one Pulse identifier,
\* whatever they are called (emit.rs:268-296).
THEOREM NoTwoNamesCoincideHolds == Spec => []NoTwoNamesCoincide
BY Invariance, PTL DEF IInv

\* Nothing is emitted as a reserved word (emit.rs:236-266).
THEOREM NothingReservedHolds == Spec => []NothingReserved
BY Invariance, PTL DEF IInv

\* A name keeps its spelling unless another entity or a reserved word has it.
THEOREM RenamedOnlyIfTakenHolds == Spec => []RenamedOnlyIfTaken
BY Invariance, PTL DEF IInv

\* What a name was emitted as never changes: its definition and its uses agree.
THEOREM NamesStayHolds == Spec => NamesStay
<1>1. [Next]_vars => [\A n \in DOMAIN map : n \in DOMAIN map' /\ map'[n] = map[n]]_vars
  <2> SUFFICES ASSUME Next PROVE \A n \in DOMAIN map : n \in DOMAIN map' /\ map'[n] = map[n]
    OBVIOUS
  <2>1. PICK n \in Names : Mangle(n)
    BY DEF Next
  <2> QED  BY <2>1, Entered
<1> QED  BY <1>1, PTL DEF Spec, NamesStay
-----------------------------------------------------------------------------
\* Two strings put together are a string, which starts as the first does.
LEMMA PutTogether ==
  ASSUME NEW s \in Str, NEW t \in Str
  PROVE  s \o t \in Str /\ (s # << >> => s \o t # << >> /\ (s \o t)[1] = s[1])
<1>1. s \o t \in Str
  BY ConcatProperties DEF Str
<1>2. ASSUME s # << >> PROVE s \o t # << >> /\ (s \o t)[1] = s[1]
  <2>1. Len(s) \in Nat /\ Len(s) >= 1
    BY <1>2, EmptySeq DEF Str
  <2>2. Len(s \o t) = Len(s) + Len(t) /\ Len(t) \in Nat
    BY ConcatProperties DEF Str
  <2>3. (s \o t)[1] = s[1]
    BY <2>1, <2>2, ConcatProperties DEF Str
  <2> QED  BY <2>1, <2>2, <2>3
<1> QED  BY <1>1, <1>2

\* What a name spells is a string, and a constructor's starts with its prefix.
LEMMA Spelled ==
  ASSUME NEW n \in Name
  PROVE  /\ to_string(n) \in Str
         /\ n.con = "UnionFieldConstructor" =>
              to_string(n) # << >> /\ to_string(n)[1] = "Field"
<1> DEFINE pre == Format[n.con].pre
           mid == Format[n.con].mid
           first == n.first
           second == n.second
           kind == IF n.kind = "none" THEN << >> ELSE <<TypeSpelling[n.kind]>>
<1>1. pre \in Str /\ mid \in Str
  BY FormatAssumption DEF Name
<1>2. kind \in Str
  <2>1. CASE n.kind = "none"
    BY <2>1 DEF Str
  <2>2. CASE n.kind # "none"
    <3>1. TypeSpelling[n.kind] \in Part
      BY <2>2, FormatAssumption DEF Name
    <3> QED  BY <2>2, <3>1 DEF Str
  <2> QED  BY <2>1, <2>2
<1>3. first \in Str /\ second \in Str
  BY DEF Name
<1>5. CASE n.con = "Var" /\ n.first \in {<<"this">>, <<"return">>}
  BY <1>3, <1>5 DEF to_string
<1>6. CASE ~(n.con = "Var" /\ n.first \in {<<"this">>, <<"return">>})
  <2>1. to_string(n) = pre \o kind \o first \o mid \o second
    BY <1>6 DEF to_string
  <2>2. n.con = "UnionFieldConstructor" => pre # << >> /\ pre[1] = "Field"
    <3>1. Format["UnionFieldConstructor"].pre = <<"Field">>
      BY DEF Format
    <3> QED  BY <3>1
  <2> DEFINE two == pre \o kind
             three == two \o first
             four == three \o mid
             Starts(s) == s \in Str /\ (pre # << >> => s # << >> /\ s[1] = pre[1])
  <2> HIDE DEF pre, mid, kind, first, second
  <2>3. Starts(two)
    BY <1>1, <1>2, PutTogether
  <2>4. Starts(three)
    <3> HIDE DEF two
    <3> QED  BY <1>3, <2>3, PutTogether
  <2>5. Starts(four)
    <3> HIDE DEF three
    <3> QED  BY <1>1, <2>4, PutTogether
  <2>6. Starts(four \o second)
    <3> HIDE DEF four
    <3> QED  BY <1>3, <2>5, PutTogether
  <2> QED  BY <2>1, <2>2, <2>6
<1> QED  BY <1>5, <1>6

\* The base of a constructor's name has an upper-case letter, that of any
\* other name has none.
LEMMA BaseOf ==
  ASSUME NEW n \in Name
  PROVE  Base(n) \in Seq(Part) /\ (IsLower(Base(n)) <=> n.con # "UnionFieldConstructor")
<1> DEFINE s == to_string(n)
<1>1. s \in Seq(Part) /\ (n.con = "UnionFieldConstructor" => s # << >> /\ s[1] = "Field")
  BY Spelled DEF Str
<1> HIDE DEF s
<1>2. Len(s) \in Nat /\ DOMAIN s = 1 .. Len(s) /\ \A k \in 1 .. Len(s) : s[k] \in Part
  BY <1>1
<1>3. CASE n.con = "UnionFieldConstructor"
  <2>1. 1 \in DOMAIN s /\ s[1] \in DOMAIN LowerOf
    BY <1>1, <1>2, <1>3, EmptySeq, FormatAssumption
  <2> QED  BY <1>1, <1>3, <2>1 DEF Base, IsLower, s
<1>4. CASE n.con # "UnionFieldConstructor"
  <2> DEFINE low(p) == IF p \in DOMAIN LowerOf THEN LowerOf[p] ELSE p
  <2>1. \A p \in Part : low(p) \in Part /\ low(p) \notin DOMAIN LowerOf
    BY NamesAssumption
  <2>2. Base(n) = [k \in 1 .. Len(s) |-> low(s[k])]
    BY <1>2, <1>4 DEF Base, to_lowercase, s
  <2> HIDE DEF low
  <2>3. Base(n) \in Seq(Part)
    BY <1>2, <2>1, <2>2
  <2>4. DOMAIN Base(n) = 1 .. Len(s) /\ \A k \in 1 .. Len(s) : Base(n)[k] = low(s[k])
    BY <2>2
  <2> QED  BY <1>2, <1>4, <2>1, <2>3, <2>4 DEF IsLower
<1> QED  BY <1>3, <1>4

\* A number put behind a string changes nothing about its letters.
LEMMA Suffixed ==
  ASSUME NEW base \in Seq(Part), NEW k, ToString(k) \in Part \ DOMAIN LowerOf
  PROVE  /\ WithSuffix(base, k) \in Seq(Part)
         /\ IsLower(WithSuffix(base, k)) <=> IsLower(base)
<1> DEFINE new == WithSuffix(base, k)
<1>1. /\ Len(base) \in Nat /\ DOMAIN base = 1 .. Len(base)
      /\ new \in Seq(Part) /\ DOMAIN new = 1 .. Len(base) + 1
      /\ \A j \in 1 .. Len(base) : new[j] = base[j]
      /\ new[Len(base) + 1] = ToString(k)
  BY AppendProperties DEF WithSuffix
<1> HIDE DEF new
<1>2. IsLower(new) <=> IsLower(base)
  <2>1. ASSUME IsLower(new) PROVE IsLower(base)
    BY <1>1, <2>1 DEF IsLower
  <2>2. ASSUME IsLower(base), NEW j \in DOMAIN new PROVE new[j] \notin DOMAIN LowerOf
    <3>1. CASE j = Len(base) + 1
      BY <1>1, <3>1
    <3>2. CASE j \in 1 .. Len(base)
      BY <1>1, <2>2, <3>2 DEF IsLower
    <3> QED  BY <1>1, <2>2, <3>1, <3>2
  <2> QED  BY <2>1, <2>2 DEF IsLower
<1> QED  BY <1>1, <1>2 DEF new

\* The table maps names to strings: a union's constructors to ones that keep
\* an upper-case letter, as F* requires of a constructor, and any other name to
\* one without (emit.rs:298-318), whatever number is put behind them.
THEOREM TypesAreRight ==
  ASSUME \A k \in Nat : ToString(k) \in Part \ DOMAIN LowerOf
  PROVE  Spec => []TypeOK
<1>1. Init => TypeOK
  BY DEF Init, TypeOK
<1>2. TypeOK /\ [Next]_vars => TypeOK'
  <2> SUFFICES ASSUME TypeOK, [Next]_vars PROVE TypeOK'
    OBVIOUS
  <2>1. CASE Next
    <3>1. PICK n \in Names : Mangle(n)
      BY <2>1 DEF Next
    <3>2. PICK new : PickNew(Base(n), new) /\ map' = Bind(n, new) /\ used' = used \cup {new}
      BY <3>1 DEF Mangle
    <3>3. n \in Name /\ n \notin DOMAIN map
      BY <3>1, NamesAssumption DEF Mangle
    <3>4. new \in Seq(Part) /\ (IsLower(new) <=> n.con # "UnionFieldConstructor")
      <4>1. Base(n) \in Seq(Part) /\ (IsLower(Base(n)) <=> n.con # "UnionFieldConstructor")
        BY <3>3, BaseOf
      <4>2. CASE new = Base(n)
        BY <4>1, <4>2
      <4>3. CASE new # Base(n)
        <5>1. PICK k \in Nat : new = WithSuffix(Base(n), k)
          BY <3>2, <4>3 DEF PickNew
        <5> QED  BY <4>1, <5>1, Suffixed
      <4> QED  BY <4>2, <4>3
    <3>5. /\ DOMAIN map' = DOMAIN map \cup {n}
          /\ \A m \in DOMAIN map : map'[m] = map[m]
          /\ map'[n] = new
      BY <3>2, <3>3 DEF Bind
    <3> QED  BY <3>2, <3>4, <3>5 DEF TypeOK
  <2>2. CASE UNCHANGED vars
    BY <2>2 DEF vars, TypeOK
  <2> QED  BY <2>1, <2>2
<1> QED  BY <1>1, <1>2, PTL DEF Spec
=============================================================================
