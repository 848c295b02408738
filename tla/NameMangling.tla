---------------------------- MODULE NameMangling ----------------------------
(***************************************************************************)
(* The emitter's name table (src/src/pass/emit.rs, NameMangling).  Every   *)
(* entity of the C program (a variable, a function, the predicate of a     *)
(* struct, ...) is a Name; the Pulse identifier it is emitted as is chosen *)
(* when the name is first met and remembered.  The emitter asks for names  *)
(* in whatever order the program makes it.                                 *)
(*                                                                         *)
(* A string is the sequence of its parts between underscores, so "x_1" is  *)
(* <<"x", "1">> and "struct_s__f" is <<"struct", "s", "", "f">>: putting   *)
(* strings together with underscores is concatenation, and different names *)
(* may well spell the same string.                                         *)
(***************************************************************************)
EXTENDS Naturals, Sequences, FiniteSets, TLC

CONSTANTS
  Part,      \* the parts of strings
  LowerOf,   \* the lower-case form of the parts that have upper-case letters
  Names      \* the names the emitter may ask for

Str == Seq(Part)

\* Names of the members of a struct, a union or a type reference are built
\* from the string of the type: `spelled` is the start of its spelling.
TypeSpelling == [struct |-> "struct", union |-> "union", typedef |-> "ty"]

\* What Name::to_string puts before a name's first and second component.
Format ==
  [Var |-> [pre |-> <<"var">>, mid |-> << >>],
   Val |-> [pre |-> <<"val">>, mid |-> << >>],
   Perm |-> [pre |-> <<"p">>, mid |-> << >>],
   Fn |-> [pre |-> <<"func">>, mid |-> << >>],
   TypeRef |-> [pre |-> << >>, mid |-> << >>],
   TypeRefPred |-> [pre |-> << >>, mid |-> <<"", "pred">>],
   TypeRefUninitPred |-> [pre |-> << >>, mid |-> <<"", "uninit", "pred">>],
   TypeRefDefault |-> [pre |-> <<"has", "zero", "default">>, mid |-> << >>],
   FieldProj |-> [pre |-> << >>, mid |-> <<"", "get">>],
   DirectFieldName |-> [pre |-> << >>, mid |-> <<"">>],
   GhostFieldProj |-> [pre |-> << >>, mid |-> <<"">>],
   AuxFn |-> [pre |-> << >>, mid |-> <<"", "aux">>],
   UnionFieldConstructor |-> [pre |-> <<"Field">>, mid |-> <<"">>]]

\* A name: its constructor, the kind of type it belongs to ("none" if it
\* belongs to no type) and its two components ("second" is empty if it has
\* one, and holds the function and the field of a union's auxiliary function).
Name == [con : DOMAIN Format, kind : DOMAIN TypeSpelling \cup {"none"},
         first : Str, second : Str]

ASSUME NamesAssumption ==
  /\ Names \subseteq Name
  /\ LowerOf \in [DOMAIN LowerOf -> Part]
  /\ \A p \in DOMAIN LowerOf : p \in Part /\ LowerOf[p] \notin DOMAIN LowerOf

\* What names are put together from is a string, and the prefix of a
\* constructor's name has an upper-case letter.
ASSUME FormatAssumption ==
  /\ \A c \in DOMAIN Format : Format[c].pre \in Str /\ Format[c].mid \in Str
  /\ \A k \in DOMAIN TypeSpelling : TypeSpelling[k] \in Part
  /\ "Field" \in DOMAIN LowerOf

VARIABLES
  map,     \* NameMangling.map: what each name met so far is emitted as
  used     \* NameMangling.used: the strings that are taken

vars == <<map, used>>
-----------------------------------------------------------------------------
RESERVED ==
  {<<"fn">>, <<"assume">>, <<"requires">>, <<"ensures">>, <<"preserves">>, <<"continue">>,
   <<"break">>, <<"label">>, <<"goto">>, <<"return">>, <<"stt">>, <<"stt", "ghost">>,
   <<"stt", "atomic">>, <<"ref">>, <<"array">>, <<"admit">>, <<"bool">>, <<"unit">>,
   <<"slprop">>, <<"emp">>, <<"emp", "inames">>, <<"int">>, <<"nat">>, <<"not">>,
   <<"pulse", "eager", "unfold">>, <<"pulse", "intro">>}

to_string(n) ==
  IF n.con = "Var" /\ n.first \in {<<"this">>, <<"return">>} THEN n.first
  ELSE Format[n.con].pre
         \o (IF n.kind = "none" THEN << >> ELSE <<TypeSpelling[n.kind]>>)
         \o n.first \o Format[n.con].mid \o n.second

to_lowercase(s) ==
  [k \in DOMAIN s |-> IF s[k] \in DOMAIN LowerOf THEN LowerOf[s[k]] ELSE s[k]]

\* Mutant: constructors are lower-cased like everything else.
LowerBase(n) == to_lowercase(to_string(n))

\* F* takes an identifier for a constructor only if it starts in upper case.
Base(n) ==
  IF n.con = "UnionFieldConstructor" THEN to_string(n) ELSE to_lowercase(to_string(n))

WithSuffix(base, k) == Append(base, ToString(k))

\* Mutant: a number is always appended.
AlwaysSuffixed(base, new) ==
  \E k \in 1 .. Cardinality(used) + 1 :
    /\ new = WithSuffix(base, k)
    /\ new \notin used
    /\ \A j \in 1 .. k - 1 : WithSuffix(base, j) \in used

\* Mutant: the first numbered form is taken unseen.
FirstSuffix(base, new) == new = IF base \in used THEN WithSuffix(base, 1) ELSE base

\* The base itself, or the first of base_1, base_2, ... that is not taken.
\* One of the first |used| + 1 of them is free, so the loop, unbounded in the
\* code, is bounded by that.
PickNew(base, new) ==
  IF base \notin used THEN new = base
  ELSE \E k \in 1 .. Cardinality(used) + 1 :
         /\ new = WithSuffix(base, k)
         /\ new \notin used
         /\ \A j \in 1 .. k - 1 : WithSuffix(base, j) \in used

Candidates(base) ==
  {base} \cup {WithSuffix(base, k) : k \in 1 .. Cardinality(used) + 1}
-----------------------------------------------------------------------------
\* Mutant: the reserved words are forgotten.
InitUnreserved == map = [n \in {} |-> << >>] /\ used = {}

Init == map = [n \in {} |-> << >>] /\ used = RESERVED

Bind(n, s) == [m \in DOMAIN map \cup {n} |-> IF m = n THEN s ELSE map[m]]

\* Mutant: the new string is not entered in `used`.
MangleForgets(n) ==
  /\ n \notin DOMAIN map
  /\ \E new \in Candidates(Base(n)) : PickNew(Base(n), new) /\ map' = Bind(n, new)
  /\ UNCHANGED used

\* Mutant: the map is written and never read.
MangleAgain(n) ==
  /\ Cardinality(used) < Cardinality(RESERVED) + 4
  /\ \E new \in Candidates(Base(n)) :
       /\ PickNew(Base(n), new)
       /\ map' = Bind(n, new)
       /\ used' = used \cup {new}

\* NameMangling::mangle for a name that is not in the map yet.  For one that
\* is, mangle returns the remembered string and changes nothing.
Mangle(n) ==
  /\ n \notin DOMAIN map
  /\ \E new \in Candidates(Base(n)) :
       /\ PickNew(Base(n), new)
       /\ map' = Bind(n, new)
       /\ used' = used \cup {new}

Next == \E n \in Names : Mangle(n)

Spec == Init /\ [][Next]_vars
-----------------------------------------------------------------------------
\* The table maps names to strings, a constructor to one that keeps its
\* upper-case start and any other name to one without upper case (emit.rs:298).
IsLower(s) == \A k \in DOMAIN s : s[k] \notin DOMAIN LowerOf
TypeOK ==
  /\ DOMAIN map \subseteq Names
  /\ \A n \in DOMAIN map : map[n] \in Seq(Part)
  /\ \A n \in DOMAIN map : IsLower(map[n]) <=> n.con # "UnionFieldConstructor"
  /\ used = RESERVED \cup {map[n] : n \in DOMAIN map}

\* Two entities of the C program are never emitted as one Pulse identifier,
\* though many of them spell the same string: the getter of field f and a
\* field get_f, x_1 and the second x, X and x.
NoTwoNamesCoincide == \A m, n \in DOMAIN map : map[m] = map[n] => m = n

\* Nothing is emitted as a keyword of Pulse or a name of its library.
NothingReserved == \A n \in DOMAIN map : map[n] \notin RESERVED

\* A name is emitted the same way at its definition and at every use.
NamesStay == [][\A n \in DOMAIN map : n \in DOMAIN map' /\ map'[n] = map[n]]_vars

\* A name is renamed only because another entity or a reserved word has its
\* spelling, so the names in hand-written Pulse code refer to what they say.
RenamedOnlyIfTaken ==
  \A n \in DOMAIN map :
    map[n] # Base(n) =>
      Base(n) \in RESERVED \cup {map[m] : m \in DOMAIN map \ {n}}
=============================================================================
