------------------------- MODULE MCRestructureGoto -------------------------
(***************************************************************************)
(* Function bodies of up to five statements over two labels: gotos and     *)
(* labels at the top level and nested in an if or a while, in every order, *)
(* each label at most once, as the C front end guarantees.                 *)
(***************************************************************************)
EXTENDS GotoTreeLaws

Trees == INSTANCE GotoTrees
MCHasGoto(s, l) == Trees!stmt_contains_goto(s, l)
MCRestructured(s) == Trees!restructure_stmt(s)
MCRestructuredList(list) == Trees!restructure_stmts(list)
MCRounds(list, skip) == Trees!RestructureLabels(list, skip)
MCNestedLists(s) == Trees!ListsIn(s)
MCWritten(s) == Trees!TextOf(s)

Leaf(kind, name) == [kind |-> kind, name |-> name, subs |-> << >>]
If(b1, b2) == [kind |-> "if", name |-> "c", subs |-> <<b1, b2>>]
While(body) == [kind |-> "while", name |-> "w", subs |-> <<body>>]

MCStmts ==
  {Leaf("plain", "p"), Leaf("goto", "a"), Leaf("goto", "b"), Leaf("label", "a"), Leaf("label", "b"),
   If(<<Leaf("goto", "a")>>, <<Leaf("plain", "q")>>),
   If(<<Leaf("plain", "q")>>, <<Leaf("goto", "b")>>),
   While(<<Leaf("goto", "b"), Leaf("plain", "q"), Leaf("label", "b"), Leaf("goto", "a")>>)}

CONSTANT MaxLen    \* the longest body

\* Each label is there once if there is a goto to it, and never twice.
MCBodies ==
  {list \in BoundedSeq(MCStmts, MaxLen) :
     \A l \in {"a", "b"} :
       LET Labelled == {k \in DOMAIN list : l \in LabelsOf(list[k])} IN
         /\ Cardinality(Labelled) <= 1
         /\ (\E k \in DOMAIN list : HasGoto(list[k], l)) => Labelled # {}}

\* The definitions of GotoTrees satisfy the laws the proofs rest on, here for
\* the lists nested in a body before or after the pass and their statements.
ASSUME LawsAreThoseOfTheTrees ==
  \A body \in MCBodies : \A list \in ListsOf(body) \cup ListsOf(RestructuredList(body)) :
    /\ RestructuredListLaw(list)
    /\ \A skip \in SUBSET Name : RoundsLaw(list, skip)
    /\ \A k \in DOMAIN list :
         /\ \A l \in Name : HasGotoLaw(list[k], l)
         /\ NestedListsLaw(list[k])
         /\ WrittenLaw(list[k])
         /\ RestructuredLaw(list[k])
=============================================================================
