---------------------------- MODULE GotoTreeLaws ----------------------------
(***************************************************************************)
(* What the parameters of RestructureGoto are: the equations by which      *)
(* GotoTrees defines them, and what makes statements trees.  The proofs    *)
(* reason from these laws, since the provers cannot expand a recursive     *)
(* definition; TLC checks that the definitions of GotoTrees satisfy the    *)
(* equations (MCRestructureGoto).                                          *)
(***************************************************************************)
EXTENDS RestructureGoto

CONSTANTS
  Stmt, Name,             \* all statements, and the names in them
  RestructuredList(_),    \* restructure_stmts
  Rounds(_, _)            \* the loop of restructure_stmts, from a list and skipped labels on

\* What opens a statement and what closes it
Opening(s) == IF s.kind = "block" THEN << >> ELSE <<<<s.kind, s.name>>>>
Closing(s) ==
  IF s.kind = "block" THEN <<<<"label", s.name>>>>
  ELSE IF s.subs = << >> THEN << >> ELSE <<<<"end", s.name>>>>

HasGotoLaw(s, l) ==
  HasGoto(s, l) <=>
    \/ s.kind = "goto" /\ s.name = l
    \/ \E j \in DOMAIN s.subs : \E k \in DOMAIN s.subs[j] : HasGoto(s.subs[j][k], l)

NestedListsLaw(s) == NestedLists(s) = UNION {ListsOf(s.subs[j]) : j \in DOMAIN s.subs}

WrittenLaw(s) ==
  Written(s) = Opening(s) \o FlattenSeq([j \in DOMAIN s.subs |-> Text(s.subs[j])]) \o Closing(s)

RestructuredLaw(s) ==
  Restructured(s) = [s EXCEPT !.subs = [j \in DOMAIN s.subs |-> RestructuredList(s.subs[j])]]

\* The nested lists first, then the labels of the list
EachRestructured(list) == [k \in DOMAIN list |-> Restructured(list[k])]
RestructuredListLaw(list) == RestructuredList(list) = Rounds(EachRestructured(list), {})

RoundsLaw(list, skip) ==
  LET at == LabelIdx(list, skip)
      start == FirstGoto(list, at)
  IN Rounds(list, skip) =
       IF at = 0 THEN list
       ELSE IF start = 0 THEN Rounds(list, skip \cup {list[at].name})
       ELSE Rounds(Splice(list, start, at), skip)
-----------------------------------------------------------------------------
\* Statements are records, the lists nested in them are lists of statements;
\* nothing is nested in a label; statements with other statements nested in
\* them are statements, blocks among them.
Kinds == {"plain", "goto", "label", "if", "while", "block"}
StmtsAreRecords ==
  /\ Stmt \subseteq [kind : Kinds, name : Name, subs : Seq(Seq(Stmt))]
  /\ \A s \in Stmt : s.kind = "label" => s.subs = << >>
  /\ \A l \in Name, body \in Seq(Stmt) : Block(l, body) \in Stmt
  /\ \A s \in Stmt, lists \in Seq(Seq(Stmt)) :
       Len(lists) = Len(s.subs) => [s EXCEPT !.subs = lists] \in Stmt

\* No statement is nested in itself: every list has a height, greater than that
\* of the lists nested in it.
StmtsAreFinite ==
  \E height \in [Seq(Stmt) -> Nat] :
    \A list \in Seq(Stmt) : \A k \in DOMAIN list : \A j \in DOMAIN list[k].subs :
      height[list[k].subs[j]] < height[list]

Equations ==
  /\ \A s \in Stmt :
       /\ \A l \in Name : HasGotoLaw(s, l)
       /\ NestedListsLaw(s)
       /\ WrittenLaw(s)
       /\ RestructuredLaw(s)
  /\ \A list \in Seq(Stmt) :
       /\ RestructuredListLaw(list)
       /\ \A skip \in SUBSET Name : RoundsLaw(list, skip)

\* The assumption of the theorems
StmtsAreTrees == StmtsAreRecords /\ StmtsAreFinite /\ Equations
=============================================================================
