-------------------------- MODULE RestructureGoto --------------------------
(***************************************************************************)
(* The goto pass (src/src/pass/restructure_goto.rs).  C lets a goto jump   *)
(* to any label of its function; Pulse only lets it leave the block that   *)
(* ends at the label.  The pass turns a label and the statements before    *)
(* it, from the first one that holds a goto to it, into such a block.      *)
(*                                                                         *)
(* The state machine is one call of restructure_stmts, on the body of a    *)
(* function.  What recurs over the statements nested in a statement is a   *)
(* parameter here and defined in GotoTrees.                                *)
(***************************************************************************)
EXTENDS GotoBlocks

CONSTANTS
  Bodies,                 \* the function bodies considered
  Restructured(_),        \* a statement with the lists nested in it restructured
  NestedLists(_),         \* the lists nested in a statement, at any depth
  Written(_)              \* a statement as it is written

VARIABLES
  original,        \* the body on entry
  stmts,           \* the list as it is rewritten
  skip_labels,     \* the labels found to have no goto before them
  pc

vars == <<original, stmts, skip_labels, pc>>

\* The lists of a function body: the body itself and every nested list.
ListsOf(list) == {list} \cup UNION {NestedLists(list[k]) : k \in DOMAIN list}

\* The labels among the statements of a list, those of a list and all that is
\* nested in it, and those of a statement and all that is nested in it.
LabelsAmong(list) == {list[k].name : k \in {j \in DOMAIN list : list[j].kind = "label"}}
LabelsIn(list) == UNION {LabelsAmong(l) : l \in ListsOf(list)}
LabelsOf(s) == UNION {LabelsAmong(l) : l \in {<<s>>} \cup NestedLists(s)}

\* No label occurs twice in a function body, as the C front end sees to.
LabelsOnce(list) ==
  \A l \in ListsOf(list) :
    /\ \A p, q \in DOMAIN l : p # q => LabelsOf(l[p]) \cap LabelsOf(l[q]) = {}
    /\ \A p \in DOMAIN l : \A i, j \in DOMAIN l[p].subs :
         i # j => LabelsIn(l[p].subs[i]) \cap LabelsIn(l[p].subs[j]) = {}

\* No block occurs in a function body: the blocks are those of the pass.
NoBlocks(list) == \A l \in ListsOf(list) : \A k \in DOMAIN l : l[k].kind # "block"

ASSUME BodiesAssumption == \A body \in Bodies : LabelsOnce(body) /\ NoBlocks(body)
-----------------------------------------------------------------------------
Init ==
  /\ original \in Bodies
  /\ stmts = original
  /\ skip_labels = {}
  /\ pc = "nested"

\* Mutant: the nested lists are left as they are.
LeaveNested == pc = "nested" /\ pc' = "labels" /\ UNCHANGED <<original, stmts, skip_labels>>

RestructureNested ==
  /\ pc = "nested"
  /\ stmts' = [k \in DOMAIN stmts |-> Restructured(stmts[k])]
  /\ pc' = "labels"
  /\ UNCHANGED <<original, skip_labels>>

MakeBlock ==
  /\ pc = "labels"
  /\ LET at == LabelIdx(stmts, skip_labels) IN
       /\ at # 0
       /\ FirstGoto(stmts, at) # 0
       /\ stmts' = Splice(stmts, FirstGoto(stmts, at), at)
  /\ UNCHANGED <<original, skip_labels, pc>>

\* Mutant: a label without a goto is looked at again and again.
SkipForgotten ==
  /\ pc = "labels"
  /\ LET at == LabelIdx(stmts, skip_labels) IN at # 0 /\ FirstGoto(stmts, at) = 0
  /\ UNCHANGED vars

SkipLabel ==
  /\ pc = "labels"
  /\ LET at == LabelIdx(stmts, skip_labels) IN
       /\ at # 0
       /\ FirstGoto(stmts, at) = 0
       /\ skip_labels' = skip_labels \cup {stmts[at].name}
  /\ UNCHANGED <<original, stmts, pc>>

Return ==
  /\ pc = "labels"
  /\ LabelIdx(stmts, skip_labels) = 0
  /\ pc' = "done"
  /\ UNCHANGED <<original, stmts, skip_labels>>

Next == RestructureNested \/ MakeBlock \/ SkipLabel \/ Return

\* The pass is a function that runs until it returns.
Spec == Init /\ [][Next]_vars /\ WF_vars(Next)
-----------------------------------------------------------------------------
\* The statements of a list in the order of the text; a block ends in its label.
Text(list) == FlattenSeq([k \in DOMAIN list |-> Written(list[k])])

\* A label needs a block from the first goto before it on.
Spans(list) ==
  {<<FirstGoto(list, at), at>> : at \in {k \in DOMAIN list : list[k].kind = "label" /\ FirstGoto(list, k) # 0}}

\* No statement is lost, added or moved by any step: the text is the same,
\* with block ends in the place of labels (the index arithmetic of the splice).
TextIsKept == Text(stmts) = Text(original)

\* The labels that a goto precedes in their list, and the labels still there
ForwardIn(list) == UNION {{l[sp[2]].name : sp \in Spans(l)} : l \in ListsOf(list)}
ForwardLabels == ForwardIn(original)
LabelsLeft == LabelsIn(stmts)

\* If in no list the block one label needs overlaps another one's, every label
\* that a goto precedes ends a block when the pass returns.
SpansApart(list) ==
  \A l \in ListsOf(list) :
    \A p, q \in Spans(l) : p = q \/ p[2] < q[1] \/ q[2] < p[1]
Separate == SpansApart(original)
SeparateLabelsAreRestructured ==
  pc = "done" /\ Separate => LabelsLeft \cap ForwardLabels = {}

\* A block is as large as it has to be and no larger: its first statement
\* holds a goto to its label, so the declarations before it stay in scope, and
\* no goto to its label precedes it in its list, where it could not reach it.
Tight(list) ==
  \A k \in DOMAIN list :
    list[k].kind = "block" =>
      /\ HasGoto(list[k].subs[1][1], list[k].name)
      /\ \A j \in 1 .. k - 1 : ~HasGoto(list[j], list[k].name)
BlocksAreTight == \A list \in ListsOf(stmts) : Tight(list)

\* The loop ends: every round uses up a label or skips one.
Terminates == <>(pc = "done")

\* Labels are restructured one at a time (the comment at restructure_goto.rs:25),
\* so no label that a goto precedes in its list is left over.
EveryForwardLabelIsRestructured == pc = "done" => LabelsLeft \cap ForwardLabels = {}
=============================================================================
