----------------------------- MODULE GotoBlocks -----------------------------
(***************************************************************************)
(* What one round of the loop of restructure_stmts looks for in a list of  *)
(* statements, and the block it makes (src/src/pass/restructure_goto.rs).  *)
(* A statement is a record: its kind, a name (the label of a goto, label   *)
(* or block, otherwise just something to tell statements apart) and subs,  *)
(* the statement lists nested in it: two for an if, one for a while or a   *)
(* block.  Which gotos a statement contains is a parameter: GotoTrees      *)
(* defines it by recursion.                                                *)
(***************************************************************************)
EXTENDS Naturals, Sequences, SequencesExt

CONSTANT HasGoto(_, _)

\* The index of the last label not skipped, 0 if there is none.
LabelIdx(list, skip) ==
  LET Candidate(s) == s.kind = "label" /\ s.name \notin skip
  IN SelectLastInSeq(list, Candidate)

\* Mutant: the last statement with a goto to the label is taken.
LatestGoto(list, at) ==
  LET Jumps(s) == HasGoto(s, list[at].name)
  IN SelectLastInSubSeq(list, 1, at - 1, Jumps)

\* The index of the first statement before the label at `at` that contains a
\* goto to it, 0 if none does.
FirstGoto(list, at) ==
  LET Jumps(s) == HasGoto(s, list[at].name)
  IN SelectInSubSeq(list, 1, at - 1, Jumps)

Block(label, body) == [kind |-> "block", name |-> label, subs |-> <<body>>]

\* Mutant: the statement with the first goto is left out of the block.
SpliceLosesFirst(list, start, at) ==
  SubSeq(list, 1, start - 1)
    \o <<Block(list[at].name, SubSeq(list, start + 1, at - 1))>>
    \o SubSeq(list, at + 1, Len(list))

\* The statements from `start` up to the label at `at` become a block.
Splice(list, start, at) ==
  SubSeq(list, 1, start - 1)
    \o <<Block(list[at].name, SubSeq(list, start, at - 1))>>
    \o SubSeq(list, at + 1, Len(list))
=============================================================================
