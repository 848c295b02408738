----------------------------- MODULE GotoTrees -----------------------------
(***************************************************************************)
(* The recursive functions of the goto pass                                *)
(* (src/src/pass/restructure_goto.rs), and what the properties need to     *)
(* know of a statement and everything nested in it.                        *)
(***************************************************************************)
EXTENDS Naturals, Sequences, SequencesExt

RECURSIVE stmt_contains_goto(_, _)
stmt_contains_goto(s, l) ==
  \/ s.kind = "goto" /\ s.name = l
  \/ \E j \in DOMAIN s.subs : \E k \in DOMAIN s.subs[j] : stmt_contains_goto(s.subs[j][k], l)

INSTANCE GotoBlocks WITH HasGoto <- stmt_contains_goto

RECURSIVE RestructureLabels(_, _)
RestructureLabels(list, skip) ==
  LET at == LabelIdx(list, skip)
      start == FirstGoto(list, at)
  IN IF at = 0 THEN list
     ELSE IF start = 0 THEN RestructureLabels(list, skip \cup {list[at].name})
     ELSE RestructureLabels(Splice(list, start, at), skip)

RECURSIVE restructure_stmts(_)
restructure_stmt(s) ==
  [s EXCEPT !.subs = [j \in DOMAIN s.subs |-> restructure_stmts(s.subs[j])]]
restructure_stmts(list) ==
  RestructureLabels([k \in DOMAIN list |-> restructure_stmt(list[k])], {})
-----------------------------------------------------------------------------
\* The lists nested in a statement, at any depth
RECURSIVE ListsIn(_)
ListsIn(s) ==
  UNION {{s.subs[j]} \cup UNION {ListsIn(s.subs[j][k]) : k \in DOMAIN s.subs[j]} : j \in DOMAIN s.subs}

\* A statement as it is written: what opens it, its nested statements, what
\* closes it.  A block has no opening and ends in its label.
RECURSIVE TextOf(_)
TextOf(s) ==
  LET Opening == IF s.kind = "block" THEN << >> ELSE <<<<s.kind, s.name>>>>
      Closing == IF s.kind = "block" THEN <<<<"label", s.name>>>>
                 ELSE IF s.subs = << >> THEN << >> ELSE <<<<"end", s.name>>>>
      Nested == [j \in DOMAIN s.subs |-> FlattenSeq([k \in DOMAIN s.subs[j] |-> TextOf(s.subs[j][k])])]
  IN Opening \o FlattenSeq(Nested) \o Closing
=============================================================================
