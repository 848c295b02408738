------------------------------- MODULE Writer -------------------------------
(***************************************************************************)
(* The writer of the emitted module (StrWriter in src/src/pass/emit.rs).   *)
(* The printer gives it pieces of text, and says where the text of a node  *)
(* of the program begins and ends; the writer notes the range of each node *)
(* in the map that is saved next to the module.  A piece of text is given  *)
(* by the lengths of its lines: <<3>> is a word of three characters,       *)
(* <<0, 2>> a new line and two spaces.                                     *)
(***************************************************************************)
EXTENDS Naturals, Sequences

CONSTANTS Pieces,    \* the texts that can be written
          Origins    \* the places nodes can have in the C source

ASSUME PiecesAssumption == Pieces \subseteq Seq(Nat) \ {<<>>}

VARIABLES buffer, line, character, annotation_stack, source_range_map
writerVars == <<buffer, line, character, annotation_stack, source_range_map>>

Position == [line : Nat, character : Nat]

\* Lines and characters are counted from one
cur_pos == [line |-> line + 1, character |-> character + 1]

\* The order of Position (src/src/ir/mod.rs)
Upto(a, b) == a.line < b.line \/ (a.line = b.line /\ a.character <= b.character)
-----------------------------------------------------------------------------
WriterInit ==
  /\ buffer = <<>>
  /\ line = 0
  /\ character = 0
  /\ annotation_stack = <<>>
  /\ source_range_map = <<>>

\* Mutant: a new line does not begin with the first character.
WriteInOneColumn(s) ==
  /\ buffer' = Append(buffer, s)
  /\ line' = line + Len(s) - 1
  /\ character' = character + s[Len(s)]
  /\ UNCHANGED <<annotation_stack, source_range_map>>

write_str(s) ==
  /\ buffer' = Append(buffer, s)
  /\ line' = line + Len(s) - 1
  /\ character' = IF Len(s) = 1 THEN character + s[1] ELSE s[Len(s)]
  /\ UNCHANGED <<annotation_stack, source_range_map>>

push_annotation(a) ==
  /\ annotation_stack' = Append(annotation_stack, [annotation |-> a, start |-> cur_pos])
  /\ UNCHANGED <<buffer, line, character, source_range_map>>

\* Mutant: the node that was begun first is ended first.
PopOldest ==
  /\ annotation_stack # <<>>
  /\ source_range_map' =
       Append(source_range_map, [loc |-> annotation_stack[1].annotation,
                                start |-> annotation_stack[1].start, end |-> cur_pos])
  /\ annotation_stack' = Tail(annotation_stack)
  /\ UNCHANGED <<buffer, line, character>>

\* An empty stack is a panic: the printer closes what it opened.
pop_annotation ==
  /\ annotation_stack # <<>>
  /\ LET top == annotation_stack[Len(annotation_stack)]
     IN source_range_map' =
          Append(source_range_map, [loc |-> top.annotation, start |-> top.start, end |-> cur_pos])
  /\ annotation_stack' = SubSeq(annotation_stack, 1, Len(annotation_stack) - 1)
  /\ UNCHANGED <<buffer, line, character>>

WriterNext ==
  \/ \E s \in Pieces : write_str(s)
  \/ \E a \in Origins : push_annotation(a)
  \/ pop_annotation

WriterSpec == WriterInit /\ [][WriterNext]_writerVars
-----------------------------------------------------------------------------
SourceRange == [loc : Origins, start : Position, end : Position]

WriterTypeOK ==
  /\ buffer \in Seq(Pieces)
  /\ line \in Nat /\ character \in Nat
  /\ annotation_stack \in Seq([annotation : Origins, start : Position])
  /\ source_range_map \in Seq(SourceRange)

\* r ends before s begins
Precedes(r, s) == Upto(r.end, s.start)
\* r lies within s
Within(r, s) == Upto(s.start, r.start) /\ Upto(r.end, s.end)

\* The ranges of two nodes are one inside the other, or apart: a position of the
\* module belongs to a chain of nodes, of which one is the smallest (emit.rs:94-111).
RangesNest ==
  \A i, j \in DOMAIN source_range_map :
    LET r == source_range_map[i]
        s == source_range_map[j]
    IN Precedes(r, s) \/ Precedes(s, r) \/ Within(r, s) \/ Within(s, r)
=============================================================================
