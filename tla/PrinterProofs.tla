--------------------------- MODULE PrinterProofs ---------------------------
(***************************************************************************)
(* Proofs about the writer and the printer: the ranges it saves nest,      *)
(* whatever is written; whatever is printed, and however the layout breaks *)
(* the lines, they are those of the nodes in the text.                     *)
(***************************************************************************)
EXTENDS Printer, FlattenProofs, FiniteSetTheorems

\* What has been opened was opened in order, and not after the present position
Opened ==
  /\ \A k \in DOMAIN annotation_stack : Upto(annotation_stack[k].start, cur_pos)
  /\ \A k, l \in DOMAIN annotation_stack :
       k <= l => Upto(annotation_stack[k].start, annotation_stack[l].start)

\* A saved range is over, and lies before or within every node still open
Closed ==
  \A i \in DOMAIN source_range_map :
    LET r == source_range_map[i]
    IN /\ Upto(r.start, r.end) /\ Upto(r.end, cur_pos)
       /\ \A k \in DOMAIN annotation_stack :
            Upto(r.end, annotation_stack[k].start) \/ Upto(annotation_stack[k].start, r.start)

WriterInv == WriterTypeOK /\ Opened /\ Closed /\ RangesNest

\* The order of positions is transitive.
LEMMA UptoTransitive ==
  ASSUME NEW a \in Position, NEW b \in Position, NEW c \in Position,
         Upto(a, b), Upto(b, c)
  PROVE  Upto(a, c)
BY DEF Upto, Position

\* An element of a sequence is of the set the sequence is over.
LEMMA ElementOf ==
  ASSUME NEW S, NEW q \in Seq(S), NEW k \in DOMAIN q
  PROVE  q[k] \in S
OBVIOUS

\* What is left of a sequence without its last element is one of the same set.
LEMMA PrefixOf ==
  ASSUME NEW S, NEW q \in Seq(S), Len(q) \in Nat \ {0}
  PROVE  SubSeq(q, 1, Len(q) - 1) \in Seq(S)
OBVIOUS

\* Lines and characters counted from one are a position.
LEMMA PositionType ==
  ASSUME NEW l \in Nat, NEW c \in Nat
  PROVE  [line |-> l + 1, character |-> c + 1] \in Position
BY DEF Position

\* The present position is a position.
LEMMA CurPosType == WriterTypeOK => cur_pos \in Position
BY PositionType DEF WriterTypeOK, cur_pos

\* What is open and what is saved has positions.
LEMMA SavedPositions ==
  ASSUME WriterTypeOK
  PROVE  /\ \A k \in DOMAIN annotation_stack :
              /\ annotation_stack[k] \in [annotation : Origins, start : Position]
              /\ annotation_stack[k].start \in Position
         /\ \A i \in DOMAIN source_range_map :
              /\ source_range_map[i] \in SourceRange
              /\ source_range_map[i].start \in Position
              /\ source_range_map[i].end \in Position
<1>1. ASSUME NEW k \in DOMAIN annotation_stack
      PROVE  /\ annotation_stack[k] \in [annotation : Origins, start : Position]
             /\ annotation_stack[k].start \in Position
  <2>1. annotation_stack[k] \in [annotation : Origins, start : Position]
    BY <1>1, ElementOf, Zenon DEF WriterTypeOK
  <2> QED
    BY <2>1
<1>2. ASSUME NEW i \in DOMAIN source_range_map
      PROVE  /\ source_range_map[i] \in SourceRange
             /\ source_range_map[i].start \in Position
             /\ source_range_map[i].end \in Position
  <2>1. source_range_map[i] \in SourceRange
    BY <1>2, ElementOf, Zenon DEF WriterTypeOK
  <2> QED
    BY <2>1 DEF SourceRange
<1> QED
  BY <1>1, <1>2

\* A text moves a position forward.
LEMMA Forward ==
  ASSUME NEW l \in Nat, NEW c \in Nat, NEW s \in Seq(Nat), Len(s) \in Nat \ {0}
  PROVE  LET m == l + Len(s) - 1
             d == IF Len(s) = 1 THEN c + s[1] ELSE s[Len(s)]
         IN /\ m \in Nat /\ d \in Nat
            /\ Upto([line |-> l + 1, character |-> c + 1], [line |-> m + 1, character |-> d + 1])
<1>1. s[1] \in Nat /\ s[Len(s)] \in Nat
  OBVIOUS
<1>2. CASE Len(s) = 1
  BY <1>1, <1>2 DEF Upto
<1>3. CASE Len(s) # 1
  <2>1. \A n \in Nat \ {0} : n # 1 => l + 1 < (l + n - 1) + 1
    OBVIOUS
  <2>2. l + 1 < (l + Len(s) - 1) + 1
    BY <1>3, <2>1
  <2> QED
    BY <1>1, <1>3, <2>2 DEF Upto
<1> QED
  BY <1>2, <1>3

\* Nothing is written and nothing open at first.
LEMMA InitInv == WriterInit => WriterInv
BY DEF WriterInit, WriterInv, WriterTypeOK, Opened, Closed, RangesNest, cur_pos, Upto, Position, SourceRange

\* Writing moves the position forward and touches nothing that was saved.
LEMMA WriteInv ==
  ASSUME WriterInv, NEW s \in Pieces, write_str(s)
  PROVE  WriterInv'
<1>1. s \in Seq(Nat) /\ Len(s) \in Nat \ {0}
  BY PiecesAssumption
<1>2. /\ line \in Nat /\ character \in Nat
      /\ buffer \in Seq(Pieces)
      /\ annotation_stack \in Seq([annotation : Origins, start : Position])
      /\ source_range_map \in Seq(SourceRange)
  BY DEF WriterInv, WriterTypeOK
<1>3. /\ line' = line + Len(s) - 1
      /\ character' = IF Len(s) = 1 THEN character + s[1] ELSE s[Len(s)]
      /\ buffer' = Append(buffer, s)
      /\ annotation_stack' = annotation_stack
      /\ source_range_map' = source_range_map
  BY DEF write_str
<1>4. line' \in Nat /\ character' \in Nat
  BY <1>1, <1>2, <1>3, Forward
<1>5. WriterTypeOK'
  BY <1>2, <1>3, <1>4 DEF WriterTypeOK
<1>6. cur_pos \in Position /\ cur_pos' \in Position
  BY <1>2, <1>4, PositionType DEF cur_pos
<1>7. Upto(cur_pos, cur_pos')
  BY <1>1, <1>2, <1>3, Forward DEF cur_pos
<1>8. /\ \A k \in DOMAIN annotation_stack : annotation_stack[k].start \in Position
      /\ \A i \in DOMAIN source_range_map : source_range_map[i].end \in Position
  BY SavedPositions DEF WriterInv
<1>9. Opened'
  BY <1>3, <1>6, <1>7, <1>8, UptoTransitive DEF Opened, WriterInv
<1>10. Closed'
  BY <1>3, <1>6, <1>7, <1>8, UptoTransitive DEF Closed, WriterInv
<1>11. RangesNest'
  BY <1>3 DEF RangesNest, WriterInv
<1> QED
  BY <1>5, <1>9, <1>10, <1>11 DEF WriterInv

\* A node is opened at the present position: after every saved range.
LEMMA PushInv ==
  ASSUME WriterInv, NEW a \in Origins, push_annotation(a)
  PROVE  WriterInv'
<1> DEFINE top == [annotation |-> a, start |-> cur_pos]
<1>1. cur_pos \in Position
  BY CurPosType DEF WriterInv
<1>2. /\ annotation_stack' = Append(annotation_stack, top)
      /\ UNCHANGED <<buffer, line, character, source_range_map>>
      /\ cur_pos' = cur_pos
  BY DEF push_annotation, cur_pos
<1>3. WriterTypeOK'
  BY <1>1, <1>2 DEF WriterInv, WriterTypeOK
<1>4. Upto(cur_pos, cur_pos)
  BY <1>1 DEF Upto, Position
<1>5. ASSUME NEW k \in DOMAIN annotation_stack'
      PROVE  \/ k \in DOMAIN annotation_stack /\ annotation_stack'[k] = annotation_stack[k]
             \/ k = Len(annotation_stack) + 1 /\ annotation_stack'[k] = top
  BY <1>2, <1>5 DEF WriterInv, WriterTypeOK
<1>6. Opened'
  <2>1. ASSUME NEW k \in DOMAIN annotation_stack'
        PROVE  Upto(annotation_stack'[k].start, cur_pos)
    BY <1>4, <1>5, <2>1 DEF WriterInv, Opened
  <2>2. ASSUME NEW k \in DOMAIN annotation_stack', NEW l \in DOMAIN annotation_stack', k <= l
        PROVE  Upto(annotation_stack'[k].start, annotation_stack'[l].start)
    <3>1. CASE l \in DOMAIN annotation_stack /\ annotation_stack'[l] = annotation_stack[l]
      <4>1. k \in DOMAIN annotation_stack /\ annotation_stack'[k] = annotation_stack[k]
        BY <1>5, <2>2, <3>1 DEF WriterInv, WriterTypeOK
      <4> QED
        BY <2>2, <3>1, <4>1 DEF WriterInv, Opened
    <3>2. CASE annotation_stack'[l] = top
      BY <2>1, <3>2
    <3> QED
      BY <1>5, <3>1, <3>2
  <2> QED
    BY <1>2, <2>1, <2>2 DEF Opened
<1>7. Closed'
  <2>1. ASSUME NEW i \in DOMAIN source_range_map, NEW k \in DOMAIN annotation_stack'
        PROVE  \/ Upto(source_range_map[i].end, annotation_stack'[k].start)
               \/ Upto(annotation_stack'[k].start, source_range_map[i].start)
    BY <1>5, <2>1 DEF WriterInv, Closed
  <2> QED
    BY <1>2, <2>1 DEF WriterInv, Closed
<1>8. RangesNest'
  BY <1>2 DEF RangesNest, WriterInv
<1> QED
  BY <1>3, <1>6, <1>7, <1>8 DEF WriterInv

\* The node opened last is closed at the present position: a saved range lies
\* before its beginning, or within it.
LEMMA PopInv ==
  ASSUME WriterInv, pop_annotation
  PROVE  WriterInv'
<1> DEFINE n == Len(annotation_stack)
           top == annotation_stack[n]
           new == [loc |-> top.annotation, start |-> top.start, end |-> cur_pos]
<1>1. n \in DOMAIN annotation_stack /\ n \in Nat \ {0}
  BY DEF pop_annotation, WriterInv, WriterTypeOK
<1>2. /\ source_range_map' = Append(source_range_map, new)
      /\ annotation_stack' = SubSeq(annotation_stack, 1, n - 1)
      /\ UNCHANGED <<buffer, line, character>>
      /\ cur_pos' = cur_pos
  BY DEF pop_annotation, cur_pos
<1>3. cur_pos \in Position /\ top \in [annotation : Origins, start : Position] /\ new \in SourceRange
  <2>1. cur_pos \in Position
    BY CurPosType DEF WriterInv
  <2>2. top \in [annotation : Origins, start : Position]
    BY <1>1, SavedPositions DEF WriterInv
  <2> QED
    BY <2>1, <2>2 DEF SourceRange
<1>4. WriterTypeOK'
  <2>1. source_range_map' \in Seq(SourceRange)
    BY <1>2, <1>3 DEF WriterInv, WriterTypeOK
  <2>2. annotation_stack' \in Seq([annotation : Origins, start : Position])
    BY <1>1, <1>2, PrefixOf, Zenon DEF WriterInv, WriterTypeOK
  <2> QED
    BY <1>2, <2>1, <2>2 DEF WriterInv, WriterTypeOK
<1>5. ASSUME NEW k \in DOMAIN annotation_stack'
      PROVE  k \in DOMAIN annotation_stack /\ k <= n /\ annotation_stack'[k] = annotation_stack[k]
  BY <1>1, <1>2, <1>5 DEF WriterInv, WriterTypeOK
<1>6. ASSUME NEW i \in DOMAIN source_range_map'
      PROVE  \/ i \in DOMAIN source_range_map /\ source_range_map'[i] = source_range_map[i]
             \/ source_range_map'[i] = new
  BY <1>2, <1>6 DEF WriterInv, WriterTypeOK
<1>7. Upto(top.start, cur_pos) /\ Upto(cur_pos, cur_pos)
  BY <1>1, <1>3 DEF WriterInv, Opened, Upto, Position
<1>8. Opened'
  <2>1. ASSUME NEW k \in DOMAIN annotation_stack', NEW l \in DOMAIN annotation_stack', k <= l
        PROVE  /\ Upto(annotation_stack'[k].start, cur_pos)
               /\ Upto(annotation_stack'[k].start, annotation_stack'[l].start)
    BY <1>5, <2>1 DEF WriterInv, Opened
  <2>2. ASSUME NEW k \in DOMAIN annotation_stack'
        PROVE  Upto(annotation_stack'[k].start, cur_pos)
    BY <1>5, <2>2 DEF WriterInv, Opened
  <2> QED
    BY <1>2, <2>1, <2>2 DEF Opened
<1>9. Closed'
  <2>1. ASSUME NEW i \in DOMAIN source_range_map', NEW k \in DOMAIN annotation_stack'
        PROVE  \/ Upto(source_range_map'[i].end, annotation_stack'[k].start)
               \/ Upto(annotation_stack'[k].start, source_range_map'[i].start)
    <3>1. CASE source_range_map'[i] = new
      <4>1. Upto(annotation_stack'[k].start, top.start)
        BY <1>1, <1>5 DEF WriterInv, Opened
      <4> QED
        BY <3>1, <4>1
    <3>2. CASE i \in DOMAIN source_range_map /\ source_range_map'[i] = source_range_map[i]
      BY <1>5, <3>2 DEF WriterInv, Closed
    <3> QED
      BY <1>6, <3>1, <3>2
  <2>2. ASSUME NEW i \in DOMAIN source_range_map'
        PROVE  /\ Upto(source_range_map'[i].start, source_range_map'[i].end)
               /\ Upto(source_range_map'[i].end, cur_pos)
    BY <1>6, <1>7, <2>2 DEF WriterInv, Closed
  <2> QED
    BY <1>2, <2>1, <2>2 DEF Closed
<1>10. RangesNest'
  <2> DEFINE Apart(r, s) == Precedes(r, s) \/ Precedes(s, r) \/ Within(r, s) \/ Within(s, r)
  <2>1. ASSUME NEW i \in DOMAIN source_range_map
        PROVE  Apart(source_range_map[i], new) /\ Apart(new, source_range_map[i])
    BY <1>1, <2>1 DEF WriterInv, Closed, Precedes, Within
  <2>2. Apart(new, new)
    BY <1>3, <1>7 DEF Within, Upto, Position
  <2>3. ASSUME NEW i \in DOMAIN source_range_map', NEW j \in DOMAIN source_range_map'
        PROVE  Apart(source_range_map'[i], source_range_map'[j])
    <3>1. CASE source_range_map'[i] = new
      BY <1>6, <2>1, <2>2, <3>1
    <3>2. CASE i \in DOMAIN source_range_map /\ source_range_map'[i] = source_range_map[i]
      <4>1. CASE source_range_map'[j] = new
        BY <2>1, <3>2, <4>1
      <4>2. CASE j \in DOMAIN source_range_map /\ source_range_map'[j] = source_range_map[j]
        BY <3>2, <4>2 DEF WriterInv, RangesNest
      <4> QED
        BY <1>6, <4>1, <4>2
    <3> QED
      BY <1>6, <3>1, <3>2
  <2> QED
    BY <2>3 DEF RangesNest
<1> QED
  BY <1>4, <1>8, <1>9, <1>10 DEF WriterInv

\* The invariant of the writer is inductive.
LEMMA NextInv == WriterInv /\ [WriterNext]_writerVars => WriterInv'
<1> SUFFICES ASSUME WriterInv, [WriterNext]_writerVars PROVE WriterInv'
  OBVIOUS
<1>1. CASE \E s \in Pieces : write_str(s)
  BY <1>1, WriteInv
<1>2. CASE \E a \in Origins : push_annotation(a)
  BY <1>2, PushInv
<1>3. CASE pop_annotation
  BY <1>3, PopInv
<1>4. CASE UNCHANGED writerVars
  BY <1>4 DEF writerVars, WriterInv, WriterTypeOK, Opened, Closed, RangesNest, cur_pos
<1> QED
  BY <1>1, <1>2, <1>3, <1>4 DEF WriterNext

\* Whatever is written, the saved ranges nest (RangesNest, emit.rs:94-111).
THEOREM RangesAlwaysNest == WriterSpec => []RangesNest
<1>1. WriterInv => RangesNest
  BY DEF WriterInv
<1> QED
  BY InitInv, NextInv, <1>1, PTL DEF WriterSpec
-----------------------------------------------------------------------------

(***************************************************************************)
(* The text of a piece, line by line.                                      *)
(***************************************************************************)
Letters == {"newline", "character"}
Word(n) == [c \in 1..n |-> "character"]
LineOf(i, n) == (IF i = 1 THEN <<>> ELSE <<"newline">>) \o Word(n)
LinesOf(piece) == [i \in DOMAIN piece |-> LineOf(i, piece[i])]
Texts(pieces) == [k \in DOMAIN pieces |-> CharactersOf(pieces[k])]

\* Flattening by the two names of the community module is one operator.
LEMMA SameFlatten ==
  ASSUME NEW s
  PROVE  Lists!FlattenSeq(s) = FlattenSeq(s)
BY DEF Lists!FlattenSeq, FlattenSeq

\* The text of a word.
LEMMA WordIs ==
  ASSUME NEW n \in Nat
  PROVE  /\ Word(n) \in Seq(Letters) /\ Len(Word(n)) = n
         /\ \A c \in 1..n : Word(n)[c] = "character"
BY DEF Word, Letters

\* The text of a line of a piece.
LEMMA LineType ==
  ASSUME NEW i, NEW n \in Nat
  PROVE  LineOf(i, n) \in Seq(Letters)
<1>1. Word(n) \in Seq(Letters)
  BY WordIs
<1>2. << >> \in Seq(Letters) /\ <<"newline">> \in Seq(Letters)
  BY DEF Letters
<1> QED  BY <1>1, <1>2, ConcatProperties DEF LineOf

\* The text of a piece is that of its lines.
LEMMA CharactersAre ==
  ASSUME NEW piece
  PROVE  CharactersOf(piece) = FlattenSeq(LinesOf(piece))
BY SameFlatten DEF CharactersOf, LinesOf, LineOf, Word

\* The lines of a piece are texts.
LEMMA LinesType ==
  ASSUME NEW piece \in Seq(Nat)
  PROVE  /\ LinesOf(piece) \in Seq(Seq(Letters)) /\ CharactersOf(piece) \in Seq(Letters)
         /\ Len(LinesOf(piece)) = Len(piece)
         /\ \A i \in 1..Len(piece) : LinesOf(piece)[i] = LineOf(i, piece[i])
<1>1. LinesOf(piece) \in Seq(Seq(Letters))
  BY LineType DEF LinesOf
<1>2. Len(LinesOf(piece)) = Len(piece) /\ \A i \in 1..Len(piece) : LinesOf(piece)[i] = LineOf(i, piece[i])
  BY DEF LinesOf
<1> QED  BY <1>1, <1>2, CharactersAre, FlattenType

\* A line more
LEMMA CharactersAppend ==
  ASSUME NEW piece \in Seq(Nat), NEW n \in Nat
  PROVE  CharactersOf(Append(piece, n)) = CharactersOf(piece) \o LineOf(Len(piece) + 1, n)
<1> DEFINE more == Append(piece, n)
           m == Len(piece)
           old == LinesOf(piece)
           x == LineOf(m + 1, n)
<1>1. /\ more \in Seq(Nat) /\ m \in Nat /\ Len(more) = m + 1 /\ more[m + 1] = n
      /\ \A i \in 1..m : more[i] = piece[i]
  BY AppendProperties
<1>2. /\ old \in Seq(Seq(Letters)) /\ Len(old) = m /\ \A i \in 1..m : old[i] = LineOf(i, piece[i])
      /\ x \in Seq(Letters)
  BY LinesType, LineType
<1> HIDE DEF more, m, old
<1>3. LinesOf(more) = Append(old, x)
  <2>1. /\ LinesOf(more) \in Seq(Seq(Letters)) /\ Len(LinesOf(more)) = m + 1
        /\ \A i \in 1..m + 1 : LinesOf(more)[i] = LineOf(i, more[i])
    BY <1>1, LinesType
  <2>2. /\ Append(old, x) \in Seq(Seq(Letters)) /\ Len(Append(old, x)) = m + 1
        /\ Append(old, x)[m + 1] = x /\ \A i \in 1..m : Append(old, x)[i] = old[i]
    BY <1>2, AppendProperties
  <2>3. ASSUME NEW i \in 1..m + 1 PROVE LinesOf(more)[i] = Append(old, x)[i]
    <3>1. i = m + 1 \/ i \in 1..m
      BY <1>1
    <3> QED  BY <1>1, <1>2, <2>1, <2>2, <3>1
  <2> HIDE DEF x
  <2> QED  BY <2>1, <2>2, <2>3, SeqEqual
<1>4. CharactersOf(more) = FlattenSeq(old) \o x
  BY <1>2, <1>3, CharactersAre, FlattenAppend
<1> QED  BY <1>4, CharactersAre DEF more, m, old

\* A piece without a new line is a word.
LEMMA CharactersOfOneLine ==
  ASSUME NEW piece \in Seq(Nat), Len(piece) = 1
  PROVE  CharactersOf(piece) = Word(piece[1])
<1>1. piece[1] \in Nat /\ LinesOf(piece) = <<LineOf(1, piece[1])>>
  BY DEF LinesOf
<1>2. LineOf(1, piece[1]) \in Seq(Letters) /\ Word(piece[1]) \in Seq(Letters)
  BY <1>1, LineType, WordIs
<1>3. << >> \o Word(piece[1]) = Word(piece[1])
  BY <1>2, ConcatEmptySeq
<1> QED  BY <1>1, <1>2, <1>3, CharactersAre, FlattenOne DEF LineOf

\* A function on 1..n is a sequence.
LEMMA FunctionIsSeq ==
  ASSUME NEW S, NEW n \in Nat, NEW f \in [1..n -> S]
  PROVE  f \in Seq(S) /\ Len(f) = n
OBVIOUS

\* What is written is a text.
LEMMA TextType ==
  ASSUME NEW pieces \in Seq(Seq(Nat))
  PROVE  /\ Texts(pieces) \in Seq(Seq(Letters)) /\ TextOf(pieces) \in Seq(Letters)
         /\ TextOf(pieces) = FlattenSeq(Texts(pieces))
         /\ Len(Texts(pieces)) = Len(pieces)
         /\ \A k \in 1..Len(pieces) : Texts(pieces)[k] = CharactersOf(pieces[k])
<1>1. \A k \in 1..Len(pieces) : CharactersOf(pieces[k]) \in Seq(Letters)
  <2>1. \A k \in 1..Len(pieces) : pieces[k] \in Seq(Nat)
    OBVIOUS
  <2> QED  BY <2>1, LinesType
<1>2. Len(pieces) \in Nat /\ DOMAIN pieces = 1..Len(pieces)
  OBVIOUS
<1>3. Texts(pieces) \in [1..Len(pieces) -> Seq(Letters)]
  BY <1>1, <1>2 DEF Texts
<1>4. Texts(pieces) \in Seq(Seq(Letters)) /\ Len(Texts(pieces)) = Len(pieces)
  BY ONLY <1>2, <1>3, FunctionIsSeq
<1>6. \A k \in 1..Len(pieces) : Texts(pieces)[k] = CharactersOf(pieces[k])
  BY <1>2 DEF Texts
<1>7. TextOf(pieces) = FlattenSeq(Texts(pieces))
  BY SameFlatten DEF TextOf, Texts
<1> QED  BY <1>4, <1>6, <1>7, FlattenType

\* A piece that is written adds its text.
LEMMA TextAppend ==
  ASSUME NEW pieces \in Seq(Seq(Nat)), NEW s \in Seq(Nat)
  PROVE  TextOf(Append(pieces, s)) = TextOf(pieces) \o CharactersOf(s)
<1> DEFINE more == Append(pieces, s)
           m == Len(pieces)
           old == Texts(pieces)
           x == CharactersOf(s)
<1>1. /\ more \in Seq(Seq(Nat)) /\ m \in Nat /\ Len(more) = m + 1 /\ more[m + 1] = s
      /\ \A i \in 1..m : more[i] = pieces[i]
  BY AppendProperties
<1>2. /\ old \in Seq(Seq(Letters)) /\ Len(old) = m /\ \A i \in 1..m : old[i] = CharactersOf(pieces[i])
      /\ x \in Seq(Letters) /\ TextOf(pieces) = FlattenSeq(old)
  BY LinesType, TextType
<1> HIDE DEF more, m, old
<1>3. Texts(more) = Append(old, x)
  <2>1. /\ Texts(more) \in Seq(Seq(Letters)) /\ Len(Texts(more)) = m + 1
        /\ \A i \in 1..m + 1 : Texts(more)[i] = CharactersOf(more[i])
    BY <1>1, TextType
  <2>2. /\ Append(old, x) \in Seq(Seq(Letters)) /\ Len(Append(old, x)) = m + 1
        /\ Append(old, x)[m + 1] = x /\ \A i \in 1..m : Append(old, x)[i] = old[i]
    BY <1>2, AppendProperties
  <2>3. ASSUME NEW i \in 1..m + 1 PROVE Texts(more)[i] = Append(old, x)[i]
    <3>1. i = m + 1 \/ i \in 1..m
      BY <1>1
    <3> QED  BY <1>1, <1>2, <2>1, <2>2, <3>1
  <2> HIDE DEF x
  <2> QED  BY <2>1, <2>2, <2>3, SeqEqual
<1>4. TextOf(more) = FlattenSeq(Texts(more))
  BY <1>1, TextType
<1> HIDE DEF x
<1>5. TextOf(more) = FlattenSeq(old) \o x
  BY <1>2, <1>3, <1>4, FlattenAppend
<1> QED  BY <1>2, <1>5 DEF more, x

(***************************************************************************)
(* A text that ends in line l, counted from zero, after c characters of it *)
(***************************************************************************)
At(text, l, c) ==
  /\ text \in Seq(Letters)
  /\ IsFiniteSet(Newlines(text)) /\ Cardinality(Newlines(text)) = l
  /\ c \in 0..Len(text)
  /\ c # Len(text) => text[Len(text) - c] = "newline"
  /\ \A j \in (Len(text) - c + 1)..Len(text) : text[j] = "character"

\* Subtracting twice.
LEMMA Minus ==
  ASSUME NEW a \in Nat, NEW b \in Nat
  PROVE  b = a - (a - b)
OBVIOUS

\* The position at which a text is, by its lines, is the position after it.
LEMMA AtEnd ==
  ASSUME NEW text, NEW l \in Nat, NEW c \in Nat, At(text, l, c)
  PROVE  EndOf(text) = [line |-> l + 1, character |-> c + 1]
<1> DEFINE k == Len(text) - c
<1>1. /\ Len(text) \in Nat /\ DOMAIN text = 1..Len(text) /\ k \in 0..Len(text)
      /\ k # 0 => text[k] = "newline"
      /\ \A j \in (k + 1)..Len(text) : text[j] = "character"
      /\ Cardinality(Newlines(text)) = l
  BY DEF At
<1>2. c = Len(text) - k
  BY <1>1, Minus
<1> HIDE DEF k
<1>3. \A j \in Newlines(text) : j \in 1..Len(text) /\ j <= k
  BY <1>1 DEF Newlines
<1>4. LastNewline(text) = k
  <2>1. CASE k = 0
    <3>1. Newlines(text) = {}
      BY <1>3, <2>1
    <3> QED  BY <2>1, <3>1 DEF LastNewline
  <2>2. CASE k # 0
    <3>1. k \in Newlines(text)
      BY <1>1, <2>2 DEF Newlines
    <3>2. \A i \in Newlines(text) : (\A j \in Newlines(text) : j <= i) => i = k
      BY <1>1, <1>3, <3>1
    <3> QED  BY <1>3, <3>1, <3>2 DEF LastNewline
  <2> QED  BY <2>1, <2>2
<1>5. 1 + Len(text) - k = c + 1 /\ 1 + l = l + 1
  BY <1>1, <1>2
<1> QED  BY <1>1, <1>4, <1>5 DEF EndOf

\* Nothing is written yet: the first line, the first character.
LEMMA AtBeginning == At(<< >>, 0, 0)
<1>1. Newlines(<< >>) = {}
  BY DEF Newlines
<1> QED  BY <1>1, FS_EmptySet DEF At

\* A new line begins with its first character.
LEMMA AtNewline ==
  ASSUME NEW text, NEW l \in Nat, NEW c \in Nat, At(text, l, c)
  PROVE  At(text \o <<"newline">>, l + 1, 0)
<1> DEFINE more == text \o <<"newline">>
           n == Len(text)
<1>1. /\ text \in Seq(Letters) /\ n \in Nat /\ DOMAIN text = 1..n
      /\ IsFiniteSet(Newlines(text)) /\ Cardinality(Newlines(text)) = l
  BY DEF At
<1>2. /\ more \in Seq(Letters) /\ Len(more) = n + 1 /\ DOMAIN more = 1..(n + 1)
      /\ more[n + 1] = "newline" /\ \A i \in 1..n : more[i] = text[i]
  BY <1>1 DEF Letters
<1> HIDE DEF more, n
<1>3. Newlines(more) = Newlines(text) \cup {n + 1} /\ n + 1 \notin Newlines(text)
  <2>1. \A i : i \in 1..(n + 1) <=> i \in 1..n \/ i = n + 1
    BY <1>1
  <2>2. n + 1 \notin 1..n
    BY <1>1
  <2> QED  BY <1>1, <1>2, <2>1, <2>2 DEF Newlines
<1>4. IsFiniteSet(Newlines(more)) /\ Cardinality(Newlines(more)) = l + 1
  <2> DEFINE old == Newlines(text)
  <2>1. IsFiniteSet(old) /\ Cardinality(old) = l
    BY <1>1
  <2> HIDE DEF old
  <2>2. /\ IsFiniteSet(old \cup {n + 1})
        /\ Cardinality(old \cup {n + 1}) = IF n + 1 \in old THEN Cardinality(old) ELSE Cardinality(old) + 1
    BY ONLY <2>1, FS_AddElement
  <2> QED  BY <1>3, <2>1, <2>2 DEF old
<1>5. At(more, l + 1, 0)
  <2>1. 0 \in 0..Len(more) /\ Len(more) - 0 = n + 1 /\ \A j \in (Len(more) - 0 + 1)..Len(more) : FALSE
    BY <1>1, <1>2
  <2> QED  BY <1>2, <1>4, <2>1 DEF At
<1> QED  BY <1>5 DEF more

\* The positions of a text that goes on with a word.
LEMMA WordPositions ==
  ASSUME NEW n \in Nat, NEW m \in Nat, NEW c \in 0..n
  PROVE  /\ c + m \in 0..(n + m) /\ (n + m) - (c + m) = n - c
         /\ c + m # n + m => c # n /\ n - c \in 1..n
         /\ \A j \in (n - c + 1)..(n + m) : j \in (n - c + 1)..n \/ j \in (n + 1)..(n + m)
         /\ \A j \in (n - c + 1)..n : j \in 1..n
OBVIOUS

\* A word leaves the line and moves the character on.
LEMMA AtWord ==
  ASSUME NEW text, NEW l \in Nat, NEW c \in Nat, At(text, l, c), NEW m \in Nat
  PROVE  At(text \o Word(m), l, c + m)
<1> DEFINE more == text \o Word(m)
           n == Len(text)
<1>1. /\ text \in Seq(Letters) /\ n \in Nat /\ DOMAIN text = 1..n
      /\ IsFiniteSet(Newlines(text)) /\ Cardinality(Newlines(text)) = l
      /\ c \in 0..n
      /\ c # n => text[n - c] = "newline"
      /\ \A j \in (n - c + 1)..n : text[j] = "character"
  BY DEF At
<1>2. /\ Word(m) \in Seq(Letters) /\ Len(Word(m)) = m
      /\ \A i \in 1..m : Word(m)[i] = "character"
  BY WordIs
<1>3. /\ more \in Seq(Letters) /\ Len(more) = n + m
      /\ \A i \in 1..(n + m) : more[i] = IF i <= n THEN text[i] ELSE Word(m)[i - n]
  <2>1. text \in Seq(Letters) /\ Word(m) \in Seq(Letters) /\ Len(Word(m)) = m
    BY <1>1, <1>2
  <2> HIDE <1>1, <1>2
  <2> QED  BY <2>1, ConcatProperties
<1>4. DOMAIN more = 1..(n + m)
  <2> HIDE DEF more
  <2> QED  BY <1>3, LenProperties
<1> HIDE DEF more, n
<1>5. \A i \in 1..n : i \in 1..(n + m) /\ more[i] = text[i]
  <2>1. \A i \in 1..n : i \in 1..(n + m) /\ i <= n
    BY <1>1
  <2> QED  BY <1>3, <2>1
<1>6. \A i \in (n + 1)..(n + m) : more[i] = "character"
  <2>1. \A i \in (n + 1)..(n + m) : i \in 1..(n + m) /\ ~(i <= n) /\ i - n \in 1..m
    BY <1>1
  <2> QED  BY <1>2, <1>3, <2>1
<1>7. Newlines(more) = Newlines(text)
  <2>1. \A i : i \in 1..(n + m) <=> i \in 1..n \/ i \in (n + 1)..(n + m)
    BY <1>1
  <2> QED  BY <1>1, <1>4, <1>5, <1>6, <2>1 DEF Newlines
<1>8. /\ c + m \in 0..(n + m) /\ (n + m) - (c + m) = n - c
      /\ c + m # n + m => c # n /\ n - c \in 1..n
      /\ \A j \in (n - c + 1)..(n + m) : j \in (n - c + 1)..n \/ j \in (n + 1)..(n + m)
      /\ \A j \in (n - c + 1)..n : j \in 1..n
  <2>1. n \in Nat /\ c \in 0..n
    BY ONLY <1>1
  <2> QED  BY ONLY <2>1, m \in Nat, WordPositions
<1>9. \A j \in ((n + m) - (c + m) + 1)..(n + m) : more[j] = "character"
  BY <1>1, <1>5, <1>6, <1>8
<1>10. c + m # n + m => more[(n + m) - (c + m)] = "newline"
  BY <1>1, <1>5, <1>8
<1>11. At(more, l, c + m)
  BY <1>1, <1>3, <1>7, <1>8, <1>9, <1>10 DEF At
<1> QED  BY <1>11 DEF more

\* A piece moves the end of the text as write_str moves the position.
LEMMA AtPiece ==
  ASSUME NEW text, NEW l \in Nat, NEW c \in Nat, At(text, l, c),
         NEW s \in Seq(Nat), Len(s) # 0
  PROVE  At(text \o CharactersOf(s), l + Len(s) - 1,
            IF Len(s) = 1 THEN c + s[1] ELSE s[Len(s)])
<1> DEFINE Moves(p, n) == At(text \o CharactersOf(p), l + n, IF n = 0 THEN c + p[1] ELSE p[n + 1])
           T == {n \in Nat : \A p \in Seq(Nat) : Len(p) = n + 1 => Moves(p, n)}
<1>1. 0 \in T
  <2> SUFFICES ASSUME NEW p \in Seq(Nat), Len(p) = 1 PROVE Moves(p, 0)
    OBVIOUS
  <2>1. CharactersOf(p) = Word(p[1]) /\ p[1] \in Nat
    BY CharactersOfOneLine
  <2>2. At(text \o Word(p[1]), l, c + p[1])
    BY <2>1, AtWord
  <2>3. l + 0 = l
    OBVIOUS
  <2> QED  BY <2>1, <2>2, <2>3
<1>2. ASSUME NEW n \in Nat, n \in T PROVE n + 1 \in T
  <2> SUFFICES ASSUME NEW p \in Seq(Nat), Len(p) = n + 2 PROVE Moves(p, n + 1)
    OBVIOUS
  <2>1. PICK u \in Seq(Nat), m \in Nat : p = Append(u, m)
    <3>1. p # << >>
      BY EmptySeq
    <3> QED  BY <3>1, SequenceEmptyOrAppend
  <2>2. Len(u) = n + 1 /\ u[1] \in Nat /\ u[n + 1] \in Nat /\ p[n + 2] = m
    BY <2>1, AppendProperties
  <2>3. Moves(u, n)
    BY <1>2, <2>2
  <2> DEFINE before == text \o CharactersOf(u)
             d == IF n = 0 THEN c + u[1] ELSE u[n + 1]
  <2>4. At(before, l + n, d) /\ d \in Nat /\ l + n \in Nat
    BY <2>2, <2>3
  <2> HIDE DEF d
  <2>5. before \in Seq(Letters)
    BY <2>4 DEF At
  <2>6. At((before \o <<"newline">>) \o Word(m), l + n + 1, m)
    <3>1. At(before \o <<"newline">>, l + n + 1, 0)
      BY <2>4, AtNewline
    <3> DEFINE then == before \o <<"newline">>
    <3> HIDE DEF then
    <3>2. At(then, l + n + 1, 0) /\ l + n + 1 \in Nat /\ 0 \in Nat
      BY <3>1 DEF then
    <3>3. At(then \o Word(m), l + n + 1, 0 + m)
      BY ONLY <3>2, m \in Nat, AtWord
    <3>4. 0 + m = m
      OBVIOUS
    <3> QED  BY <3>3, <3>4 DEF then
  <2>7. text \o CharactersOf(p) = (before \o <<"newline">>) \o Word(m)
    <3>1. /\ text \in Seq(Letters) /\ CharactersOf(u) \in Seq(Letters)
          /\ <<"newline">> \in Seq(Letters) /\ Word(m) \in Seq(Letters)
      <4>1. <<"newline">> \in Seq(Letters)
        BY DEF Letters
      <4> QED  BY <4>1, LinesType, WordIs DEF At
    <3>2. CharactersOf(p) = CharactersOf(u) \o (<<"newline">> \o Word(m))
      <4>1. CharactersOf(p) = CharactersOf(u) \o LineOf(n + 2, m)
        <5>1. CharactersOf(Append(u, m)) = CharactersOf(u) \o LineOf(Len(u) + 1, m)
          BY CharactersAppend
        <5>2. Len(u) + 1 = n + 2
          BY <2>2
        <5> QED  BY <2>1, <5>1, <5>2
      <4>2. n + 2 # 1
        OBVIOUS
      <4> QED  BY <4>1, <4>2 DEF LineOf
    <3>3. Associates(before, <<"newline">>, Word(m))
      BY <2>5, <3>1, Associative
    <3> DEFINE w == <<"newline">> \o Word(m)
    <3>4. w \in Seq(Letters)
      BY <3>1, ConcatProperties
    <3> HIDE DEF w
    <3>5. Associates(text, CharactersOf(u), w)
      BY <3>1, <3>4, Associative
    <3> QED  BY <3>2, <3>3, <3>5 DEF Associates, w
  <2>8. l + (n + 1) = l + n + 1 /\ n + 1 # 0 /\ (n + 1) + 1 = n + 2
    OBVIOUS
  <2> HIDE DEF before
  <2> QED  BY <2>2, <2>6, <2>7, <2>8
<1>3. Len(s) - 1 \in T
  <2>1. Len(s) - 1 \in Nat
    OBVIOUS
  <2> HIDE DEF T
  <2> QED  BY <1>1, <1>2, <2>1, EveryNumber
<1>4. Moves(s, Len(s) - 1)
  <2>1. (Len(s) - 1) + 1 = Len(s)
    OBVIOUS
  <2> HIDE DEF Moves
  <2> QED  BY <1>3, <2>1
<1>5. /\ Len(s) \in Nat /\ l + (Len(s) - 1) = l + Len(s) - 1 /\ (Len(s) - 1) + 1 = Len(s)
      /\ Len(s) - 1 = 0 <=> Len(s) = 1
  OBVIOUS
<1> QED  BY <1>4, <1>5
-----------------------------------------------------------------------------
(***************************************************************************)
(* Counting commands                                                       *)
(***************************************************************************)
Among(doc, what, from, to) == {c \in from..to : doc[c].do \in what}

\* A count is a number.
LEMMA CountType ==
  ASSUME NEW doc, NEW w, NEW a \in Int, NEW c \in Int
  PROVE  /\ IsFiniteSet(Among(doc, w, a, c)) /\ Count(doc, w, a, c) = Cardinality(Among(doc, w, a, c))
         /\ Count(doc, w, a, c) \in Nat
<1>1. IsFiniteSet(a..c) /\ Among(doc, w, a, c) \subseteq a..c
  BY FS_Interval DEF Among
<1>2. IsFiniteSet(Among(doc, w, a, c))
  BY <1>1, FS_Subset
<1>3. Count(doc, w, a, c) = Cardinality(Among(doc, w, a, c))
  BY DEF Count, Among
<1> QED  BY <1>2, <1>3, FS_CardinalityType

\* No commands, none of a kind.
LEMMA CountNone ==
  ASSUME NEW doc, NEW w, NEW a \in Int, NEW c \in Int, c < a
  PROVE  Count(doc, w, a, c) = 0
<1>1. Among(doc, w, a, c) = {}
  BY DEF Among
<1> QED  BY <1>1, CountType, FS_EmptySet

\* One more command is counted if it is of the kind.
LEMMA CountNext ==
  ASSUME NEW doc, NEW w, NEW a \in Int, NEW c \in Int, a <= c + 1
  PROVE  Count(doc, w, a, c + 1) = Count(doc, w, a, c) + (IF doc[c + 1].do \in w THEN 1 ELSE 0)
<1> DEFINE old == Among(doc, w, a, c)
           new == Among(doc, w, a, c + 1)
<1>1. \A k : k \in a..(c + 1) <=> k \in a..c \/ k = c + 1
  OBVIOUS
<1>2. c + 1 \notin a..c
  OBVIOUS
<1>3. new = IF doc[c + 1].do \in w THEN old \cup {c + 1} ELSE old
  BY <1>1 DEF Among
<1>4. c + 1 \notin old
  BY <1>2 DEF Among
<1>5. /\ IsFiniteSet(old) /\ Count(doc, w, a, c) = Cardinality(old) /\ Count(doc, w, a, c) \in Nat
      /\ Count(doc, w, a, c + 1) = Cardinality(new)
  BY CountType
<1> HIDE DEF old, new
<1>6. Cardinality(old \cup {c + 1}) = Cardinality(old) + 1
  BY <1>4, <1>5, FS_AddElement
<1> QED  BY <1>3, <1>5, <1>6

\* A command of another kind is not counted.
LEMMA CountSame ==
  ASSUME NEW doc, NEW w, NEW p \in Nat, doc[p + 1].do \notin w
  PROVE  Count(doc, w, 1, p + 1) = Count(doc, w, 1, p)
<1>1. 1 \in Int /\ p \in Int /\ 1 <= p + 1
  OBVIOUS
<1>2. Count(doc, w, 1, p + 1) = Count(doc, w, 1, p) + 0 /\ Count(doc, w, 1, p) \in Nat
  BY <1>1, CountNext, CountType
<1> QED  BY <1>2

\* A command of the kind is counted.
LEMMA CountMore ==
  ASSUME NEW doc, NEW w, NEW p \in Nat, doc[p + 1].do \in w
  PROVE  Count(doc, w, 1, p + 1) = Count(doc, w, 1, p) + 1 /\ Count(doc, w, 1, p) \in Nat
<1>1. 1 \in Int /\ p \in Int /\ 1 <= p + 1
  OBVIOUS
<1> QED  BY <1>1, CountNext, CountType

\* Commands are counted part by part.
LEMMA CountSplit ==
  ASSUME NEW doc, NEW w, NEW a \in Int, NEW b \in Int, NEW c \in Int, a <= b, b <= c + 1
  PROVE  Count(doc, w, a, c) = Count(doc, w, a, b - 1) + Count(doc, w, b, c)
<1> DEFINE all == Among(doc, w, a, c)
           low == Among(doc, w, a, b - 1)
           high == Among(doc, w, b, c)
<1>1. \A k : k \in a..c <=> k \in a..(b - 1) \/ k \in b..c
  OBVIOUS
<1>2. \A k : ~(k \in a..(b - 1) /\ k \in b..c)
  OBVIOUS
<1>3. all = low \cup high
  BY <1>1 DEF Among
<1>4. low \cap high = {}
  BY <1>2 DEF Among
<1>5. /\ IsFiniteSet(low) /\ Count(doc, w, a, b - 1) = Cardinality(low)
      /\ IsFiniteSet(high) /\ Count(doc, w, b, c) = Cardinality(high)
      /\ Count(doc, w, a, c) = Cardinality(all)
      /\ Count(doc, w, a, b - 1) \in Nat /\ Count(doc, w, b, c) \in Nat
  BY CountType
<1> HIDE DEF all, low, high
<1>6. Cardinality(low \cup high) = Cardinality(low) + Cardinality(high) - Cardinality({})
  BY <1>4, <1>5, FS_Union
<1>7. Cardinality({}) = 0
  BY FS_EmptySet
<1> QED  BY <1>3, <1>5, <1>6, <1>7

\* Cancellation.
LEMMA SameRest ==
  ASSUME NEW p \in Nat, NEW q \in Nat, NEW r \in Nat, NEW s \in Nat, p + r = q + s, r = s
  PROVE  p = q
OBVIOUS

\* A node has one beginning.
LEMMA BeginsNoLater ==
  ASSUME NEW doc, NEW c \in Nat, NEW a \in 1..c, NEW b \in 1..c, a < b, Begins(doc, a, c)
  PROVE  ~Begins(doc, b, c)
<1> SUFFICES ASSUME Begins(doc, b, c) PROVE FALSE
  OBVIOUS
<1> DEFINE B(x, y) == Count(doc, {"begin"}, x, y)
           E(x, y) == Count(doc, {"end"}, x, y)
<1>1. B(a, c) = E(a, c) /\ B(b, c) = E(b, c)
  BY DEF Begins
<1>2. b - 1 \in a..(c - 1)
  OBVIOUS
<1>3. B(a, b - 1) > E(a, b - 1)
  BY <1>2 DEF Begins
<1>4. a \in Int /\ b \in Int /\ c \in Int /\ b - 1 \in Int /\ a <= b /\ b <= c + 1
  OBVIOUS
<1>5. B(a, c) = B(a, b - 1) + B(b, c) /\ E(a, c) = E(a, b - 1) + E(b, c)
  BY <1>4, CountSplit
<1>6. B(a, b - 1) \in Nat /\ B(b, c) \in Nat /\ E(a, b - 1) \in Nat /\ E(b, c) \in Nat
  BY <1>4, CountType
<1> HIDE DEF B, E
<1>7. B(a, b - 1) = E(a, b - 1)
  BY <1>1, <1>5, <1>6, SameRest
<1> QED  BY <1>3, <1>6, <1>7

\* So the beginning of a node is the command that satisfies what its beginning does.
LEMMA BeginOfIs ==
  ASSUME NEW doc, NEW c \in Nat, NEW b \in 1..c, Begins(doc, b, c)
  PROVE  BeginOf(doc, c) = b
<1>1. ASSUME NEW a \in 1..c, Begins(doc, a, c) PROVE a = b
  <2>1. ~(a < b) /\ ~(b < a)
    BY <1>1, BeginsNoLater
  <2> QED  BY <2>1
<1> QED  BY <1>1 DEF BeginOf
-----------------------------------------------------------------------------
(***************************************************************************)
(* The invariant: the text is as far as the writer says it is, and every   *)
(* node on the stack was begun by a command of its own, where the text was *)
(* as far as the stack says, and is not ended yet.                         *)
(***************************************************************************)
Written == {"text", "line"}

\* Of the nodes begun from command b on, n are not ended when p commands are
\* carried out; that of b is one of them.
Open(doc, p, b, n) ==
  /\ doc[b].do = "begin"
  /\ Count(doc, {"begin"}, b, p) = Count(doc, {"end"}, b, p) + n
  /\ \A d \in b..p : Count(doc, {"begin"}, b, d) > Count(doc, {"end"}, b, d)

\* Command b began the node at k of the stack st.
Opens(doc, pieces, st, p, b, k) ==
  /\ Open(doc, p, b, Len(st) - k + 1)
  /\ st[k] = [annotation |-> doc[b].loc, start |-> PositionAfter(doc, pieces, b - 1)]

Stacked(doc, pieces, st, p) ==
  \A k \in 1..Len(st) : \E b \in 1..p : Opens(doc, pieces, st, p, b, k)

Saved(doc, pieces, map, p) ==
  /\ Len(map) = Count(doc, {"end"}, 1, p)
  /\ \A c \in 1..p : doc[c].do = "end" =>
       /\ map[Count(doc, {"end"}, 1, c)] = EntryOf(doc, pieces, c)
       /\ \E b \in 1..c : Begins(doc, b, c)

Reached(doc, pieces, p, l, c) ==
  /\ Len(pieces) = Count(doc, Written, 1, p)
  /\ At(TextOf(pieces), l, c)

PrinterInv ==
  /\ WriterInv
  /\ document \in Seq(Command) /\ printed \in 0..Len(document)
  /\ Reached(document, buffer, printed, line, character)
  /\ Stacked(document, buffer, annotation_stack, printed)
  /\ Len(annotation_stack) + Count(document, {"end"}, 1, printed) = Count(document, {"begin"}, 1, printed)
  /\ Saved(document, buffer, source_range_map, printed)

\* The invariant has the property.
LEMMA SavedPointBack == PrinterInv => RangesPointBack
BY DEF PrinterInv, Saved, RangesPointBack

\* A sequence with one more element.
LEMMA MoreIs ==
  ASSUME NEW S, NEW st \in Seq(S), NEW e \in S
  PROVE  /\ Append(st, e) \in Seq(S) /\ Len(Append(st, e)) = Len(st) + 1
         /\ \A i \in 1..Len(st) : Append(st, e)[i] = st[i]
BY AppendProperties

\* What is written later leaves the position after a command as it is.
LEMMA PositionStays ==
  ASSUME NEW doc, NEW pieces \in Seq(Seq(Nat)), NEW p \in Nat, Len(pieces) = Count(doc, Written, 1, p),
         NEW s \in Seq(Nat), NEW c \in 0..p
  PROVE  PositionAfter(doc, Append(pieces, s), c) = PositionAfter(doc, pieces, c)
<1> DEFINE n == Count(doc, Written, 1, c)
           m == Len(pieces)
<1>1. n \in Nat /\ m \in Nat /\ n <= m
  <2>1. Count(doc, Written, 1, p) = Count(doc, Written, 1, (c + 1) - 1) + Count(doc, Written, c + 1, p)
    <3>1. 1 \in Int /\ c + 1 \in Int /\ p \in Int /\ 1 <= c + 1 /\ c + 1 <= p + 1
      OBVIOUS
    <3> QED  BY <3>1, CountSplit
  <2>2. (c + 1) - 1 = c
    OBVIOUS
  <2>3. n \in Nat /\ Count(doc, Written, c + 1, p) \in Nat
    <3>1. 1 \in Int /\ c + 1 \in Int /\ p \in Int /\ c \in Int
      OBVIOUS
    <3> QED  BY <3>1, CountType
  <2> HIDE DEF n
  <2>4. m = n + Count(doc, Written, c + 1, p)
    BY <2>1, <2>2 DEF n
  <2> HIDE DEF m
  <2> QED  BY <2>3, <2>4
<1> HIDE DEF n
<1>2. SubSeq(Append(pieces, s), 1, n) = SubSeq(pieces, 1, n)
  <2>1. /\ Append(pieces, s) \in Seq(Seq(Nat)) /\ Len(Append(pieces, s)) = m + 1
        /\ \A i \in 1..m : Append(pieces, s)[i] = pieces[i]
    BY MoreIs
  <2> DEFINE more == Append(pieces, s)
  <2> HIDE DEF more
  <2>2. \A i \in 1..n : i \in 1..m
    BY <1>1
  <2>3. \A i \in 1..n : more[i] \in Seq(Nat) /\ pieces[i] \in Seq(Nat) /\ more[i] = pieces[i]
    BY <2>1, <2>2 DEF more
  <2>4. /\ SubSeq(more, 1, n) \in Seq(Seq(Nat)) /\ Len(SubSeq(more, 1, n)) = n
        /\ \A i \in 1..n : SubSeq(more, 1, n)[i] = more[i]
    BY <1>1, <2>1, <2>3 DEF more
  <2>5. /\ SubSeq(pieces, 1, n) \in Seq(Seq(Nat)) /\ Len(SubSeq(pieces, 1, n)) = n
        /\ \A i \in 1..n : SubSeq(pieces, 1, n)[i] = pieces[i]
    BY <1>1, <2>3
  <2>6. SubSeq(more, 1, n) = SubSeq(pieces, 1, n)
    BY <2>3, <2>4, <2>5, SeqEqual
  <2> QED  BY <2>6 DEF more
<1> QED  BY <1>2 DEF PositionAfter, n, Written

\* After the last command carried out, the position is the writer's.
LEMMA PositionReached ==
  ASSUME NEW doc, NEW pieces \in Seq(Seq(Nat)), NEW p \in Nat, NEW l \in Nat, NEW c \in Nat,
         Reached(doc, pieces, p, l, c)
  PROVE  PositionAfter(doc, pieces, p) = [line |-> l + 1, character |-> c + 1]
<1>1. SubSeq(pieces, 1, Len(pieces)) = pieces
  OBVIOUS
<1>2. SubSeq(pieces, 1, Count(doc, {"text", "line"}, 1, p)) = pieces
  BY <1>1 DEF Reached, Written
<1>3. EndOf(TextOf(pieces)) = [line |-> l + 1, character |-> c + 1]
  BY AtEnd DEF Reached
<1> QED  BY <1>2, <1>3 DEF PositionAfter

\* An entry is made of positions after commands carried out before.
LEMMA EntryStays ==
  ASSUME NEW doc, NEW pieces \in Seq(Seq(Nat)), NEW p \in Nat, Len(pieces) = Count(doc, Written, 1, p),
         NEW s \in Seq(Nat), NEW c \in 1..p, NEW b \in 1..c, Begins(doc, b, c)
  PROVE  EntryOf(doc, Append(pieces, s), c) = EntryOf(doc, pieces, c)
<1>1. BeginOf(doc, c) = b
  BY BeginOfIs
<1>2. b - 1 \in 0..p /\ c \in 0..p
  OBVIOUS
<1>3. /\ PositionAfter(doc, Append(pieces, s), b - 1) = PositionAfter(doc, pieces, b - 1)
      /\ PositionAfter(doc, Append(pieces, s), c) = PositionAfter(doc, pieces, c)
  BY <1>2, PositionStays
<1> QED  BY <1>1, <1>3 DEF EntryOf
-----------------------------------------------------------------------------
(***************************************************************************)
(* What one command does to the parts of the invariant                     *)
(***************************************************************************)
LEMMA OpenNext ==
  ASSUME NEW doc, NEW p \in Nat, NEW b \in 1..p, NEW n \in Nat, Open(doc, p, b, n),
         NEW m \in Nat \ {0},
         m + (IF doc[p + 1].do = "end" THEN 1 ELSE 0) = n + (IF doc[p + 1].do = "begin" THEN 1 ELSE 0)
  PROVE  Open(doc, p + 1, b, m)
<1> DEFINE B(d) == Count(doc, {"begin"}, b, d)
           E(d) == Count(doc, {"end"}, b, d)
<1>1. b \in Int /\ p \in Int /\ b <= p + 1
  OBVIOUS
<1>2. B(p + 1) = B(p) + (IF doc[p + 1].do = "begin" THEN 1 ELSE 0)
  <2>1. doc[p + 1].do \in {"begin"} <=> doc[p + 1].do = "begin"
    OBVIOUS
  <2> QED  BY <1>1, <2>1, CountNext
<1>3. E(p + 1) = E(p) + (IF doc[p + 1].do = "end" THEN 1 ELSE 0)
  <2>1. doc[p + 1].do \in {"end"} <=> doc[p + 1].do = "end"
    OBVIOUS
  <2> QED  BY <1>1, <2>1, CountNext
<1>4. B(p) \in Nat /\ E(p) \in Nat /\ B(p + 1) \in Nat /\ E(p + 1) \in Nat
  <2>1. p + 1 \in Int
    OBVIOUS
  <2> QED  BY <1>1, <2>1, CountType
<1>5. B(p) = E(p) + n /\ doc[b].do = "begin"
  BY DEF Open
<1>6. \A d \in b..p : B(d) > E(d)
  BY DEF Open
<1> HIDE DEF B, E
<1>7. B(p + 1) = E(p + 1) + m
  BY <1>2, <1>3, <1>4, <1>5
<1>8. ASSUME NEW d \in b..(p + 1) PROVE B(d) > E(d)
  <2>1. d \in b..p \/ d = p + 1
    OBVIOUS
  <2> QED  BY <1>4, <1>6, <1>7, <2>1
<1> QED  BY <1>5, <1>7, <1>8 DEF Open, B, E

\* A node that begins is open.
LEMMA OpenNew ==
  ASSUME NEW doc, NEW p \in Nat, doc[p + 1].do = "begin"
  PROVE  Open(doc, p + 1, p + 1, 1)
<1>1. p + 1 \in Int /\ p \in Int /\ p < p + 1 /\ p + 1 <= p + 1
  OBVIOUS
<1>2. Count(doc, {"begin"}, p + 1, p) = 0 /\ Count(doc, {"end"}, p + 1, p) = 0
  BY <1>1, CountNone
<1>3. /\ Count(doc, {"begin"}, p + 1, p + 1) = 1
      /\ Count(doc, {"end"}, p + 1, p + 1) = 0
  <2>1. doc[p + 1].do \in {"begin"} /\ doc[p + 1].do \notin {"end"}
    OBVIOUS
  <2> QED  BY <1>1, <1>2, <2>1, CountNext
<1>4. \A d \in (p + 1)..(p + 1) : d = p + 1
  OBVIOUS
<1> QED  BY <1>3, <1>4 DEF Open

\* The end of the node on top is that of the command that began it.
LEMMA Closes ==
  ASSUME NEW doc, NEW p \in Nat, NEW b \in 1..p, Open(doc, p, b, 1), doc[p + 1].do = "end"
  PROVE  b \in 1..(p + 1) /\ Begins(doc, b, p + 1)
<1>1. b \in Int /\ p \in Int /\ b <= p + 1 /\ b \in 1..(p + 1) /\ (p + 1) - 1 = p
  OBVIOUS
<1>2. doc[p + 1].do \in {"end"} /\ doc[p + 1].do \notin {"begin"}
  OBVIOUS
<1> DEFINE x == Count(doc, {"begin"}, b, p)
           y == Count(doc, {"end"}, b, p)
<1>3. /\ Count(doc, {"begin"}, b, p + 1) = x + 0 /\ Count(doc, {"end"}, b, p + 1) = y + 1
  BY <1>1, <1>2, CountNext
<1>4. x \in Nat /\ y \in Nat /\ x = y + 1
  BY <1>1, CountType DEF Open
<1>5. x + 0 = y + 1
  <2> HIDE DEF x, y
  <2> QED  BY <1>4
<1> QED  BY <1>1, <1>3, <1>5 DEF Open, Begins

\* A text that is written takes the writer to the end of it.
LEMMA ReachedByText ==
  ASSUME NEW doc, NEW pieces \in Seq(Seq(Nat)), NEW p \in Nat, NEW l \in Nat, NEW c \in Nat,
         Reached(doc, pieces, p, l, c), doc[p + 1].do \in Written,
         NEW s \in Seq(Nat), Len(s) # 0
  PROVE  Reached(doc, Append(pieces, s), p + 1, l + Len(s) - 1,
                 IF Len(s) = 1 THEN c + s[1] ELSE s[Len(s)])
<1>1. Len(Append(pieces, s)) = Count(doc, Written, 1, p + 1)
  <2>1. 1 \in Int /\ p \in Int /\ 1 <= p + 1
    OBVIOUS
  <2>2. Count(doc, Written, 1, p + 1) = Count(doc, Written, 1, p) + 1
    BY <2>1, CountNext
  <2>3. Len(Append(pieces, s)) = Len(pieces) + 1
    BY AppendProperties
  <2> QED  BY <2>2, <2>3 DEF Reached
<1>2. TextOf(Append(pieces, s)) = TextOf(pieces) \o CharactersOf(s)
  BY TextAppend
<1>3. At(TextOf(pieces), l, c)
  BY DEF Reached
<1> DEFINE text == TextOf(pieces)
<1> HIDE DEF text
<1>4. At(text \o CharactersOf(s), l + Len(s) - 1, IF Len(s) = 1 THEN c + s[1] ELSE s[Len(s)])
  BY <1>3, AtPiece DEF text
<1> QED  BY <1>1, <1>2, <1>4 DEF Reached, text

\* The beginning or end of a node writes nothing.
LEMMA ReachedByNode ==
  ASSUME NEW doc, NEW pieces, NEW p \in Nat, NEW l, NEW c,
         Reached(doc, pieces, p, l, c), doc[p + 1].do \notin Written
  PROVE  Reached(doc, pieces, p + 1, l, c)
<1>1. 1 \in Int /\ p \in Int /\ 1 <= p + 1
  OBVIOUS
<1>2. Count(doc, Written, 1, p + 1) = Count(doc, Written, 1, p) + 0 /\ Count(doc, Written, 1, p) \in Nat
  BY <1>1, CountNext, CountType
<1> QED  BY <1>2 DEF Reached

\* A text is written within the nodes that are open.
LEMMA StackedByText ==
  ASSUME NEW doc, NEW pieces \in Seq(Seq(Nat)), NEW p \in Nat, Len(pieces) = Count(doc, Written, 1, p),
         NEW st, Len(st) \in Nat, Stacked(doc, pieces, st, p), doc[p + 1].do \in Written,
         NEW s \in Seq(Nat)
  PROVE  Stacked(doc, Append(pieces, s), st, p + 1)
<1> SUFFICES ASSUME NEW k \in 1..Len(st)
             PROVE  \E b \in 1..(p + 1) : Opens(doc, Append(pieces, s), st, p + 1, b, k)
  BY DEF Stacked
<1> DEFINE n == Len(st) - k + 1
<1>1. PICK b \in 1..p : Opens(doc, pieces, st, p, b, k)
  BY DEF Stacked
<1>2. /\ Open(doc, p, b, n)
      /\ st[k] = [annotation |-> doc[b].loc, start |-> PositionAfter(doc, pieces, b - 1)]
  BY <1>1 DEF Opens
<1>3. n \in Nat \ {0} /\ b \in 1..(p + 1) /\ b - 1 \in 0..p
  OBVIOUS
<1> HIDE DEF n
<1>4. doc[p + 1].do # "begin" /\ doc[p + 1].do # "end" /\ n + 0 = n
  BY <1>3 DEF Written
<1>5. Open(doc, p + 1, b, n)
  BY <1>2, <1>3, <1>4, OpenNext
<1>6. PositionAfter(doc, Append(pieces, s), b - 1) = PositionAfter(doc, pieces, b - 1)
  BY <1>3, PositionStays
<1> QED  BY <1>2, <1>3, <1>5, <1>6 DEF Opens, n

\* A node that begins is put on the stack with the position before it.
LEMMA StackedByBegin ==
  ASSUME NEW doc, NEW pieces, NEW p \in Nat, NEW S, NEW st \in Seq(S),
         Stacked(doc, pieces, st, p), doc[p + 1].do = "begin",
         NEW x \in S, x = [annotation |-> doc[p + 1].loc, start |-> PositionAfter(doc, pieces, p)]
  PROVE  Stacked(doc, pieces, Append(st, x), p + 1)
<1> DEFINE more == Append(st, x)
<1>1. /\ Len(st) \in Nat /\ Len(more) = Len(st) + 1 /\ more[Len(st) + 1] = x
      /\ \A k \in 1..Len(st) : more[k] = st[k]
  BY AppendProperties
<1> HIDE DEF more
<1> SUFFICES ASSUME NEW k \in 1..Len(more)
             PROVE  \E b \in 1..(p + 1) : Opens(doc, pieces, more, p + 1, b, k)
  BY DEF Stacked, more
<1>2. CASE k \in 1..Len(st)
  <2> DEFINE n == Len(st) - k + 1
  <2>1. PICK b \in 1..p : Opens(doc, pieces, st, p, b, k)
    BY <1>2 DEF Stacked
  <2>2. /\ Open(doc, p, b, n)
        /\ st[k] = [annotation |-> doc[b].loc, start |-> PositionAfter(doc, pieces, b - 1)]
    BY <2>1 DEF Opens
  <2>3. n \in Nat /\ n + 1 \in Nat \ {0} /\ (n + 1) + 0 = n + 1 /\ Len(more) - k + 1 = n + 1 /\ b \in 1..(p + 1)
    BY <1>1, <1>2
  <2> HIDE DEF n
  <2>4. Open(doc, p + 1, b, n + 1)
    BY <2>2, <2>3, OpenNext
  <2> QED  BY <1>1, <1>2, <2>2, <2>3, <2>4 DEF Opens
<1>3. CASE k = Len(st) + 1
  <2>1. Len(more) - k + 1 = 1 /\ p + 1 \in 1..(p + 1) /\ (p + 1) - 1 = p
    BY <1>1, <1>3
  <2> QED  BY <1>1, <1>3, <2>1, OpenNew DEF Opens
<1>4. k \in 1..Len(st) \/ k = Len(st) + 1
  BY <1>1
<1> QED  BY <1>2, <1>3, <1>4

\* The stack below its top is what it was.
LEMMA FrontIs ==
  ASSUME NEW S, NEW st \in Seq(S), Len(st) \in Nat \ {0}
  PROVE  /\ Len(SubSeq(st, 1, Len(st) - 1)) = Len(st) - 1
         /\ \A k \in 1..(Len(st) - 1) : SubSeq(st, 1, Len(st) - 1)[k] = st[k]
<1> DEFINE less == SubSeq(st, 1, Len(st) - 1)
<1>1. 1 \in Int /\ Len(st) - 1 \in Int /\ \A k \in 1..(Len(st) - 1) : st[k] \in S
  OBVIOUS
<1>2. /\ Len(less) = (IF 1 <= (Len(st) - 1) + 1 THEN (Len(st) - 1) - 1 + 1 ELSE 0)
      /\ \A k \in 1..((Len(st) - 1) - 1 + 1) : less[k] = st[1 + k - 1]
  BY <1>1, SubSeqProperties
<1>3. Len(st) - 1 = (Len(st) - 1) - 1 + 1 /\ 1 <= (Len(st) - 1) + 1 /\ \A k \in Int : 1 + k - 1 = k
  OBVIOUS
<1> HIDE DEF less
<1> QED  BY <1>2, <1>3

\* When the top of the stack is ended, the nodes below it are one deeper in what is open.
LEMMA StackedByEnd ==
  ASSUME NEW doc, NEW pieces, NEW p \in Nat, NEW S, NEW st \in Seq(S), Len(st) \in Nat \ {0},
         Stacked(doc, pieces, st, p), doc[p + 1].do = "end"
  PROVE  Stacked(doc, pieces, SubSeq(st, 1, Len(st) - 1), p + 1)
<1> DEFINE less == SubSeq(st, 1, Len(st) - 1)
<1>1. /\ Len(less) = Len(st) - 1
      /\ \A k \in 1..(Len(st) - 1) : less[k] = st[k]
  BY FrontIs
<1> HIDE DEF less
<1> SUFFICES ASSUME NEW k \in 1..(Len(st) - 1)
             PROVE  \E b \in 1..(p + 1) : Opens(doc, pieces, less, p + 1, b, k)
  BY <1>1 DEF Stacked, less
<1> DEFINE n == Len(st) - k
<1>2. k \in 1..Len(st)
  OBVIOUS
<1>3. PICK b \in 1..p : Opens(doc, pieces, st, p, b, k)
  BY <1>2 DEF Stacked
<1>4. n \in Nat \ {0} /\ Len(st) - k + 1 = n + 1 /\ Len(less) - k + 1 = n /\ b \in 1..(p + 1)
  BY <1>1
<1>5. /\ Open(doc, p, b, n + 1)
      /\ st[k] = [annotation |-> doc[b].loc, start |-> PositionAfter(doc, pieces, b - 1)]
  BY <1>3, <1>4 DEF Opens
<1> HIDE DEF n
<1>6. n + 1 \in Nat /\ n + 1 = (n + 1) + 0
  BY <1>4
<1>7. Open(doc, p + 1, b, n)
  BY <1>4, <1>5, <1>6, OpenNext
<1> QED  BY <1>1, <1>4, <1>5, <1>7 DEF Opens

\* Entries stay what they are while the text grows, and while nodes begin.
LEMMA SavedByText ==
  ASSUME NEW doc, NEW pieces \in Seq(Seq(Nat)), NEW p \in Nat, Len(pieces) = Count(doc, Written, 1, p),
         NEW map, Saved(doc, pieces, map, p), doc[p + 1].do \in Written,
         NEW s \in Seq(Nat)
  PROVE  Saved(doc, Append(pieces, s), map, p + 1)
<1>1. doc[p + 1].do # "end"
  BY DEF Written
<1>2. Count(doc, {"end"}, 1, p + 1) = Count(doc, {"end"}, 1, p)
  <2>1. doc[p + 1].do \notin {"end"}
    BY <1>1
  <2> QED  BY <2>1, CountSame
<1>3. ASSUME NEW c \in 1..(p + 1), doc[c].do = "end"
      PROVE  /\ map[Count(doc, {"end"}, 1, c)] = EntryOf(doc, Append(pieces, s), c)
             /\ \E b \in 1..c : Begins(doc, b, c)
  <2>1. c \in 1..p
    <3>1. c = p + 1 \/ c \in 1..p
      OBVIOUS
    <3> QED  BY <1>1, <1>3, <3>1
  <2>2. PICK b \in 1..c : Begins(doc, b, c)
    BY <1>3, <2>1 DEF Saved
  <2>3. EntryOf(doc, Append(pieces, s), c) = EntryOf(doc, pieces, c)
    BY <2>1, <2>2, EntryStays
  <2> QED  BY <1>3, <2>1, <2>2, <2>3 DEF Saved
<1> QED  BY <1>2, <1>3 DEF Saved

\* A node that begins saves nothing.
LEMMA SavedByBegin ==
  ASSUME NEW doc, NEW pieces, NEW p \in Nat, NEW map, Saved(doc, pieces, map, p),
         doc[p + 1].do = "begin"
  PROVE  Saved(doc, pieces, map, p + 1)
<1>1. Count(doc, {"end"}, 1, p + 1) = Count(doc, {"end"}, 1, p)
  <2>1. doc[p + 1].do \notin {"end"}
    OBVIOUS
  <2> QED  BY <2>1, CountSame
<1>2. ASSUME NEW c \in 1..(p + 1), doc[c].do = "end" PROVE c \in 1..p
  <2>1. c = p + 1 \/ c \in 1..p
    OBVIOUS
  <2> QED  BY <1>2, <2>1
<1> QED  BY <1>1, <1>2 DEF Saved

\* The entry that the end of a node saves is its own.
LEMMA SavedByEnd ==
  ASSUME NEW doc, NEW pieces, NEW p \in Nat, NEW S, NEW map \in Seq(S), Saved(doc, pieces, map, p),
         doc[p + 1].do = "end",
         NEW b \in 1..p, Open(doc, p, b, 1),
         NEW x \in S,
         x = [loc |-> doc[b].loc, start |-> PositionAfter(doc, pieces, b - 1),
              end |-> PositionAfter(doc, pieces, p + 1)]
  PROVE  Saved(doc, pieces, Append(map, x), p + 1)
<1> DEFINE n == Count(doc, {"end"}, 1, p)
           more == Append(map, x)
<1>1. Count(doc, {"end"}, 1, p + 1) = n + 1 /\ n \in Nat
  <2>1. 1 \in Int /\ p \in Int /\ 1 <= p + 1 /\ doc[p + 1].do \in {"end"}
    OBVIOUS
  <2> QED  BY <2>1, CountNext, CountType
<1>2. b \in 1..(p + 1) /\ Begins(doc, b, p + 1)
  BY Closes
<1>3. x = EntryOf(doc, pieces, p + 1)
  <2>1. BeginOf(doc, p + 1) = b
    BY <1>2, BeginOfIs
  <2> QED  BY <2>1 DEF EntryOf
<1>4. /\ Len(map) = n /\ Len(more) = n + 1 /\ more[n + 1] = x
      /\ \A i \in 1..n : more[i] = map[i]
  <2>1. Len(map) = n
    BY DEF Saved
  <2> HIDE DEF n
  <2> QED  BY <2>1, AppendProperties
<1> HIDE DEF more
<1>5. ASSUME NEW c \in 1..p, doc[c].do = "end"
      PROVE  Count(doc, {"end"}, 1, c) \in 1..n
  <2> DEFINE u == Count(doc, {"end"}, 1, c - 1)
             v == Count(doc, {"end"}, c + 1, p)
  <2>1. /\ 1 \in Int /\ c - 1 \in Int /\ c \in Int /\ c + 1 \in Int /\ p \in Int
        /\ 1 <= (c - 1) + 1 /\ (c - 1) + 1 = c /\ 1 <= c + 1 /\ c + 1 <= p + 1 /\ (c + 1) - 1 = c
        /\ doc[c].do \in {"end"}
    BY <1>5
  <2>2. Count(doc, {"end"}, 1, (c - 1) + 1) = u + (IF doc[(c - 1) + 1].do \in {"end"} THEN 1 ELSE 0)
    BY <2>1, CountNext
  <2>3. n = Count(doc, {"end"}, 1, (c + 1) - 1) + v
    BY <2>1, CountSplit
  <2>4. u \in Nat /\ v \in Nat
    BY <2>1, CountType
  <2> HIDE DEF n, u, v
  <2>5. Count(doc, {"end"}, 1, c) = u + 1 /\ n = Count(doc, {"end"}, 1, c) + v
    BY <2>1, <2>2, <2>3
  <2> QED  BY <2>4, <2>5
<1>6. ASSUME NEW c \in 1..(p + 1), doc[c].do = "end"
      PROVE  /\ more[Count(doc, {"end"}, 1, c)] = EntryOf(doc, pieces, c)
             /\ \E d \in 1..c : Begins(doc, d, c)
  <2>1. CASE c = p + 1
    BY <1>1, <1>2, <1>3, <1>4, <2>1
  <2>2. CASE c \in 1..p
    BY <1>4, <1>5, <1>6, <2>2 DEF Saved
  <2>3. c = p + 1 \/ c \in 1..p
    OBVIOUS
  <2> QED  BY <2>1, <2>2, <2>3
<1> QED  BY <1>1, <1>4, <1>6 DEF Saved, more
-----------------------------------------------------------------------------
(***************************************************************************)
(* The steps of the printer                                                *)
(***************************************************************************)
\* The pieces are sequences of lines, none of them empty.
LEMMA PiecesAre ==
  ASSUME PrinterInv
  PROVE  /\ buffer \in Seq(Seq(Nat)) /\ line \in Nat /\ character \in Nat
         /\ \A s \in Pieces : s \in Seq(Nat) /\ Len(s) # 0
<1>1. /\ buffer \in Seq(Pieces) /\ line \in Nat /\ character \in Nat
  BY DEF PrinterInv, WriterInv, WriterTypeOK
<1>2. Pieces \subseteq Seq(Nat) /\ << >> \notin Pieces
  BY PiecesAssumption
<1>3. buffer \in Seq(Seq(Nat))
  BY <1>1, <1>2, SeqMonotonic
<1>4. \A s \in Pieces : s \in Seq(Nat) /\ Len(s) # 0
  BY <1>2, EmptySeq
<1> QED  BY <1>1, <1>3, <1>4

\* The types of the stack and of the map.
LEMMA StackIs ==
  ASSUME PrinterInv
  PROVE  /\ annotation_stack \in Seq([annotation : Origins, start : Position])
         /\ Len(annotation_stack) \in Nat
         /\ source_range_map \in Seq(SourceRange)
BY DEF PrinterInv, WriterInv, WriterTypeOK

\* At first there is no document.
LEMMA PrinterInitInv == PrinterInit => PrinterInv
<1> SUFFICES ASSUME PrinterInit PROVE PrinterInv
  OBVIOUS
<1>1. /\ document = << >> /\ printed = 0 /\ buffer = << >> /\ line = 0 /\ character = 0
      /\ annotation_stack = << >> /\ source_range_map = << >>
  BY DEF PrinterInit, WriterInit
<1>2. WriterInv
  BY InitInv DEF PrinterInit
<1>3. document \in Seq(Command) /\ printed \in 0..Len(document)
  BY <1>1
<1>4. \A w : Count(document, w, 1, printed) = 0
  <2>1. 1 \in Int /\ 0 \in Int /\ 0 < 1
    OBVIOUS
  <2> QED  BY <1>1, <2>1, CountNone
<1>5. Reached(document, buffer, printed, line, character)
  <2>1. TextOf(<< >>) = << >>
    <3>1. << >> \in Seq(Seq(Nat)) /\ Texts(<< >>) = << >>
      BY DEF Texts
    <3> QED  BY <3>1, TextType, FlattenNone
  <2>2. Len(buffer) = 0
    BY <1>1
  <2> QED  BY <1>1, <1>4, <2>1, <2>2, AtBeginning DEF Reached
<1>6. Stacked(document, buffer, annotation_stack, printed)
  <2>1. 1..Len(annotation_stack) = {}
    BY <1>1
  <2> QED  BY <2>1 DEF Stacked
<1>7. Len(annotation_stack) + Count(document, {"end"}, 1, printed) = Count(document, {"begin"}, 1, printed)
  <2>1. Len(annotation_stack) = 0
    BY <1>1
  <2> QED  BY <1>4, <2>1
<1>8. Saved(document, buffer, source_range_map, printed)
  <2>1. Len(source_range_map) = 0 /\ 1..printed = {}
    BY <1>1
  <2> QED  BY <1>4, <2>1 DEF Saved
<1> QED  BY <1>2, <1>3, <1>5, <1>6, <1>7, <1>8 DEF PrinterInv

\* Nothing is printed before there is a document.
LEMMA SetDocumentInv ==
  ASSUME PrinterInv, NEW doc \in Seq(Command), SetDocument(doc)
  PROVE  PrinterInv'
<1>1. /\ document = << >> /\ document' = doc /\ UNCHANGED <<printed, writerVars>>
  BY DEF SetDocument
<1>2. /\ printed = 0 /\ printed' = 0 /\ buffer' = buffer /\ line' = line /\ character' = character
      /\ annotation_stack' = annotation_stack /\ source_range_map' = source_range_map
  BY <1>1 DEF PrinterInv, writerVars
<1>3. WriterInv'
  BY <1>1, NextInv DEF PrinterInv
<1>4. doc \in Seq(Command) /\ 0 \in 0..Len(doc)
  OBVIOUS
<1>5. \A d, w : Count(d, w, 1, 0) = 0
  <2>1. 1 \in Int /\ 0 \in Int /\ 0 < 1
    OBVIOUS
  <2> QED  BY <2>1, CountNone
<1>6. Reached(doc, buffer, 0, line, character)
  BY <1>2, <1>5 DEF PrinterInv, Reached
<1>7. annotation_stack = << >>
  <2>1. Len(annotation_stack) + 0 = 0
    BY <1>2, <1>5 DEF PrinterInv
  <2> QED  BY <2>1, StackIs, EmptySeq
<1>8. Stacked(doc, buffer, annotation_stack, 0)
  <2>1. 1..Len(annotation_stack) = {}
    BY <1>7
  <2> QED  BY <2>1 DEF Stacked
<1>9. Len(annotation_stack) + Count(doc, {"end"}, 1, 0) = Count(doc, {"begin"}, 1, 0)
  <2>1. Len(annotation_stack) = 0
    BY <1>7
  <2> QED  BY <1>5, <2>1
<1>10. Saved(doc, buffer, source_range_map, 0)
  <2>1. 1..0 = {}
    OBVIOUS
  <2> QED  BY <1>2, <1>5, <2>1 DEF PrinterInv, Saved
<1> QED  BY <1>1, <1>2, <1>3, <1>4, <1>6, <1>8, <1>9, <1>10 DEF PrinterInv

\* Carrying out one more command
Advances == printed < Len(document) /\ printed' = printed + 1 /\ document' = document

\* The command that is carried out is one of the document.
LEMMA PrintedIs ==
  ASSUME PrinterInv, Advances
  PROVE  /\ printed \in Nat /\ printed + 1 \in 0..Len(document)
         /\ document \in Seq(Command) /\ document[printed + 1] \in Command
<1>1. document \in Seq(Command) /\ printed \in 0..Len(document) /\ printed < Len(document)
  BY DEF PrinterInv, Advances
<1>2. printed \in Nat /\ printed + 1 \in 0..Len(document) /\ printed + 1 \in 1..Len(document)
  <2>1. Len(document) \in Nat
    BY <1>1
  <2> QED  BY <1>1, <2>1
<1> QED  BY <1>1, <1>2, ElementOfSeq

\* Writing a word or a line keeps the invariant.
LEMMA TextInv ==
  ASSUME PrinterInv, Advances, document[printed + 1].do \in Written,
         NEW s \in Pieces, write_str(s)
  PROVE  PrinterInv'
<1>1. /\ buffer' = Append(buffer, s)
      /\ line' = line + Len(s) - 1
      /\ character' = IF Len(s) = 1 THEN character + s[1] ELSE s[Len(s)]
      /\ annotation_stack' = annotation_stack /\ source_range_map' = source_range_map
      /\ document' = document /\ printed' = printed + 1
  BY DEF write_str, Advances
<1>2. /\ printed \in Nat /\ printed + 1 \in 0..Len(document) /\ document \in Seq(Command)
      /\ buffer \in Seq(Seq(Nat)) /\ line \in Nat /\ character \in Nat
      /\ s \in Seq(Nat) /\ Len(s) # 0
      /\ Len(annotation_stack) \in Nat
  BY PrintedIs, PiecesAre, StackIs
<1>3. /\ Reached(document, buffer, printed, line, character)
      /\ Len(buffer) = Count(document, Written, 1, printed)
      /\ Stacked(document, buffer, annotation_stack, printed)
      /\ Saved(document, buffer, source_range_map, printed)
      /\ Len(annotation_stack) + Count(document, {"end"}, 1, printed) = Count(document, {"begin"}, 1, printed)
  BY DEF PrinterInv, Reached
<1>4. WriterInv'
  BY WriteInv DEF PrinterInv
<1>5. Reached(document, Append(buffer, s), printed + 1, line + Len(s) - 1,
              IF Len(s) = 1 THEN character + s[1] ELSE s[Len(s)])
  BY <1>2, <1>3, ReachedByText
<1>6. Stacked(document, Append(buffer, s), annotation_stack, printed + 1)
  BY <1>2, <1>3, StackedByText
<1>7. Saved(document, Append(buffer, s), source_range_map, printed + 1)
  BY <1>2, <1>3, SavedByText
<1>8. /\ Count(document, {"end"}, 1, printed + 1) = Count(document, {"end"}, 1, printed)
      /\ Count(document, {"begin"}, 1, printed + 1) = Count(document, {"begin"}, 1, printed)
  <2>1. document[printed + 1].do \notin {"end"} /\ document[printed + 1].do \notin {"begin"}
    BY DEF Written
  <2> QED  BY <1>2, <2>1, CountSame
<1> QED  BY <1>1, <1>2, <1>3, <1>4, <1>5, <1>6, <1>7, <1>8 DEF PrinterInv

\* Beginning a node keeps the invariant.
LEMMA BeginInv ==
  ASSUME PrinterInv, Advances, document[printed + 1].do = "begin",
         push_annotation(document[printed + 1].loc)
  PROVE  PrinterInv'
<1> DEFINE loc == document[printed + 1].loc
           x == [annotation |-> loc, start |-> cur_pos]
<1>1. /\ annotation_stack' = Append(annotation_stack, x)
      /\ buffer' = buffer /\ line' = line /\ character' = character /\ source_range_map' = source_range_map
      /\ document' = document /\ printed' = printed + 1
  BY DEF push_annotation, Advances
<1>2. /\ printed \in Nat /\ printed + 1 \in 0..Len(document) /\ document \in Seq(Command)
      /\ buffer \in Seq(Seq(Nat)) /\ line \in Nat /\ character \in Nat
      /\ annotation_stack \in Seq([annotation : Origins, start : Position])
      /\ Len(annotation_stack) \in Nat
  BY PrintedIs, PiecesAre, StackIs
<1>3. /\ Reached(document, buffer, printed, line, character)
      /\ Stacked(document, buffer, annotation_stack, printed)
      /\ Saved(document, buffer, source_range_map, printed)
      /\ Len(annotation_stack) + Count(document, {"end"}, 1, printed) = Count(document, {"begin"}, 1, printed)
  BY DEF PrinterInv
<1>4. loc \in Origins
  <2>1. document[printed + 1] \in Command
    BY PrintedIs
  <2> QED  BY <2>1 DEF Command
<1>5. cur_pos \in Position /\ cur_pos = PositionAfter(document, buffer, printed)
  <2>1. cur_pos \in Position
    BY CurPosType DEF PrinterInv, WriterInv
  <2> QED  BY <1>2, <1>3, <2>1, PositionReached DEF cur_pos
<1>6. x \in [annotation : Origins, start : Position]
  BY <1>4, <1>5
<1>7. WriterInv'
  BY <1>4, PushInv DEF PrinterInv
<1>8. Reached(document, buffer, printed + 1, line, character)
  <2>1. document[printed + 1].do \notin Written
    BY DEF Written
  <2> QED  BY <1>2, <1>3, <2>1, ReachedByNode
<1>9. Stacked(document, buffer, Append(annotation_stack, x), printed + 1)
  <2> DEFINE S == [annotation : Origins, start : Position]
  <2>1. /\ annotation_stack \in Seq(S) /\ x \in S
        /\ x = [annotation |-> document[printed + 1].loc, start |-> PositionAfter(document, buffer, printed)]
    BY <1>2, <1>5, <1>6
  <2> HIDE DEF S, x
  <2> QED  BY <1>2, <1>3, <2>1, StackedByBegin
<1>10. Saved(document, buffer, source_range_map, printed + 1)
  BY <1>2, <1>3, SavedByBegin
<1>11. Len(annotation_stack') + Count(document, {"end"}, 1, printed + 1) = Count(document, {"begin"}, 1, printed + 1)
  <2>1. document[printed + 1].do \notin {"end"} /\ document[printed + 1].do \in {"begin"}
    OBVIOUS
  <2>2. /\ Count(document, {"end"}, 1, printed + 1) = Count(document, {"end"}, 1, printed)
        /\ Count(document, {"begin"}, 1, printed + 1) = Count(document, {"begin"}, 1, printed) + 1
    BY <1>2, <2>1, CountSame, CountMore
  <2>3. Len(annotation_stack') = Len(annotation_stack) + 1
    BY <1>1, <1>2, <1>6, AppendProperties
  <2>4. Count(document, {"end"}, 1, printed) \in Nat
    <3>1. 1 \in Int /\ printed \in Int
      BY <1>2
    <3> QED  BY <3>1, CountType
  <2> QED  BY <1>2, <1>3, <2>2, <2>3, <2>4
<1> QED  BY <1>1, <1>2, <1>7, <1>8, <1>9, <1>10, <1>11 DEF PrinterInv

\* Ending a node keeps the invariant.
LEMMA EndInv ==
  ASSUME PrinterInv, Advances, document[printed + 1].do = "end", pop_annotation
  PROVE  PrinterInv'
<1> DEFINE n == Len(annotation_stack)
           top == annotation_stack[n]
           x == [loc |-> top.annotation, start |-> top.start, end |-> cur_pos]
<1>1. /\ annotation_stack # << >>
      /\ source_range_map' = Append(source_range_map, x)
      /\ annotation_stack' = SubSeq(annotation_stack, 1, n - 1)
      /\ buffer' = buffer /\ line' = line /\ character' = character
      /\ document' = document /\ printed' = printed + 1
  BY DEF pop_annotation, Advances
<1>2. /\ printed \in Nat /\ printed + 1 \in 0..Len(document) /\ document \in Seq(Command)
      /\ buffer \in Seq(Seq(Nat)) /\ line \in Nat /\ character \in Nat
      /\ annotation_stack \in Seq([annotation : Origins, start : Position])
      /\ source_range_map \in Seq(SourceRange)
  BY PrintedIs, PiecesAre, StackIs
<1>3. /\ Reached(document, buffer, printed, line, character)
      /\ Stacked(document, buffer, annotation_stack, printed)
      /\ Saved(document, buffer, source_range_map, printed)
      /\ Len(annotation_stack) + Count(document, {"end"}, 1, printed) = Count(document, {"begin"}, 1, printed)
  BY DEF PrinterInv
<1>4. n \in Nat \ {0}
  BY <1>1, <1>2, EmptySeq
<1>5. PICK b \in 1..printed : Opens(document, buffer, annotation_stack, printed, b, n)
  <2>1. n \in 1..n
    BY <1>4
  <2> QED  BY <1>3, <2>1 DEF Stacked
<1>6. /\ Open(document, printed, b, 1)
      /\ top = [annotation |-> document[b].loc, start |-> PositionAfter(document, buffer, b - 1)]
  <2>1. n - n + 1 = 1
    BY <1>4
  <2> QED  BY <1>5, <2>1 DEF Opens
<1>7. top \in [annotation : Origins, start : Position]
  <2> DEFINE S == [annotation : Origins, start : Position]
  <2>1. annotation_stack \in Seq(S) /\ n \in 1..Len(annotation_stack)
    BY <1>2, <1>4
  <2> HIDE DEF S, n
  <2>2. annotation_stack[n] \in S
    BY <2>1, ElementOfSeq
  <2> QED  BY <2>2 DEF S
<1>8. Reached(document, buffer, printed + 1, line, character)
  <2>1. document[printed + 1].do \notin Written
    BY DEF Written
  <2> QED  BY <1>2, <1>3, <2>1, ReachedByNode
<1>9. cur_pos \in Position /\ cur_pos = PositionAfter(document, buffer, printed + 1)
  <2>1. cur_pos \in Position
    BY CurPosType DEF PrinterInv, WriterInv
  <2>2. printed + 1 \in Nat
    BY <1>2
  <2> QED  BY <1>2, <1>8, <2>1, <2>2, PositionReached DEF cur_pos
<1>10. WriterInv'
  BY PopInv DEF PrinterInv
<1>11. Stacked(document, buffer, SubSeq(annotation_stack, 1, n - 1), printed + 1)
  <2> DEFINE S == [annotation : Origins, start : Position]
  <2>1. annotation_stack \in Seq(S) /\ Len(annotation_stack) \in Nat \ {0}
    BY <1>2, <1>4
  <2> HIDE DEF S
  <2> QED  BY <1>2, <1>3, <2>1, StackedByEnd
<1>12. Saved(document, buffer, Append(source_range_map, x), printed + 1)
  <2>1. x = [loc |-> document[b].loc, start |-> PositionAfter(document, buffer, b - 1),
             end |-> PositionAfter(document, buffer, printed + 1)]
    BY <1>6, <1>9
  <2>2. x \in SourceRange
    BY <1>7, <1>9 DEF SourceRange
  <2> HIDE DEF x
  <2> QED  BY <1>2, <1>3, <1>6, <2>1, <2>2, SavedByEnd
<1>13. Len(annotation_stack') + Count(document, {"end"}, 1, printed + 1) = Count(document, {"begin"}, 1, printed + 1)
  <2>1. document[printed + 1].do \in {"end"} /\ document[printed + 1].do \notin {"begin"}
    OBVIOUS
  <2>2. /\ Count(document, {"end"}, 1, printed + 1) = Count(document, {"end"}, 1, printed) + 1
        /\ Count(document, {"end"}, 1, printed) \in Nat
        /\ Count(document, {"begin"}, 1, printed + 1) = Count(document, {"begin"}, 1, printed)
    BY <1>2, <2>1, CountSame, CountMore
  <2>3. Len(annotation_stack') = n - 1
    <3>1. annotation_stack \in Seq([annotation : Origins, start : Position]) /\ Len(annotation_stack) \in Nat \ {0}
      BY <1>2, <1>4
    <3>2. Len(SubSeq(annotation_stack, 1, Len(annotation_stack) - 1)) = Len(annotation_stack) - 1
      BY <3>1, FrontIs
    <3> QED  BY <1>1, <3>2
  <2> HIDE DEF n
  <2> QED  BY <1>3, <1>4, <2>2, <2>3 DEF n
<1> QED  BY <1>1, <1>2, <1>8, <1>10, <1>11, <1>12, <1>13 DEF PrinterInv

\* The invariant is inductive.
LEMMA PrinterNextInv == PrinterInv /\ [PrinterNext]_printerVars => PrinterInv'
<1> SUFFICES ASSUME PrinterInv, [PrinterNext]_printerVars PROVE PrinterInv'
  OBVIOUS
<1>1. CASE \E doc \in Seq(Command) : SetDocument(doc)
  BY <1>1, SetDocumentInv
<1>2. CASE Render
  <2> DEFINE command == document[printed + 1]
  <2>1. Advances /\ Do(command)
    BY <1>2 DEF Render, Advances
  <2>2. CASE command.do = "begin" /\ push_annotation(command.loc)
    BY <2>1, <2>2, BeginInv
  <2>3. CASE command.do = "end" /\ pop_annotation
    BY <2>1, <2>3, EndInv
  <2>4. CASE command.do = "text" /\ write_str(<<command.length>>)
    <3>1. <<command.length>> \in Pieces
      <4>1. command \in Command
        BY <2>1, PrintedIs
      <4> QED  BY <2>4, <4>1 DEF Command
    <3>2. command.do \in Written
      BY <2>4 DEF Written
    <3> QED  BY <2>1, <2>4, <3>1, <3>2, TextInv
  <2>5. CASE command.do = "line" /\ \E s \in Breaks : write_str(s)
    <3>1. command.do \in Written
      BY <2>5 DEF Written
    <3> QED  BY <2>1, <2>5, <3>1, TextInv, BreaksAssumption
  <2> QED  BY <2>1, <2>2, <2>3, <2>4, <2>5 DEF Do
<1>3. CASE UNCHANGED printerVars
  <2>1. WriterInv'
    BY <1>3, NextInv DEF PrinterInv, printerVars
  <2> QED  BY <1>3, <2>1 DEF PrinterInv, printerVars, writerVars
<1> QED  BY <1>1, <1>2, <1>3 DEF PrinterNext
-----------------------------------------------------------------------------
\* Whatever document is printed, and however its lines are broken, the saved ranges
\* are those of its nodes in the text (RangesPointBack, emit.rs:71-111).
THEOREM RangesAlwaysPointBack == PrinterSpec => []RangesPointBack
<1> QED  BY PrinterInitInv, PrinterNextInv, SavedPointBack, PTL DEF PrinterSpec
-----------------------------------------------------------------------------
\* Printing uses the writer as it is meant to be used: every command is a step of
\* the writer, or leaves it alone, so that what is proved of the writer holds of a
\* document that is printed (RangesNest among the rest; emit.rs:71-111).
THEOREM PrintingIsWriting == PrinterSpec => WriterSpec
<1>1. PrinterInit => WriterInit
  BY DEF PrinterInit
<1>2. PrinterInv /\ [PrinterNext]_printerVars => [WriterNext]_writerVars
  <2> SUFFICES ASSUME PrinterInv, [PrinterNext]_printerVars PROVE [WriterNext]_writerVars
    OBVIOUS
  <2>1. CASE \E doc \in Seq(Command) : SetDocument(doc)
    BY <2>1 DEF SetDocument
  <2>2. CASE Render
    <3> DEFINE command == document[printed + 1]
    <3>1. Do(command) /\ command \in Command
      BY <2>2, PrintedIs DEF Render, Advances
    <3> HIDE DEF command
    <3>2. CASE command.do = "begin" /\ push_annotation(command.loc)
      BY <3>1, <3>2 DEF Command, WriterNext
    <3>3. CASE command.do = "end" /\ pop_annotation
      BY <3>3 DEF WriterNext
    <3>4. CASE command.do = "text" /\ write_str(<<command.length>>)
      BY <3>1, <3>4 DEF Command, WriterNext
    <3>5. CASE command.do = "line" /\ \E s \in Breaks : write_str(s)
      BY <3>5, BreaksAssumption DEF WriterNext
    <3> QED  BY <3>1, <3>2, <3>3, <3>4, <3>5 DEF Do
  <2>3. CASE UNCHANGED printerVars
    BY <2>3 DEF printerVars
  <2> QED  BY <2>1, <2>2, <2>3 DEF PrinterNext
<1> QED  BY <1>1, <1>2, PrinterInitInv, PrinterNextInv, PTL DEF PrinterSpec, WriterSpec

\* In a document of annotated(), a node that ends has begun before.
EndsWhatItBegan(doc) ==
  \A c \in 1..Len(doc) : Count(doc, {"end"}, 1, c) <= Count(doc, {"begin"}, 1, c)

\* The node that ends is on the stack: its pop does not panic.
PopFindsANode ==
  /\ EndsWhatItBegan(document)
  /\ printed < Len(document)
  /\ document[printed + 1].do = "end"
  => annotation_stack # << >>

\* Nothing is left on the stack at the end of a document that ends all it begins:
\* every node has its range.
NothingIsLeftOpen ==
  /\ printed = Len(document)
  /\ Count(document, {"begin"}, 1, printed) = Count(document, {"end"}, 1, printed)
  => annotation_stack = << >>

\* The unwrap of pop_annotation is safe and no range is lost, for every document
\* that is bracketed as annotated() brackets it (emit.rs:100-111).
THEOREM NodesAreFound == PrinterSpec => [](PopFindsANode /\ NothingIsLeftOpen)
<1>1. ASSUME PrinterInv PROVE PopFindsANode
  <2> SUFFICES ASSUME EndsWhatItBegan(document), printed < Len(document),
                      document[printed + 1].do = "end", annotation_stack = << >>
               PROVE  FALSE
    BY DEF PopFindsANode
  <2> DEFINE B == Count(document, {"begin"}, 1, printed)
             E == Count(document, {"end"}, 1, printed)
  <2>1. printed \in Nat /\ printed + 1 \in 1..Len(document)
    <3>1. document \in Seq(Command) /\ printed \in 0..Len(document)
      BY <1>1 DEF PrinterInv
    <3>2. Len(document) \in Nat
      BY <3>1
    <3> QED  BY <3>1, <3>2
  <2>2. document[printed + 1].do \in {"end"} /\ document[printed + 1].do \notin {"begin"}
    OBVIOUS
  <2>3. /\ Count(document, {"end"}, 1, printed + 1) = E + 1 /\ E \in Nat
        /\ Count(document, {"begin"}, 1, printed + 1) = B
    BY <2>1, <2>2, CountSame, CountMore
  <2>4. 0 + E = B
    BY <1>1 DEF PrinterInv
  <2>5. E + 1 <= B
    BY <2>1, <2>3 DEF EndsWhatItBegan
  <2> HIDE DEF B, E
  <2> QED  BY <2>3, <2>4, <2>5
<1>2. ASSUME PrinterInv PROVE NothingIsLeftOpen
  <2> SUFFICES ASSUME Count(document, {"begin"}, 1, printed) = Count(document, {"end"}, 1, printed)
               PROVE  annotation_stack = << >>
    BY DEF NothingIsLeftOpen
  <2> DEFINE E == Count(document, {"end"}, 1, printed)
  <2>1. Len(annotation_stack) + E = E
    BY <1>2 DEF PrinterInv
  <2>2. /\ annotation_stack \in Seq([annotation : Origins, start : Position])
        /\ Len(annotation_stack) \in Nat
    BY <1>2, StackIs
  <2>3. E \in Nat
    <3>1. printed \in Int /\ 1 \in Int
      BY <1>2 DEF PrinterInv
    <3> QED  BY <3>1, CountType
  <2> HIDE DEF E
  <2>4. Len(annotation_stack) = 0
    BY <2>1, <2>2, <2>3
  <2> QED  BY <2>2, <2>4, EmptySeq
<1> QED  BY <1>1, <1>2, PrinterInitInv, PrinterNextInv, PTL DEF PrinterSpec
=============================================================================
