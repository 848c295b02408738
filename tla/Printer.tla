------------------------------ MODULE Printer ------------------------------
(***************************************************************************)
(* Printing a document with the writer (emit in src/src/pass/emit.rs and   *)
(* RcDoc::render_raw of the crate pretty, which it calls): the commands of *)
(* the document are carried out one by one.  A node of the program is      *)
(* begun and ended where annotated() stands, its text is put between, and  *)
(* the layout turns a line into white space or a new line.  Which words    *)
(* are written is left out: a text is given by its length.                 *)
(***************************************************************************)
EXTENDS Writer, FiniteSets

Lists == INSTANCE SequencesExt

\* What the layout makes of a line
Breaks == {<<1>>, <<0, 2>>}

ASSUME BreaksAssumption == Breaks \subseteq Pieces

VARIABLES document,    \* what is printed, as a sequence of commands
          printed      \* how many of them are carried out

printerVars == <<document, printed, writerVars>>

Command ==
  [do : {"begin"}, loc : Origins] \cup [do : {"end"}] \cup [do : {"line"}]
    \cup [do : {"text"}, length : {n \in Nat : <<n>> \in Pieces}]

Begin(loc) == <<[do |-> "begin", loc |-> loc]>>
End == <<[do |-> "end"]>>
Characters(n) == <<[do |-> "text", length |-> n]>>
Newline == <<[do |-> "line"]>>
-----------------------------------------------------------------------------
PrinterInit ==
  /\ document = <<>>
  /\ printed = 0
  /\ WriterInit

SetDocument(doc) ==
  /\ document = <<>>
  /\ document' = doc
  /\ UNCHANGED <<printed, writerVars>>

Do(command) ==
  \/ /\ command.do = "begin"
     /\ push_annotation(command.loc)
  \/ /\ command.do = "end"
     /\ pop_annotation
  \/ /\ command.do = "text"
     /\ write_str(<<command.length>>)
  \/ /\ command.do = "line"
     /\ \E s \in Breaks : write_str(s)

Render ==
  /\ printed < Len(document)
  /\ Do(document[printed + 1])
  /\ printed' = printed + 1
  /\ UNCHANGED document

PrinterNext == (\E doc \in Seq(Command) : SetDocument(doc)) \/ Render

PrinterSpec == PrinterInit /\ [][PrinterNext]_printerVars
-----------------------------------------------------------------------------
\* The text of the pieces that are written, and the position after a text
CharactersOf(piece) ==
  Lists!FlattenSeq([i \in DOMAIN piece |->
    (IF i = 1 THEN <<>> ELSE <<"newline">>) \o [c \in 1..piece[i] |-> "character"]])
TextOf(pieces) == Lists!FlattenSeq([k \in DOMAIN pieces |-> CharactersOf(pieces[k])])

Newlines(text) == {i \in DOMAIN text : text[i] = "newline"}
LastNewline(text) ==
  IF Newlines(text) = {} THEN 0
  ELSE CHOOSE i \in Newlines(text) : \A j \in Newlines(text) : j <= i
EndOf(text) ==
  [line |-> 1 + Cardinality(Newlines(text)), character |-> 1 + Len(text) - LastNewline(text)]

\* In a document: the commands of a kind, the position after a command, and the
\* command that began the node which command c ends
Count(doc, what, from, to) == Cardinality({c \in from..to : doc[c].do \in what})
PositionAfter(doc, pieces, c) == EndOf(TextOf(SubSeq(pieces, 1, Count(doc, {"text", "line"}, 1, c))))

Begins(doc, b, c) ==
  /\ doc[b].do = "begin"
  /\ Count(doc, {"begin"}, b, c) = Count(doc, {"end"}, b, c)
  /\ \A d \in b..(c - 1) : Count(doc, {"begin"}, b, d) > Count(doc, {"end"}, b, d)
BeginOf(doc, c) == CHOOSE b \in 1..c : Begins(doc, b, c)

\* The entry of the node that command c ended
EntryOf(doc, pieces, c) ==
  LET b == BeginOf(doc, c)
  IN [loc |-> doc[b].loc,
      start |-> PositionAfter(doc, pieces, b - 1),
      end |-> PositionAfter(doc, pieces, c)]

\* The saved ranges are those of the text: a node that is printed has an entry, from
\* where its text begins to where it ends, under its own place, however the layout
\* broke the lines (emit.rs:71-111).
RangesPointBack ==
  /\ Len(source_range_map) = Count(document, {"end"}, 1, printed)
  /\ \A c \in 1..printed :
       document[c].do = "end" =>
         source_range_map[Count(document, {"end"}, 1, c)] = EntryOf(document, buffer, c)
=============================================================================
