------------------------------ MODULE Tokens ------------------------------
(***************************************************************************)
(* The tokens of an annotation (src/src/hauntedc.rs).  Clang hands over    *)
(* code tokens: a text, whether white space stands before it and its       *)
(* place.  They are split once more, because Clang takes $ for a letter    *)
(* and knows no ==>: a code token can become several tokens, two can       *)
(* become one, and each keeps the span of the code tokens it is made of.   *)
(* A text is the sequence of its pieces: <<"x">>, <<"7", "u", "l">>,       *)
(* <<"$", "type">>, <<"x", "$">>; a backtick is the piece "tick".           *)
(* A place of the C source (src/src/ir/mod.rs) has two positions, each a   *)
(* number: the code only compares them.  A span of tokens is given by the  *)
(* index of its first token, counted from zero, and the one after it.      *)
(***************************************************************************)
EXTENDS Naturals, Sequences, TLC

LOCAL INSTANCE FiniteSetsExt
LOCAL INSTANCE SequencesExt

Location(file, from, to) == [file_name |-> file, from |-> from, to |-> to]

\* SourceInfo: what was written there, or only the place nearest to it
Original(loc) == [is |-> "original", loc |-> loc]
Fallback(loc) == [is |-> "fallback", loc |-> loc]

\* The places in the file of the first token that was written somewhere, as
\* one; None of them was written: the fallback.
location_of_source_infos(infos, fallback) ==
  LET original == {k \in DOMAIN infos : infos[k].is = "original"}
      file == infos[Min(original)].loc.file_name
      here == {infos[k].loc : k \in {j \in original : infos[j].loc.file_name = file}}
  IN IF original = {} THEN fallback
     ELSE Original(Location(file, Min({l.from : l \in here}), Max({l.to : l \in here})))

\* Mutant: the token after the span is taken in.
ResolveOneTooMany(infos, fallback, from, to) ==
  CASE to >= Len(infos) -> fallback
    [] to < Len(infos) /\ to - from \in {0, 1} -> infos[from + 1]
    [] OTHER -> location_of_source_infos(SubSeq(infos, from + 1, to + 1), fallback)

\* A span that reaches the end of the text has the place of the annotation; an
\* empty one that of the token it stands before.
resolve_source_info(infos, fallback, from, to) ==
  CASE to >= Len(infos) -> fallback
    [] to < Len(infos) /\ to - from \in {0, 1} -> infos[from + 1]
    [] OTHER -> location_of_source_infos(SubSeq(infos, from + 1, to), fallback)
-----------------------------------------------------------------------------
CodeToken(spaced, text, loc) == [before |-> spaced, text |-> text, loc |-> loc]

Punct ==
  {"*=", "/=", "%=", "+=", "-=", "<<=", ">>=", "&=", "^=", "|=", "[", "]", "(", ")", "{",
   "}", "...", ".", "->", "++", "--", "&&", "&", "*", "+", "-", "~", "!=", "!", "/", "%",
   "<<", ">>", "<=", ">=", "<", ">", "==", "^", "||", "|", "?", "::", ":", ";", "=", ",",
   "##", "#", "$", "tick"}

Numerals == {ToString(n) : n \in 0..99}    \* the decimal literals that occur

\* Texts that are not tokens here: a character, a hexadecimal and a floating literal
Unlexed == {"'a'", "0x10", "1.5"}
-----------------------------------------------------------------------------
\* The letters after a literal, in either case
IntegerSuffix ==
  ( <<>> :> "none" @@ <<"u">> :> "u" @@ <<"l">> :> "l" @@ <<"l", "l">> :> "ll"
    @@ <<"z">> :> "z" @@ <<"u", "l">> :> "ul" @@ <<"u", "l", "l">> :> "ull"
    @@ <<"u", "z">> :> "uz" @@ <<"l", "u">> :> "ul" @@ <<"l", "l", "u">> :> "ull"
    @@ <<"z", "u">> :> "uz" )

Tok(is, text, from, to) == [is |-> is, text |-> text, suffix |-> "none", from |-> from, to |-> to]
Whitespace(i) == Tok("ws", "", i, i)
Dollar(i) == Tok("punct", "$", i, i)

\* A text that is no token becomes an error, and is reported
lex_core_token(text, from, to) ==
  CASE Head(text) \in Numerals /\ Tail(text) \in DOMAIN IntegerSuffix ->
         [Tok("int", Head(text), from, to) EXCEPT !.suffix = IntegerSuffix[Tail(text)]]
    [] Len(text) = 1 /\ Head(text) \in Punct -> Tok("punct", Head(text), from, to)
    [] Len(text) = 1 /\ Head(text) \notin Punct \cup Numerals \cup Unlexed ->
         Tok("ident", Head(text), from, to)
    [] OTHER -> Tok("error", "", from, to)

\* The tokens of code token i: $x and $ tick x start with a $ of their own, x$ ends
\* with one.  Only the token that is lexed covers the code token.
Split(text, i) ==
  CASE Len(text) > 1 /\ Head(text) = "$" /\ Len(text) > 2 /\ text[2] = "tick" ->
         <<Dollar(i), Tok("punct", "tick", i, i), lex_core_token(SubSeq(text, 3, Len(text)), i, i + 1)>>
    [] Len(text) > 1 /\ Head(text) = "$" /\ ~(Len(text) > 2 /\ text[2] = "tick") ->
         <<Dollar(i), lex_core_token(Tail(text), i, i + 1)>>
    [] Len(text) > 1 /\ Head(text) # "$" /\ Last(text) = "$" ->
         <<lex_core_token(Front(text), i, i + 1), Dollar(i)>>
    [] OTHER -> <<lex_core_token(text, i, i + 1)>>

\* == and > with nothing between them are ==>
RECURSIVE MergeImplies(_)
MergeImplies(tokens) ==
  CASE Len(tokens) < 2 -> tokens
    [] Len(tokens) >= 2 /\ tokens[1].text = "==" /\ tokens[2].text = ">" ->
         <<Tok("punct", "==>", tokens[1].from, tokens[2].to)>>
           \o MergeImplies(SubSeq(tokens, 3, Len(tokens)))
    [] OTHER -> <<Head(tokens)>> \o MergeImplies(Tail(tokens))

relex_inline_code(code) ==
  MergeImplies(FlattenSeq([i \in 1..Len(code) |->
    (IF code[i].before THEN <<Whitespace(i - 1)>> ELSE <<>>) \o Split(code[i].text, i - 1)]))

\* White space means nothing to the expressions, and its spans are empty
Solid(tokens) == SelectSeq(tokens, LAMBDA t : t.is # "ws")
=============================================================================
