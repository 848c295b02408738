---------------------------- MODULE ControlFlow ----------------------------
(***************************************************************************)
(* What statements do: the control flow of C, as clang's syntax tree       *)
(* presents it, and of the smaller language the translator turns it into,  *)
(* which has assignments to generated variables, if and while (emit_stmt   *)
(* in src/src/pass/emit.rs prints these as the Pulse constructs of the     *)
(* same name).  A case label has one statement below it; the statements    *)
(* that follow it are its siblings in the body of the switch.              *)
(*                                                                         *)
(* A run is a continuation, the sequence of what is left to do, with the   *)
(* values of the generated variables and the text of the function, where a *)
(* goto finds its label.  It advances silently until it is at an event: an *)
(* action of the program, the use of a variable, a test or a selection,    *)
(* whose answer the surroundings give, a return or the end.                *)
(*                                                                         *)
(* Both languages have lexical scopes: which declaration a use means is    *)
(* settled before the run, by Bound.                                       *)
(***************************************************************************)
EXTENDS Naturals, Sequences, SequencesExt

CONSTANT Value    \* the values a selection can have

ASSUME ValueAssumption == Value \subseteq Nat \ {0}

\* Conditions: an opaque test of the program, or one made by the translator
Test(c) == [op |-> "test", name |-> c]
Lit(b) == [op |-> "lit", value |-> b]
Flag(x) == [op |-> "flag", var |-> x]
Is(x, v) == [op |-> "is", var |-> x, equals |-> v]
Or(p, q) == [op |-> "or", args |-> <<p, q>>]
And(p, q) == [op |-> "and", args |-> <<p, q>>]
Not(p) == [op |-> "not", arg |-> p]

\* Statements of both languages
Act(a) == [op |-> "act", name |-> a]
If(c, yes, no) == [op |-> "if", cond |-> c, yes |-> yes, no |-> no]
While(c, body) == [op |-> "while", cond |-> c, body |-> body]
Break == [op |-> "break"]
Continue == [op |-> "continue"]
Return == [op |-> "return"]
Goto(l) == [op |-> "goto", label |-> l]

\* A declaration has a number of its own.  A use gets that of the declaration
\* that its name means.
Undeclared == 0
Declare(x, n) == [op |-> "declare", var |-> x, decl |-> n]
Use(x) == [op |-> "use", var |-> x, decl |-> Undeclared]

\* Statements of C only.  The parts a `for` may lack are sequences of length 0;
\* a body of several statements is a block.
Block(body) == [op |-> "block", body |-> body]
Do(body, c) == [op |-> "do", body |-> body, cond |-> c]
For(init, cond, incr, body) ==
  [op |-> "for", init |-> init, cond |-> cond, incr |-> incr, body |-> body]
Switch(name, sub) == [op |-> "switch", name |-> name, sub |-> sub]
Case(v, sub) == [op |-> "case", value |-> v, sub |-> sub]
Default(sub) == [op |-> "default", sub |-> sub]
Label(l, sub) == [op |-> "label", label |-> l, sub |-> sub]

\* Statements of the translation only.  A goto leaves the block of its label; a
\* mark is a label that has become the end of no block, of which no trace is left.
Mark(l) == [op |-> "mark", label |-> l]
GotoBlock(body, l) == [op |-> "goto block", body |-> body, label |-> l]
Assign(x, b) == [op |-> "assign", var |-> x, value |-> b]
Select(x, name) == [op |-> "select", var |-> x, name |-> name]
Error == [op |-> "error"]

\* Items of a continuation: where a loop goes on, and where a switch ends
Again(k) == [op |-> "again", next |-> k]
EndSwitch == [op |-> "end switch"]
Branch(c, yes, no) == [op |-> "branch", cond |-> c, yes |-> yes, no |-> no]
Enter(s) == [op |-> "enter", name |-> s.name, sub |-> s.sub]
-----------------------------------------------------------------------------
Insert(map, x, v) == [y \in DOMAIN map \cup {x} |-> IF y = x THEN v ELSE map[y]]
NoVars == [x \in {} |-> FALSE]

\* The declarations in force after a list, given those in force before it
ScopeAfter(list, scope) ==
  LET Declared(sc, s) == IF s.op = "declare" THEN Insert(sc, s.var, s.decl) ELSE sc
  IN FoldLeft(Declared, scope, list)

RECURSIVE Bind(_, _)
\* A list of statements, a scope of its own, with each use bound
BindList(list, scope) ==
  LET One(done, s) == Append(done, Bind(s, ScopeAfter(done, scope)))
  IN FoldLeft(One, <<>>, list)
Bind(s, scope) ==
  CASE s.op = "use" /\ s.var \in DOMAIN scope -> [s EXCEPT !.decl = scope[s.var]]
    [] s.op = "if" -> [s EXCEPT !.yes = BindList(@, scope), !.no = BindList(@, scope)]
    [] s.op \in {"block", "while", "do", "goto block"} -> [s EXCEPT !.body = BindList(@, scope)]
    [] s.op = "for" ->
         LET inner == ScopeAfter(s.init, scope)
         IN [s EXCEPT !.init = BindList(@, scope), !.incr = BindList(@, inner),
                      !.body = BindList(@, inner)]
    [] s.op \in {"switch", "case", "default", "label"} -> [s EXCEPT !.sub = Bind(@, scope)]
    [] OTHER -> s

Bound(list) == BindList(list, NoVars)

\* Every goto below s is in the block of its label, every use finds a
\* declaration: otherwise F* rejects the module.
RECURSIVE Resolves(_, _)
Resolves(s, labels) ==
  LET All(list, in) == \A i \in DOMAIN list : Resolves(list[i], in)
  IN CASE s.op = "goto" -> s.label \in labels
       [] s.op = "use" -> s.decl # Undeclared
       [] s.op = "if" -> All(s.yes, labels) /\ All(s.no, labels)
       [] s.op = "while" -> All(s.body, labels)
       [] s.op = "goto block" -> All(s.body, labels \cup {s.label})
       [] OTHER -> TRUE
-----------------------------------------------------------------------------
Start(stmts) == [todo |-> stmts, vars |-> NoVars, text |-> stmts]

\* Where a loop goes on at the end of its body
NextTurn(s) ==
  CASE s.op = "while" -> Again(<<s>>)
    [] s.op = "do" -> Again(<<Branch(s.cond, <<s>>, <<>>)>>)
    [] s.op = "for" -> Again(s.incr \o <<For(<<>>, s.cond, s.incr, s.body)>>)

\* What is left to do from label l on, for the label below s, before k: one
\* continuation, or none.  The label of a goto block is at its end.
RECURSIVE From(_, _, _)
FromList(list, k, l) ==
  UNION {From(list[i], SubSeq(list, i + 1, Len(list)) \o k, l) : i \in DOMAIN list}
From(s, k, l) ==
  CASE s.op = "label" -> IF s.label = l THEN {<<s.sub>> \o k} ELSE From(s.sub, k, l)
    [] s.op = "goto block" -> IF s.label = l THEN {k} ELSE FromList(s.body, k, l)
    [] s.op = "block" -> FromList(s.body, k, l)
    [] s.op = "if" -> FromList(s.yes, k, l) \cup FromList(s.no, k, l)
    [] s.op \in {"while", "do", "for"} -> FromList(s.body, <<NextTurn(s)>> \o k, l)
    [] s.op = "switch" -> From(s.sub, <<EndSwitch>> \o k, l)
    [] s.op \in {"case", "default"} -> From(s.sub, k, l)
    [] OTHER -> {}

\* The places a goto leads to: one, or none if its label is gone
Places(r, l) == FromList(r.text, <<>>, l)

\* The event a run is at: <<>> if it has to advance first
Event(r) ==
  IF r.todo = <<>> THEN <<"end">>
  ELSE LET s == Head(r.todo)
       IN CASE s.op = "act" -> <<"act", s.name>>
            [] s.op = "use" -> <<"use", s.var, s.decl>>
            [] s.op = "return" -> <<"return">>
            [] s.op = "error" \/ (s.op = "goto" /\ Places(r, s.label) = {}) -> <<"error">>
            [] s.op \in {"select", "enter"} -> <<"select", s.name>>
            [] s.op = "branch" /\ s.cond.op = "test" -> <<"test", s.cond.name>>
            [] OTHER -> <<>>

AtEvent(r) == Event(r) # <<>>
Over(r) == Event(r) \in {<<"end">>, <<"return">>, <<"error">>}

\* The labels at the start of a child of a switch; the one of `default` is 0.
RECURSIVE Labels(_)
Labels(s) ==
  CASE s.op = "case" -> {s.value} \cup Labels(s.sub)
    [] s.op = "default" -> {0} \cup Labels(s.sub)
    [] OTHER -> {}

\* The body of a switch from the label that v selects on
Entry(s, v) ==
  LET body == IF s.op = "block" THEN s.body ELSE <<s>>
      Labelled(c) == v \in Labels(c)
      IsDefault(c) == 0 \in Labels(c)
      at == SelectInSeq(body, Labelled)
      default == SelectInSeq(body, IsDefault)
  IN CASE at # 0 -> SubSeq(body, at, Len(body))
       [] at = 0 /\ default # 0 -> SubSeq(body, default, Len(body))
       [] OTHER -> <<>>

\* A break leaves the nearest loop or switch, a continue goes to the end of the
\* body of the nearest loop.
AfterBreak(k) ==
  LET Target(i) == i.op \in {"again", "end switch"}
  IN SubSeq(k, SelectInSeq(k, Target) + 1, Len(k))

AfterContinue(k) ==
  LET Target(i) == i.op = "again"
  IN SubSeq(k, SelectInSeq(k, Target), Len(k))

\* A silent step: what is left to do instead of the first item s, before k
Unfold(s, k, r) ==
  CASE s.op \in {"block", "goto block"} -> s.body \o k
    [] s.op = "if" -> <<Branch(s.cond, s.yes, s.no)>> \o k
    [] s.op = "while" -> <<Branch(s.cond, s.body \o <<NextTurn(s)>>, <<>>)>> \o k
    [] s.op = "do" -> s.body \o <<NextTurn(s)>> \o k
    [] s.op = "for" -> s.init \o <<Branch(s.cond, s.body \o <<NextTurn(s)>>, <<>>)>> \o k
    [] s.op = "switch" -> <<Enter(s)>> \o k
    [] s.op \in {"case", "default", "label"} -> <<s.sub>> \o k
    [] s.op = "goto" -> CHOOSE place \in Places(r, s.label) : TRUE
    [] s.op = "break" -> AfterBreak(k)
    [] s.op = "continue" -> AfterContinue(k)
    [] s.op = "again" -> s.next \o k
    [] s.op \in {"end switch", "assign", "declare", "mark"} -> k
    [] s.op = "branch" ->
         LET c == s.cond
         IN CASE c.op = "lit" -> (IF c.value THEN s.yes ELSE s.no) \o k
              [] c.op = "flag" -> (IF r.vars[c.var] THEN s.yes ELSE s.no) \o k
              [] c.op = "is" -> (IF r.vars[c.var] = c.equals THEN s.yes ELSE s.no) \o k
              [] c.op = "not" -> <<Branch(c.arg, s.no, s.yes)>> \o k
              [] c.op = "or" -> <<Branch(c.args[1], s.yes, <<Branch(c.args[2], s.yes, s.no)>>)>> \o k
              [] c.op = "and" -> <<Branch(c.args[1], <<Branch(c.args[2], s.yes, s.no)>>, s.no)>> \o k

\* The run after a silent step
Advance(r) ==
  LET s == Head(r.todo)  k == Tail(r.todo)
  IN [r EXCEPT !.todo = Unfold(s, k, r),
               !.vars = IF s.op = "assign" THEN Insert(@, s.var, s.value) ELSE @]

\* The run after the event it is at, when the answer is v
Take(r, v) ==
  LET s == Head(r.todo)  k == Tail(r.todo)
  IN CASE s.op \in {"act", "use"} -> [r EXCEPT !.todo = k]
       [] s.op = "select" -> [r EXCEPT !.todo = k, !.vars = Insert(@, s.var, v)]
       [] s.op = "enter" -> [r EXCEPT !.todo = Entry(s.sub, v) \o <<EndSwitch>> \o k]
       [] s.op = "branch" -> [r EXCEPT !.todo = (IF v THEN s.yes ELSE s.no) \o k]

\* The answers to an event
Answers(e) ==
  CASE e[1] = "select" -> Value
    [] e[1] = "test" -> BOOLEAN
    [] OTHER -> {TRUE}
=============================================================================
