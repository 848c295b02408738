------------------------------ MODULE Desugar ------------------------------
(***************************************************************************)
(* How the translator rewrites the statements of C that its intermediate   *)
(* representation lacks: trStmt in src/cpp/impl.cpp, which appends the     *)
(* translation of a statement to a list.  do, for and switch become while  *)
(* and if with generated flags; break and continue are translated with the *)
(* help of two members of the translator, forLoopIncrement and             *)
(* switchBreakId.  The body of a function then goes through the goto pass  *)
(* (module GotoTrees).                                                     *)
(*                                                                         *)
(* The state of the translator is a value: the list, the two members, the  *)
(* static counters that number the flags, and whether it has reported an   *)
(* unsupported statement.                                                  *)
(***************************************************************************)
EXTENDS ControlFlow

NoSwitch == 0    \* switchBreakId is null

\* A translator at the beginning of a function
Fresh == [stmts |-> <<>>, forLoopIncrement |-> <<>>, switchBreakId |-> NoSwitch,
          doCounter |-> 1, switchCounter |-> 1, reported |-> FALSE]

Push(t, s) == [t EXCEPT !.stmts = Append(@, s)]
PushAll(t, list) == [t EXCEPT !.stmts = @ \o list]
reportUnsupported(t) == [t EXCEPT !.reported = TRUE]

\* t with the list and the members of the translator it was called from
Restore(t, caller) ==
  [t EXCEPT !.stmts = caller.stmts, !.forLoopIncrement = caller.forLoopIncrement,
            !.switchBreakId = caller.switchBreakId]

First(n) == <<"__do_first_", n>>
Scrut(n) == <<"__switch_scrut_", n>>
Hit(n) == <<"__switch_hit_", n>>
Brk(n) == <<"__switch_brk_", n>>

RECURSIVE trStmt(_, _)
trList(t, list) == FoldLeft(trStmt, t, list)

\* trStmts: a list of its own, in the same members
trStmts(t, list) == trList([t EXCEPT !.stmts = <<>>], list)
-----------------------------------------------------------------------------
TrIf(t, s) ==
  LET yes == trStmts(t, s.yes)
      no == trStmts(yes, s.no)
  IN Push(Restore(no, t), If(s.cond, yes.stmts, no.stmts))

\* Mutant: the increment of an outer for stays in force.
WhileKeepsIncrement(t, s) ==
  LET body == trStmts(t, s.body)
  IN Push(Restore(body, t), While(s.cond, body.stmts))

\* The increment of an outer for does not belong to this loop's continue.
TrWhile(t, s) ==
  LET body == trStmts([t EXCEPT !.forLoopIncrement = <<>>], s.body)
  IN Push(Restore(body, t), While(s.cond, body.stmts))

\* Mutant: the flag is not cleared.
DoKeepsFlag(t, s) ==
  LET flag == First(t.doCounter)
      body == trList([t EXCEPT !.stmts = <<>>, !.doCounter = @ + 1], s.body)
  IN PushAll(Restore(body, t),
             <<Assign(flag, TRUE), While(Or(Flag(flag), s.cond), body.stmts)>>)

\* flag = true; while (flag || cond) { flag = false; body }
TrDo(t, s) ==
  LET flag == First(t.doCounter)
      body == trList([t EXCEPT !.stmts = <<Assign(flag, FALSE)>>, !.doCounter = @ + 1], s.body)
  IN PushAll(Restore(body, t),
             <<Assign(flag, TRUE), While(Or(Flag(flag), s.cond), body.stmts)>>)

\* init; while (cond) { body; incr }, and incr before each continue of the body
TrFor(t, s) ==
  LET init == trList(t, s.init)
      body == trStmts([init EXCEPT !.forLoopIncrement = s.incr], s.body)
      incr == trList(body, s.incr)
  IN Push(Restore(incr, init), While(s.cond, incr.stmts))

\* Inside a switch: set break flag instead of emitting break
TrBreak(t, s) ==
  IF t.switchBreakId # NoSwitch THEN Push(t, Assign(Brk(t.switchBreakId), TRUE)) ELSE Push(t, Break)

TrContinue(t, s) == Push(trList(t, t.forLoopIncrement), Continue)
-----------------------------------------------------------------------------
\* A chain of case labels: its values, and the first statement that is no case
RECURSIVE caseValues(_)
caseValues(s) == IF s.op = "case" THEN <<s.value>> \o caseValues(s.sub) ELSE <<>>
RECURSIVE caseBody(_)
caseBody(s) == IF s.op = "case" THEN caseBody(s.sub) ELSE s

\* if (!brk && (hit || scrut == v1 || ..)) { hit = true; s1 }
TrCase(t, s, n) ==
  LET Matches(cond, v) == Or(cond, Is(Scrut(n), v))
      matchCond == FoldLeft(Matches, Lit(FALSE), caseValues(s))
      body == trStmt([t EXCEPT !.stmts = <<Assign(Hit(n), TRUE)>>], caseBody(s))
  IN Push(Restore(body, t),
          If(And(Not(Flag(Brk(n))), Or(Flag(Hit(n)), matchCond)), body.stmts, <<>>))

\* if (!brk) { hit = true; sd }
TrDefault(t, s, n) ==
  LET body == trStmt([t EXCEPT !.stmts = <<Assign(Hit(n), TRUE)>>], s.sub)
  IN Push(Restore(body, t), If(Not(Flag(Brk(n))), body.stmts, <<>>))

\* The children of a switch, from index i on.  A case after the default is
\* unsupported, and ends the translation of the switch.
RECURSIVE TrChildren(_, _, _, _)
TrChildren(t, body, i, n) ==
  IF i > Len(body) THEN t
  ELSE LET s == body[i]
           seenDefault == \E j \in 1 .. i - 1 : body[j].op = "default"
       IN CASE s.op = "case" /\ seenDefault -> reportUnsupported(t)
            [] s.op = "case" /\ ~seenDefault -> TrChildren(TrCase(t, s, n), body, i + 1, n)
            [] s.op = "default" -> TrChildren(TrDefault(t, s, n), body, i + 1, n)
            [] OTHER -> TrChildren(trStmt(t, s), body, i + 1, n)

\* scrut = scrutinee; hit = false; brk = false; then the children.  The body has
\* to be a compound statement.
TrSwitch(t, s) ==
  LET n == t.switchCounter
      flags == PushAll([t EXCEPT !.switchCounter = @ + 1],
                       <<Select(Scrut(n), s.name), Assign(Hit(n), FALSE), Assign(Brk(n), FALSE)>>)
      body == IF s.sub.op = "block"
              THEN TrChildren([flags EXCEPT !.switchBreakId = n], s.sub.body, 1, n)
              ELSE reportUnsupported(flags)
  IN [body EXCEPT !.switchBreakId = t.switchBreakId]
-----------------------------------------------------------------------------
trStmt(t, s) ==
  CASE s.op = "if" -> TrIf(t, s)
    [] s.op = "while" -> TrWhile(t, s)
    [] s.op = "do" -> TrDo(t, s)
    [] s.op = "switch" -> TrSwitch(t, s)
    [] s.op = "for" -> TrFor(t, s)
    [] s.op = "break" -> TrBreak(t, s)
    [] s.op = "continue" -> TrContinue(t, s)
    [] s.op = "block" -> trList(t, s.body)
    [] s.op = "label" -> trStmt(Push(t, Mark(s.label)), s.sub)
    [] s.op \in {"act", "return", "goto", "declare", "use"} -> Push(t, s)
    [] s.op \in {"case", "default"} -> Push(reportUnsupported(t), Error)
-----------------------------------------------------------------------------
Pass == INSTANCE GotoTrees

\* Statements in the form in which that module has them, and back
RECURSIVE ToPass(_), FromPass(_)
ToPass(list) ==
  LET Nest(kind, name, subs) == [kind |-> kind, name |-> name, subs |-> subs]
      Of(s) == CASE s.op = "goto" -> Nest("goto", s.label, <<>>)
                 [] s.op = "mark" -> Nest("label", s.label, <<>>)
                 [] s.op = "if" -> Nest("if", s.cond, <<ToPass(s.yes), ToPass(s.no)>>)
                 [] s.op = "while" -> Nest("while", s.cond, <<ToPass(s.body)>>)
                 [] OTHER -> Nest("plain", s, <<>>)
      One(done, s) == Append(done, Of(s))
  IN FoldLeft(One, <<>>, list)
FromPass(list) ==
  LET Of(s) == CASE s.kind = "goto" -> Goto(s.name)
                 [] s.kind = "label" -> Mark(s.name)
                 [] s.kind = "if" -> If(s.name, FromPass(s.subs[1]), FromPass(s.subs[2]))
                 [] s.kind = "while" -> While(s.name, FromPass(s.subs[1]))
                 [] s.kind = "block" -> GotoBlock(FromPass(s.subs[1]), s.name)
                 [] s.kind = "plain" -> s.name
      One(done, s) == Append(done, Of(s))
  IN FoldLeft(One, <<>>, list)

restructure_goto(list) == FromPass(Pass!restructure_stmts(ToPass(list)))
=============================================================================
