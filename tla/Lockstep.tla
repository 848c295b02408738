------------------------------ MODULE Lockstep ------------------------------
(***************************************************************************)
(* A function body of C and its translation, by module Desugar and the     *)
(* goto pass, run side by side.  Each advances silently on its own; where  *)
(* both are at an event, they take it together, with the same answer.      *)
(* Every loop is followed through all its iterations: a run has finitely   *)
(* many states.                                                            *)
(***************************************************************************)
EXTENDS Desugar

CONSTANT Programs    \* the function bodies considered

VARIABLES
  program,    \* the body
  refused,    \* an unsupported statement was reported, or F* rejects the module
  source,     \* the run of the body
  target      \* the run of its translation

vars == <<program, refused, source, target>>
-----------------------------------------------------------------------------
\* The translation of a function body, and whether it is claimed to be one
Translation(body) ==
  LET t == trStmt(Fresh, body)
      code == Bound(restructure_goto(t.stmts))
  IN [refused |-> t.reported \/ \E i \in DOMAIN code : ~Resolves(code[i], {}),
      code |-> code]

Init ==
  /\ program \in Programs
  /\ \E t \in {Translation(program)} : refused = t.refused /\ target = Start(t.code)
  /\ source = Start(Bound(<<program>>))

SourceStep ==
  /\ ~AtEvent(source)
  /\ source' = Advance(source)
  /\ UNCHANGED <<program, refused, target>>

TargetStep ==
  /\ AtEvent(source) /\ ~AtEvent(target)
  /\ target' = Advance(target)
  /\ UNCHANGED <<program, refused, source>>

Together ==
  /\ AtEvent(source) /\ Event(target) = Event(source)
  /\ ~Over(source)
  /\ \E v \in Answers(Event(source)) : source' = Take(source, v) /\ target' = Take(target, v)
  /\ UNCHANGED <<program, refused>>

Next == SourceStep \/ TargetStep \/ Together

Spec == Init /\ [][Next]_vars /\ WF_vars(Next)
-----------------------------------------------------------------------------
\* A translation about which nothing was reported, and in which every goto and
\* every name finds what it means, does what the program does: the same actions,
\* uses of the same variables, tests and selections, in the same order, to the
\* same end, whatever the tests and selections answer (impl.cpp:943, 1005, 1153
\* and 1282, restructure_goto.rs:52).
BehaviourIsKept ==
  ~refused /\ AtEvent(source) /\ AtEvent(target) => Event(source) = Event(target)

\* The translation never runs on for ever without reaching the next event of
\* the program: no generated flag keeps a loop going (impl.cpp:943-1003).
EventsAreMatched ==
  ~refused /\ AtEvent(source) ~> AtEvent(source) /\ AtEvent(target)
=============================================================================
