------------------------------ MODULE MCDriver ------------------------------
(* Instances of Driver for TLC *)
EXTENDS Driver

Plain(lines, includes, faults) == [lines |-> lines, includes |-> includes, faults |-> faults]

\* A short text with an early fault; a longer one whose only fault is
\* not reported and one with a late fault and a warning on its last line, both
\* including the header
MCText ==
  {Plain(1, FALSE, {"clang"}), Plain(2, TRUE, {"refine"}), Plain(2, TRUE, {"emit", "warning"})}
=============================================================================
