----------------------------- MODULE Retention -----------------------------
(***************************************************************************)
(* What pruning promises, without its worklist: starting from the names    *)
(* declared in the main file, names that a kept declaration depends on are *)
(* kept one after the other, in any order, and the unit is cut down only   *)
(* when no dependency of a kept name is missing.                           *)
(***************************************************************************)
VARIABLES
  root,          \* the names declared in the main file
  dependsOn,     \* what the declarations of a name depend on, for every name
  kept,          \* the names known to be needed
  closed         \* whether the unit has been cut down to them

retentionVars == <<root, dependsOn, kept, closed>>

Missing == (UNION {dependsOn[n] : n \in kept}) \ kept

Init ==
  /\ kept = root
  /\ closed = FALSE

Keep ==
  /\ ~closed
  /\ \E n \in Missing : kept' = kept \cup {n}
  /\ UNCHANGED <<root, dependsOn, closed>>

Close ==
  /\ ~closed
  /\ Missing = {}
  /\ closed' = TRUE
  /\ UNCHANGED <<root, dependsOn, kept>>

Next == Keep \/ Close

Spec == Init /\ [][Next]_retentionVars /\ WF_retentionVars(Next)
=============================================================================
