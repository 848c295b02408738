\* Loops, nested loops and switches whose labels have blocks of their own
CONSTANTS
  Value = {1, 2, 3}
  Programs <- MCPrograms
SPECIFICATION Spec
INVARIANT BehaviourIsKept
PROPERTY EventsAreMatched
CHECK_DEADLOCK FALSE
