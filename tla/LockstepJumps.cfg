\* Switches with a break that does not end the block of a label, and a do with a
\* continue in the body of a for; each kind alone violates the invariant
CONSTANTS
  Value = {1, 2, 3}
  Programs <- JumpPrograms
SPECIFICATION Spec
INVARIANT BehaviourIsKept
CHECK_DEADLOCK FALSE
