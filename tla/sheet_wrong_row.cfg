SPECIFICATION Spec
CONSTANTS
  Last = 2
  Visible = {1}
  MaxRev = 2
  MaxEdits = 2
  Sessions <- Typing
INVARIANTS
  NeverInAnotherRow
CHECK_DEADLOCK FALSE
