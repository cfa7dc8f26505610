SPECIFICATION Spec
CONSTANTS
  Last = 2
  Visible = {1}
  MaxRev = 2
  MaxEdits = 2
  Sessions <- AllSessions
INVARIANTS
  EditLandsWhereTyped
  NoEditVanishes
  Converged
PROPERTIES
  DeferredRefreshRuns
\* Every bound of a session stops its counter, and a quiet tab waits.
CHECK_DEADLOCK FALSE
