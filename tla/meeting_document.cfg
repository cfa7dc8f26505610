SPECIFICATION Spec
CONSTANTS
  Clients = {"left", "right"}
  Nobody = "nobody"
  MaxEdits = 3
  MaxSaves = 4
  Sessions <- AllSessions
INVARIANTS
  NoEditVanishes
  Converged
PROPERTIES
  Settles
CHECK_DEADLOCK FALSE
