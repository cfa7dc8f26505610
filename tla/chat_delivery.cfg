\* Connections of one recipient, one after the other, against two workers, with failures.
SPECIFICATION Spec
CONSTANTS
  Workers = {w1, w2}
  Sockets = 2
  Overlap = FALSE
  NoOne = NoOne
  MaxQueued = 1
  MaxFailures = 1
  MaxDeaths = 1
INVARIANTS TypeOK OneHolder NotStranded ReachedReader
PROPERTIES ReadStays
SYMMETRY WorkerSymmetry
CHECK_DEADLOCK FALSE
