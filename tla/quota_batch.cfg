\* Three calls over a month's end, with the monthly batch run by two workers.
SPECIFICATION Spec
CONSTANTS
  Calls = {c1, c2, c3}
  Settlers = {s1, s2}
  Sizes = {1, 3}
  Quota = 2
  Metered = TRUE
  Unit = 2
  Months = 2
  Dispatch = {"batch"}
INVARIANTS TypeOK OverageExact ReservedAccounted NeverOverbilled NothingDropped
CHECK_DEADLOCK FALSE
