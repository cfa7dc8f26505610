\* Two workers racing through the handlers that decide under a row lock.
SPECIFICATION FairSpec
CONSTANTS
  t1 = t1
  t2 = t2
  Tasks = {t1, t2}
  p1 = p1
  p2 = p2
  Pools = {p1, p2}
  Amounts = {1, 2}
  First <- MCFirst
  Edits <- MCEdits
  NoTask = NoTask
  Nobody = Nobody
  Total <- TightTotal
  Workers = {w1, w2}
  Ops <- RowLockedOps
  Start = "UNDER_REVIEW"
INVARIANTS ChargedOnce
PROPERTIES HandlersFinish
CHECK_DEADLOCK FALSE
