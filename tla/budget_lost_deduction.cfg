\* Two workers lock the requests of two approved tasks at the same time.
SPECIFICATION Spec
CONSTANTS
  t1 = t1
  t2 = t2
  Tasks = {t1, t2}
  p1 = p1
  p2 = p2
  Pools = {p1, p2}
  Amounts = {1, 2}
  First <- MCFirst
  Edits <- MCEdits
  NoTask = NoTask
  Nobody = Nobody
  Total <- AmpleTotal
  Workers = {w1, w2}
  Ops = {"lock"}
  Start = "APPROVED"
INVARIANT UsedMatchesLocked
CHECK_DEADLOCK FALSE
