\* One worker, which may die: every sequence of handlers on two requests.
SPECIFICATION Spec
CONSTANTS
  t1 = t1
  t2 = t2
  p1 = p1
  p2 = p2
  Tasks = {t1, t2}
  Pools = {p1, p2}
  Amounts = {1, 2}
  First <- MCFirst
  Edits <- MCEdits
  NoTask = NoTask
  Nobody = Nobody
  Total <- TightTotal
  Workers = {w1}
  Ops <- Handlers
  Start = "DRAFT"
INVARIANTS TypeOK MoneyFollowsTask
PROPERTIES LedgerSpec
