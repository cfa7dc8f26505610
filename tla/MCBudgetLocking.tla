--------------------------- MODULE MCBudgetLocking ---------------------------
(* Instances of BudgetLocking for TLC.                                     *)
EXTENDS BudgetLocking, TLC

CONSTANTS t1, t2, p1, p2

\* Two requests of one pool, each affordable, together beyond the smaller totals.
MCFirst ==
  t1 :> [amount |-> 1, pool |-> p1] @@ t2 :> [amount |-> 2, pool |-> p1]

\* The one request may be raised and moved to the other pool, and back.
MCEdits ==
  t1 :> {[amount |-> 1, pool |-> p1], [amount |-> 2, pool |-> p2]} @@ t2 :> {}

\* The pool may afford one request or both; a second pool affords the raised one.
TightTotal == p1 :> 2 @@ p2 :> 2

AmpleTotal == p1 :> 4 @@ p2 :> 2

\* The handlers that decide under a row lock, with workers that may die.
RowLockedOps ==
  {"approve", "reject", "forward", "approve_request", "reject_request", "lock", "cancel",
   "crash"}

===============================================================================
