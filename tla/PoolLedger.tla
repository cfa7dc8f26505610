------------------------------ MODULE PoolLedger ------------------------------
(***************************************************************************)
(* What the budget pools promise, with no request handlers in sight.  A    *)
(* pool has a fixed total; a budget request is either charged against it   *)
(* or it is not, and used_amount is exactly what the charges add up to, as *)
(* long as the books of the pool are kept.  BudgetLocking shows when the   *)
(* handlers of the code keep this, and what ends it.                       *)
(***************************************************************************)
EXTENDS Integers, Functions

CONSTANTS
  Tasks,     \* the tasks, each with the one budget request linked to it
  Pools,     \* the pools
  Amounts,   \* the amounts a request may ask for
  Total      \* Total[p]: total_amount of pool p

VARIABLES
  charge,    \* charge[p][t]: what pool p is charged for the request of t, 0 for nothing
  used,      \* used[p]: used_amount of pool p
  closed     \* the pools whose books are not kept any more

ledgerVars == <<charge, used, closed>>

\* What pool p is charged altogether.
Cost(p) == SumFunctionOnSet(charge[p], Tasks)

Init ==
  /\ charge = [p \in Pools |-> [t \in Tasks |-> 0]]
  /\ used = [p \in Pools |-> 0]
  /\ closed = {}

\* A request is charged once, and only when the pool can afford it.
Charge(p, t, a) ==
  /\ charge[p][t] = 0
  /\ used[p] + a <= Total[p]
  /\ charge' = [charge EXCEPT ![p][t] = a]
  /\ used' = [used EXCEPT ![p] = @ + a]
  /\ UNCHANGED closed

\* A charge is given back in full.
Refund(p, t) ==
  /\ charge[p][t] # 0
  /\ charge' = [charge EXCEPT ![p][t] = 0]
  /\ used' = [used EXCEPT ![p] = @ - charge[p][t]]
  /\ UNCHANGED closed

\* Nothing is promised of a pool once its books are closed; the others stand.
Loose ==
  /\ closed \subseteq closed'
  /\ closed' # {}
  /\ \A p \in Pools \ closed' : charge'[p] = charge[p] /\ used'[p] = used[p]

Next ==
  \/ \E p \in Pools, t \in Tasks : (\E a \in Amounts : Charge(p, t, a)) \/ Refund(p, t)
  \/ Loose

Spec == Init /\ [][Next]_ledgerVars

-------------------------------------------------------------------------------

TypeOK ==
  /\ charge \in [Pools -> [Tasks -> Amounts \cup {0}]]
  /\ used \in [Pools -> Int]
  /\ closed \subseteq Pools

\* used_amount is the sum of the charges, and the pool is never overdrawn.
Balanced ==
  \A p \in Pools \ closed : used[p] = Cost(p) /\ used[p] <= Total[p]

===============================================================================
