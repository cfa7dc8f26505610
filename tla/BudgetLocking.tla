---------------------------- MODULE BudgetLocking ----------------------------
(***************************************************************************)
(* The money side of a budget task: a task, the budget request linked to   *)
(* it, and the pools that requests share, under handlers that run          *)
(* concurrently in separate web workers.                                   *)
(*                                                                         *)
(* A handler is not one step.  It reads a row, decides, writes the row     *)
(* back, and only then synchronises the linked request; every statement    *)
(* outside transaction.atomic commits on its own.  So each action below is *)
(* one database statement or one transaction of a handler, and job[w] is   *)
(* what worker w carries from one to the next.  Who may call a handler is  *)
(* the business of TaskApproval; here every caller is permitted.           *)
(***************************************************************************)
EXTENDS Integers, FiniteSets

CONSTANTS
  Tasks,     \* the tasks, each with the one budget request linked to it
  Pools,     \* the pools of one channel and currency
  Amounts,   \* the amounts a request may ask for
  First,     \* First[t]: the amount and the pool the request of t is created with
  Edits,     \* Edits[t]: those a PATCH may give it
  Total,     \* Total[p]: total_amount of pool p
  Workers,   \* concurrent requests the web tier serves
  Ops,       \* the handlers clients call
  Start,     \* the status every task and request starts in
  NoTask,    \* the task of an idle worker
  Nobody     \* the holder of a free row lock

\* The handlers: those of task/views.py, then those of budget_approval/views.py.
Handlers ==
  {"submit", "review", "approve", "reject", "revise", "forward", "lock",
   "unlock", "cancel",
   "review_request", "approve_request", "reject_request", "edit_request",
   "crash"}

Statuses ==
  {"DRAFT", "SUBMITTED", "UNDER_REVIEW", "APPROVED", "REJECTED", "LOCKED",
   "CANCELLED"}

ASSUME LockingAssumption ==
  /\ IsFiniteSet(Tasks)
  /\ Amounts \in SUBSET (Nat \ {0}) /\ Amounts # {}
  /\ Pools # {}
  /\ First \in [Tasks -> [amount : Amounts, pool : Pools]]
  /\ Edits \in [Tasks -> SUBSET [amount : Amounts, pool : Pools]]
  /\ Total \in [Pools -> Nat]
  /\ Ops \subseteq Handlers
  /\ Start \in Statuses \ {"LOCKED"}
  /\ NoTask \notin Tasks
  /\ Nobody \notin Workers

VARIABLES
  task,      \* task[t]: status of the task row
  req,       \* req[t]: the budget request row
  used,      \* used[p]: used_amount of the row of pool p
  reqLock,   \* reqLock[t]: who holds the row lock of the request
  poolLock,  \* poolLock[p]: who holds the row lock of the pool
  job,       \* job[w]: the handler worker w runs and what it has read
  \* What happened, for the properties; no code keeps it.
  net,       \* net[t]: deductions less refunds written for t
  torn,      \* tasks whose unlock broke off with the request still LOCKED
  spoilt     \* pools whose books an edit, or an unlock broken off, has put wrong

history == <<net, torn, spoilt>>
rows    == <<task, req, used, net, torn, spoilt>>
locks   == <<reqLock, poolLock>>
vars    == <<task, req, used, reqLock, poolLock, job, net, torn, spoilt>>

\* A budget request row: what the pool's books depend on.
Rows == [status : Statuses, amount : Amounts, pool : Pools]

\* The points a handler can be interrupted at, each named for what comes next.
Points ==
  {"idle", "save_task", "read_request", "save_request", "process", "lock_request",
   "read_pool", "lock_pool", "deduct", "cancel_request", "refund", "reopen"}

\* The row of a handler that has not read one yet.
NoRow == CHOOSE r \in Rows : TRUE

Idle == [op |-> "none", on |-> NoTask, pc |-> "idle", pool |-> 0, row |-> NoRow]

\* row is the request as the handler last read it, pool the used_amount it read.
Jobs == [op : Handlers \cup {"none"}, on : Tasks \cup {NoTask}, pc : Points,
         pool : Int, row : Rows]

\* The history counts no further than this beyond what is right.
Counts == {-1, 0, 1, 2}

TypeOK ==
  /\ task \in [Tasks -> Statuses]
  /\ req \in [Tasks -> Rows]
  /\ used \in [Pools -> Int]
  /\ reqLock \in [Tasks -> Workers \cup {Nobody}]
  /\ poolLock \in [Pools -> Workers \cup {Nobody}]
  /\ job \in [Workers -> Jobs]
  /\ net \in [Tasks -> Counts]
  /\ torn \subseteq Tasks
  /\ spoilt \subseteq Pools

Init ==
  /\ task = [t \in Tasks |-> Start]
  /\ req = [t \in Tasks |-> [status |-> Start, amount |-> First[t].amount, pool |-> First[t].pool]]
  /\ used = [p \in Pools |-> 0]
  /\ reqLock = [t \in Tasks |-> Nobody]
  /\ poolLock = [p \in Pools |-> Nobody]
  /\ job = [w \in Workers |-> Idle]
  /\ net = [t \in Tasks |-> 0]
  /\ torn = {}
  /\ spoilt = {}

-------------------------------------------------------------------------------
(* Bookkeeping of the workers.                                             *)

At(w, p) == job[w].pc = p

Goto(w, p) == job' = [job EXCEPT ![w].pc = p]

\* The worker reads the request of its task and goes on to p.
Read(w, p) == job' = [job EXCEPT ![w] = [@ EXCEPT !.row = req[job[w].on], !.pc = p]]

Finish(w) == job' = [job EXCEPT ![w] = Idle]

\* Worker w takes a call of handler o on task t, having read request row r.
Run(w, o, t, p, r) ==
  /\ o \in Ops
  /\ At(w, "idle")
  /\ job' = [job EXCEPT ![w] = [op |-> o, on |-> t, pc |-> p, pool |-> 0, row |-> r]]

\* Leaving transaction.atomic, by commit or rollback, frees every row lock held.
Release(w) ==
  /\ reqLock' = [t \in Tasks |-> IF reqLock[t] = w THEN Nobody ELSE reqLock[t]]
  /\ poolLock' = [p \in Pools |-> IF poolLock[p] = w THEN Nobody ELSE poolLock[p]]

\* Mutant: an abandoned transaction keeps its row locks.
RollbackKeepingLocks(w) == Finish(w) /\ UNCHANGED <<rows, locks>>

Rollback(w) == Release(w) /\ Finish(w) /\ UNCHANGED rows

\* A write to a row waits for whoever holds its lock.
RequestFree(w, t) == reqLock[t] \in {w, Nobody}

PoolFree(w, p) == poolLock[p] \in {w, Nobody}

\* A deduction, and a refund, in the history.
More(n) == IF n = 2 THEN 2 ELSE n + 1

Less(n) == IF n = -1 THEN -1 ELSE n - 1

-------------------------------------------------------------------------------
(* The task row.  The statuses a handler accepts and the one it saves.     *)

Sources(o) ==
  CASE o = "submit" -> {"DRAFT"}
    [] o = "review" -> {"SUBMITTED"}
    [] o = "revise" -> {"REJECTED", "CANCELLED"}
    [] o = "unlock" -> {"LOCKED"}
    [] o = "cancel" -> {"SUBMITTED", "UNDER_REVIEW", "APPROVED", "REJECTED"}
    [] OTHER        -> {"APPROVED"}

\* Mutant: cancel saves a status that does not exist.
TargetMisspelt(o) == IF o = "cancel" THEN "CANCELED" ELSE "SUBMITTED"

Target(o) ==
  CASE o = "submit" -> "SUBMITTED"
    [] o \in {"review", "forward"} -> "UNDER_REVIEW"
    [] o = "revise" -> "DRAFT"
    [] o = "lock"   -> "LOCKED"
    [] o = "cancel" -> "CANCELLED"
    [] OTHER        -> "APPROVED"

\* get_object and the checks on the row just read; locking also wants the
\* linked request APPROVED.  No lock is taken.
ReadTask(w, o, t) ==
  /\ o \in {"submit", "review", "revise", "forward", "lock", "unlock", "cancel"}
  /\ task[t] \in Sources(o)
  /\ o = "lock" => req[t].status = "APPROVED"
  /\ Run(w, o, t, "save_task", NoRow)
  /\ UNCHANGED <<rows, locks>>

\* task.save(): the whole row is written, whatever it has become since.
SaveTask(w) ==
  /\ At(w, "save_task")
  /\ task' = [task EXCEPT ![job[w].on] = Target(job[w].op)]
  /\ CASE job[w].op \in {"review", "forward"} -> Finish(w)
       [] job[w].op = "lock"                  -> Goto(w, "lock_request")
       [] job[w].op = "cancel"                -> Goto(w, "cancel_request")
       [] OTHER                               -> Goto(w, "read_request")
  /\ UNCHANGED <<req, used, history, locks>>

\* make_approval: the row is locked, its status read again, and the decision
\* saved, in one transaction.  The request is synchronised after the commit.
\* This is the decision on the last step of a chain, or without one; an earlier
\* step leaves both rows UNDER_REVIEW, and is the business of TaskApproval.
MakeApproval(w, o, t) ==
  /\ o \in {"approve", "reject"}
  /\ task[t] = "UNDER_REVIEW"
  /\ Run(w, o, t, "read_request", NoRow)
  /\ task' = [task EXCEPT ![t] = IF o = "approve" THEN "APPROVED" ELSE "REJECTED"]
  /\ UNCHANGED <<req, used, history, locks>>

-------------------------------------------------------------------------------
(* The request row, outside the pool.                                      *)

\* The synchronising part of a handler reads the request, unlocked, and picks
\* what to do with it; a status it has no use for ends the handler.
ReadRequest(w) ==
  LET o == job[w].op
      s == req[job[w].on].status
  IN
  /\ At(w, "read_request")
  /\ CASE o \in {"approve", "reject"} /\ s = "SUBMITTED"    -> Read(w, "save_request")
       [] o \in {"approve", "reject"} /\ s = "UNDER_REVIEW" -> Read(w, "process")
       [] o = "revise" /\ s \in {"REJECTED", "CANCELLED"}   -> Read(w, "save_request")
       [] o = "submit" /\ s = "DRAFT"                       -> Read(w, "save_request")
       [] o = "unlock" /\ s = "LOCKED"                      -> Read(w, "read_pool")
       [] OTHER                                             -> Finish(w)
  /\ UNCHANGED <<rows, locks>>

\* The status that br.save() writes: what the transition made of the row read.
SavedStatus(w) ==
  CASE job[w].op = "revise"       -> "DRAFT"
    [] job[w].op = "submit"       -> "SUBMITTED"
    [] job[w].op = "edit_request" -> job[w].row.status
    [] OTHER                      -> "UNDER_REVIEW"

\* A save that gives a LOCKED request another amount or pool touches no pool
\* row: the books of the pools it names, before and after, are wrong from there.
Misbooked(t, r) ==
  IF /\ req[t].status = "LOCKED"
     /\ <<req[t].amount, req[t].pool>> # <<r.amount, r.pool>>
    THEN {req[t].pool, r.pool}
    ELSE {}

\* br.save() after start_review, revise, submit or an edit: no lock, whole row.
SaveRequest(w) ==
  LET t == job[w].on
      r == [job[w].row EXCEPT !.status = SavedStatus(w)]
  IN
  /\ At(w, "save_request")
  /\ RequestFree(w, t)
  /\ req' = [req EXCEPT ![t] = r]
  /\ IF job[w].op \in {"approve", "reject"} THEN Goto(w, "process") ELSE Finish(w)
  /\ spoilt' = spoilt \cup Misbooked(t, r)
  /\ UNCHANGED <<task, used, net, torn, locks>>

\* process_approval: lock, check again, decide, commit.  A request that is no
\* longer under review raises ApprovalConflict, and the handler gives up.
ProcessApproval(w) ==
  LET t == job[w].on IN
  /\ At(w, "process")
  /\ RequestFree(w, t)
  /\ IF req[t].status = "UNDER_REVIEW"
       THEN req' = [req EXCEPT ![t].status =
              IF job[w].op \in {"approve", "approve_request"} THEN "APPROVED" ELSE "REJECTED"]
       ELSE UNCHANGED req
  /\ Finish(w)
  /\ UNCHANGED <<task, used, history, locks>>

\* The request's own endpoints: start-review, decision, and PATCH.
ReviewRequest(w, t) ==
  /\ req[t].status = "SUBMITTED"
  /\ Run(w, "review_request", t, "save_request", req[t])
  /\ UNCHANGED <<rows, locks>>

DecideRequest(w, o, t) ==
  /\ o \in {"approve_request", "reject_request"}
  /\ req[t].status = "UNDER_REVIEW"
  /\ Run(w, o, t, "process", req[t])
  /\ UNCHANGED <<rows, locks>>

\* PATCH may set amount and pool, whatever the status of the request.
EditRequest(w, t) ==
  /\ \E e \in Edits[t] :
       Run(w, "edit_request", t, "save_request",
           [status |-> req[t].status, amount |-> e.amount, pool |-> e.pool])
  /\ UNCHANGED <<rows, locks>>

-------------------------------------------------------------------------------
(* lock_budget_request: deduct the amount from the pool.                   *)

\* Mutant: can_lock() is not asked again under the lock.
LockRequestUnchecked(w) ==
  LET t == job[w].on IN
  /\ At(w, "lock_request")
  /\ IF reqLock[t] = Nobody
       THEN /\ reqLock' = [reqLock EXCEPT ![t] = w]
            /\ Read(w, "read_pool")
            /\ UNCHANGED <<rows, poolLock>>
       ELSE Rollback(w)

\* select_for_update(nowait=True) on the request, then can_lock() again.
LockRequest(w) ==
  LET t == job[w].on IN
  /\ At(w, "lock_request")
  /\ IF reqLock[t] = Nobody /\ req[t].status = "APPROVED"
       THEN /\ reqLock' = [reqLock EXCEPT ![t] = w]
            /\ Read(w, "read_pool")
            /\ UNCHANGED <<rows, poolLock>>
       ELSE Rollback(w)

\* The first access to request.budget_pool loads the pool row, before any lock
\* on it, and the copy stays on the instance.
ReadPool(w) ==
  /\ At(w, "read_pool")
  /\ job' = [job EXCEPT ![w] =
       [@ EXCEPT !.pool = used[job[w].row.pool],
                 !.pc = IF job[w].op = "lock" THEN "lock_pool" ELSE "refund"]]
  /\ UNCHANGED <<rows, locks>>

\* Mutant: the pool is not asked whether it can afford the amount.
LockPoolUnchecked(w) ==
  LET p == job[w].row.pool IN
  /\ At(w, "lock_pool")
  /\ IF poolLock[p] = Nobody
       THEN /\ poolLock' = [poolLock EXCEPT ![p] = w]
            /\ Goto(w, "deduct")
            /\ UNCHANGED <<rows, reqLock>>
       ELSE Rollback(w)

\* select_for_update(nowait=True) on the pool, and the availability check on
\* the row it returns.
LockPool(w) ==
  LET p == job[w].row.pool IN
  /\ At(w, "lock_pool")
  /\ IF poolLock[p] = Nobody /\ Total[p] - used[p] >= job[w].row.amount
       THEN /\ poolLock' = [poolLock EXCEPT ![p] = w]
            /\ Goto(w, "deduct")
            /\ UNCHANGED <<rows, reqLock>>
       ELSE Rollback(w)

\* lock(): the deduction is made on the copy read before the lock.
Deduct(w) ==
  LET t == job[w].on
      r == job[w].row
  IN
  /\ At(w, "deduct")
  /\ used' = [used EXCEPT ![r.pool] = job[w].pool + r.amount]
  /\ req' = [req EXCEPT ![t] = [r EXCEPT !.status = "LOCKED"]]
  /\ net' = [net EXCEPT ![t] = More(@)]
  /\ Release(w)
  /\ Finish(w)
  /\ UNCHANGED <<task, torn, spoilt>>

-------------------------------------------------------------------------------
(* cancel_budget_request and the refund in unlock.                         *)

\* used_amount after a refund computed on the copy the worker holds.
Refunded(w) ==
  LET left == job[w].pool - job[w].row.amount IN IF left < 0 THEN 0 ELSE left

\* select_for_update on the request; cancel() leaves CANCELLED alone (the
\* transition is refused and the handler only logs), and loads the pool only
\* when the request is LOCKED.
CancelRequest(w) ==
  LET t == job[w].on IN
  /\ At(w, "cancel_request")
  /\ reqLock[t] = Nobody
  /\ IF req[t].status = "LOCKED"
       THEN /\ reqLock' = [reqLock EXCEPT ![t] = w]
            /\ Read(w, "read_pool")
            /\ UNCHANGED <<rows, poolLock>>
       ELSE /\ req' = [req EXCEPT ![t].status = "CANCELLED"]
            /\ Finish(w)
            /\ UNCHANGED <<task, used, history, locks>>

\* pool.save() in cancel(), then the request, in one transaction.
RefundAndCancel(w) ==
  LET t == job[w].on
      p == job[w].row.pool
  IN
  /\ At(w, "refund")
  /\ job[w].op = "cancel"
  /\ PoolFree(w, p)
  /\ used' = [used EXCEPT ![p] = Refunded(w)]
  /\ req' = [req EXCEPT ![t] = [job[w].row EXCEPT !.status = "CANCELLED"]]
  /\ net' = [net EXCEPT ![t] = Less(@)]
  /\ torn' = torn \ {t}
  /\ Release(w)
  /\ Finish(w)
  /\ UNCHANGED <<task, spoilt>>

\* Mutant: the request is left LOCKED after the refund.
RefundPoolOnly(w) ==
  LET p == job[w].row.pool IN
  /\ At(w, "refund")
  /\ job[w].op = "unlock"
  /\ PoolFree(w, p)
  /\ used' = [used EXCEPT ![p] = Refunded(w)]
  /\ net' = [net EXCEPT ![job[w].on] = Less(@)]
  /\ Finish(w)
  /\ UNCHANGED <<task, req, torn, spoilt, locks>>

\* pool.save() in the unlock handler commits on its own.
RefundPool(w) ==
  LET p == job[w].row.pool IN
  /\ At(w, "refund")
  /\ job[w].op = "unlock"
  /\ PoolFree(w, p)
  /\ used' = [used EXCEPT ![p] = Refunded(w)]
  /\ net' = [net EXCEPT ![job[w].on] = Less(@)]
  /\ Goto(w, "reopen")
  /\ UNCHANGED <<task, req, torn, spoilt, locks>>

\* ... and the queryset update of the request's status is the next statement.
ReopenRequest(w) ==
  LET t == job[w].on IN
  /\ At(w, "reopen")
  /\ RequestFree(w, t)
  /\ req' = [req EXCEPT ![t].status = "APPROVED"]
  /\ torn' = torn \ {t}
  /\ Finish(w)
  /\ UNCHANGED <<task, used, net, spoilt, locks>>

-------------------------------------------------------------------------------

\* Worker w has saved the unlocked task and not yet reopened its LOCKED request.
HalfUnlocked(w) ==
  /\ job[w].op = "unlock"
  /\ job[w].pc \in {"read_request", "read_pool", "refund", "reopen"}
  /\ req[job[w].on].status = "LOCKED"

\* A web worker dies inside a handler, or a statement raises and the handler
\* logs it and answers: the open transaction is rolled back and what has been
\* committed stays.  Between refund and reopening, the books no longer agree.
Crash(w) ==
  /\ "crash" \in Ops
  /\ ~At(w, "idle")
  /\ Release(w)
  /\ Finish(w)
  /\ torn' = IF HalfUnlocked(w) THEN torn \cup {job[w].on} ELSE torn
  /\ spoilt' = IF At(w, "reopen") THEN spoilt \cup {req[job[w].on].pool} ELSE spoilt
  /\ UNCHANGED <<task, req, used, net>>

Step(w) ==
  \/ SaveTask(w) \/ ReadRequest(w) \/ SaveRequest(w) \/ ProcessApproval(w)
  \/ LockRequest(w) \/ ReadPool(w) \/ LockPool(w) \/ Deduct(w)
  \/ CancelRequest(w) \/ RefundAndCancel(w) \/ RefundPool(w) \/ ReopenRequest(w)

Call(w) ==
  \E t \in Tasks :
    \/ \E o \in Ops : ReadTask(w, o, t) \/ MakeApproval(w, o, t) \/ DecideRequest(w, o, t)
    \/ ReviewRequest(w, t)
    \/ EditRequest(w, t)

Next == \E w \in Workers : Call(w) \/ Step(w) \/ Crash(w)

Spec == Init /\ [][Next]_vars

\* A worker that has started a handler keeps executing it.
FairSpec == Spec /\ \A w \in Workers : WF_vars(Step(w))

-------------------------------------------------------------------------------
(* Properties.                                                             *)

AtRest == \A w \in Workers : At(w, "idle")

\* What is deducted from pool p for t.  Between the two statements of an unlock
\* the refund is already made and the status still says LOCKED.
Charge ==
  [p \in Pools |-> [t \in Tasks |->
     IF /\ req[t].status = "LOCKED" /\ req[t].pool = p
        /\ ~\E w \in Workers : At(w, "reopen") /\ job[w].on = t
       THEN req[t].amount ELSE 0]]

Ledger == INSTANCE PoolLedger WITH charge <- Charge, closed <- spoilt

\* However handlers follow one another or break off, a pool only ever moves by
\* one whole charge that it can afford or one whole refund of a charge in
\* force, until a PATCH rewrites a LOCKED request of it or an unlock breaks off
\* between the refund and the status.
LedgerSpec == Ledger!Spec

\* Between handlers, money is locked up only for a task that is itself LOCKED,
\* or whose unlock broke off after the task was saved: no other sequence of
\* handlers, whole or broken off half way, strands a deduction.
MoneyFollowsTask ==
  AtRest => \A t \in Tasks : req[t].status = "LOCKED" => task[t] = "LOCKED" \/ t \in torn

\* Of the handlers racing on one request, a deduction is written exactly once
\* for a request that ends up LOCKED, and is undone exactly once, never
\* refunded twice, when a cancel wins (the re-checks under select_for_update).
ChargedOnce ==
  \A t \in Tasks : net[t] = IF req[t].status = "LOCKED" THEN 1 ELSE 0

\* When no handler is running, used_amount is what the LOCKED requests of the
\* pool add up to, unless its books were spoilt: no deduction and no refund has
\* been lost.
UsedMatchesLocked == AtRest => \A p \in Pools \ spoilt : used[p] = Ledger!Cost(p)

\* Every handler a worker starts comes to its end: no worker waits for ever on
\* a row lock (the nowait locks, and the release on rollback).
HandlersFinish ==
  \A w \in Workers : ~At(w, "idle") ~> At(w, "idle")

-------------------------------------------------------------------------------
(* Why ChargedOnce holds: the inductive invariant.                         *)

\* No client calls a handler that writes a request it did not lock, and no
\* request is at a status only those handlers leave.
RowLockedOnly ==
  /\ Ops \cap {"submit", "revise", "review_request", "edit_request", "unlock"} = {}
  /\ Start \in {"UNDER_REVIEW", "APPROVED", "REJECTED", "CANCELLED"}

\* A worker between select_for_update and its commit holds the row, and the
\* row still has the status its check found there.
HoldsRow(w) ==
  LET t == job[w].on
      p == job[w].pc
  IN
  p \in {"read_pool", "lock_pool", "deduct", "refund"} =>
    /\ reqLock[t] = w
    /\ \/ job[w].op = "lock" /\ req[t].status = "APPROVED" /\ p # "refund"
       \/ job[w].op = "cancel" /\ req[t].status = "LOCKED" /\ p \in {"read_pool", "refund"}

\* The points each of these handlers can be at.
OnPath(w) ==
  LET p == job[w].pc
      o == job[w].op
  IN
  /\ p \notin {"save_request", "reopen"}
  /\ p = "lock_request" => o = "lock"
  /\ p = "cancel_request" => o = "cancel"
  /\ p = "read_request" => o \in {"approve", "reject"}
  /\ p = "save_task" => o \in {"review", "forward", "lock", "cancel"}

RowLockInv ==
  /\ \A t \in Tasks : req[t].status \notin {"DRAFT", "SUBMITTED"}
  /\ \A w \in Workers : HoldsRow(w) /\ OnPath(w)
  /\ ChargedOnce

-------------------------------------------------------------------------------
(* Why MoneyFollowsTask and LedgerSpec hold: the inductive invariant.      *)

\* One request is served at a time; the worker may die serving it.
OneAtATime == \A v, w \in Workers : v = w

\* A handler that unlocks task t has yet to unlock its request.
Unlocking(t) ==
  \E w \in Workers :
    /\ job[w].on = t
    /\ job[w].op = "unlock"
    /\ job[w].pc \in {"read_request", "read_pool", "refund", "reopen"}

\* What worker w has read is still so, and its next statement fits it.
UpToDate(w) ==
  LET t == job[w].on
      o == job[w].op
      p == job[w].pc
      r == job[w].row
      s == req[t].status
  IN
  /\ p = "save_task" => task[t] \in Sources(o) /\ (o = "lock" => s = "APPROVED")
  /\ p = "read_request" => o = "unlock" \/ s # "LOCKED" \/ t \in torn
  /\ p = "save_request" => r.status = s /\ (o # "edit_request" => s # "LOCKED")
  /\ p = "process" => s # "LOCKED"
  /\ p \in {"lock_request", "lock_pool", "deduct"}
       => o = "lock" /\ task[t] = "LOCKED" /\ s = "APPROVED"
  /\ p = "read_pool" => \/ o = "lock" /\ task[t] = "LOCKED" /\ s = "APPROVED"
                        \/ o = "unlock" /\ s = "LOCKED"
                        \/ o = "cancel" /\ s = "LOCKED" /\ t \in torn
  /\ p = "cancel_request" => o = "cancel" /\ (s # "LOCKED" \/ t \in torn)
  /\ p = "refund" => s = "LOCKED" /\ (o = "unlock" \/ (o = "cancel" /\ t \in torn))
  /\ p = "reopen" => s = "LOCKED" /\ o = "unlock"
  /\ p \in {"read_pool", "lock_pool", "deduct", "refund", "reopen"} => r = req[t]
  /\ p \in {"lock_pool", "deduct", "refund"} => job[w].pool = used[r.pool]
  /\ p = "deduct" => used[r.pool] + r.amount <= Total[r.pool]

SequentialInv ==
  /\ \A w \in Workers : UpToDate(w)
  /\ \A t \in Tasks :
       req[t].status = "LOCKED" => task[t] = "LOCKED" \/ Unlocking(t) \/ t \in torn
  /\ Ledger!Balanced

===============================================================================
