------------------------- MODULE BudgetLockingProofs -------------------------
(***************************************************************************)
(* Proofs about BudgetLocking, for any tasks, amounts, pool and number of  *)
(* workers.                                                                *)
(***************************************************************************)
EXTENDS BudgetLocking, FiniteSetTheorems, WellFoundedInduction, TLAPS

\* An idle worker has a job.
LEMMA IdleJob == NoRow \in Rows /\ Idle \in Jobs
<1>1. PICK a \in Amounts, p \in Pools : TRUE
  BY LockingAssumption
<1>2. [status |-> "DRAFT", amount |-> a, pool |-> p] \in Rows
  BY DEF Rows, Statuses
<1>3. NoRow \in Rows
  BY <1>2 DEF NoRow
<1>4. QED
  BY <1>3 DEF Idle, Jobs, Points

\* What a job carries, field by field.
LEMMA JobFacts ==
  ASSUME TypeOK, NEW w \in Workers
  PROVE  /\ job[w].on \in Tasks \cup {NoTask}
         /\ job[w].op \in Handlers \cup {"none"}
         /\ job[w].pc \in Points
         /\ job[w].pool \in Int
         /\ job[w].row \in Rows
         /\ job[w].row.status \in Statuses
         /\ job[w].row.amount \in Amounts /\ job[w].row.amount \in Nat
         /\ job[w].row.pool \in Pools
  BY LockingAssumption DEF TypeOK, Jobs, Rows

\* A worker that reads its request keeps the rest of its job.
LEMMA ReadFrame ==
  ASSUME TypeOK, NEW w \in Workers, NEW p \in Points, Read(w, p)
  PROVE  /\ \A v \in Workers \ {w} : job'[v] = job[v]
         /\ job'[w].pc = p /\ job'[w].on = job[w].on /\ job'[w].op = job[w].op
         /\ job'[w].row = req[job[w].on] /\ job'[w].pool = job[w].pool
<1>1. job' = [job EXCEPT ![w] = [job[w] EXCEPT !.row = req[job[w].on], !.pc = p]]
  BY DEF Read, TypeOK
<1>2. job[w] \in Jobs /\ job \in [Workers -> Jobs]
  BY DEF TypeOK
<1>3. job'[w] = [job[w] EXCEPT !.row = req[job[w].on], !.pc = p]
  BY <1>1, <1>2
<1>4. \A v \in Workers \ {w} : job'[v] = job[v]
  BY <1>1, <1>2
<1>5. QED
  BY <1>2, <1>3, <1>4 DEF Jobs

\* Every way a worker's job changes keeps it a job: by moving on,
LEMMA GotoType ==
  ASSUME TypeOK, NEW w \in Workers, NEW p \in Points, Goto(w, p)
  PROVE  job' \in [Workers -> Jobs]
  BY JobFacts DEF TypeOK, Goto, Jobs

\* ... by reading the request on the way,
LEMMA ReadType ==
  ASSUME TypeOK, NEW w \in Workers, NEW p \in Points, Read(w, p), job[w].on \in Tasks
  PROVE  job' \in [Workers -> Jobs]
<1>1. req[job[w].on] \in Rows
  BY DEF TypeOK
<1>2. [job[w] EXCEPT !.row = req[job[w].on], !.pc = p] \in Jobs
  BY <1>1 DEF TypeOK, Jobs
<1>3. QED
  BY <1>2 DEF TypeOK, Read

\* ... by ending the handler,
LEMMA FinishType ==
  ASSUME TypeOK, NEW w \in Workers, Finish(w)
  PROVE  job' \in [Workers -> Jobs]
  BY IdleJob DEF TypeOK, Finish

\* ... or by taking a call.
LEMMA RunType ==
  ASSUME TypeOK, NEW w \in Workers, NEW o \in Ops, NEW t \in Tasks, NEW p \in Points,
         NEW r \in Rows, Run(w, o, t, p, r)
  PROVE  job' \in [Workers -> Jobs]
  BY LockingAssumption DEF TypeOK, Run, Jobs

\* Leaving a transaction keeps every lock with a worker or with nobody.
LEMMA ReleaseType ==
  ASSUME TypeOK, NEW w \in Workers, Release(w)
  PROVE  /\ reqLock' \in [Tasks -> Workers \cup {Nobody}]
         /\ poolLock' \in [Pools -> Workers \cup {Nobody}]
  BY DEF TypeOK, Release

\* An abandoned transaction leaves the types as they were.
LEMMA RollbackType ==
  ASSUME TypeOK, NEW w \in Workers, Rollback(w)
  PROVE  TypeOK'
<1>1. job' \in [Workers -> Jobs]
  BY FinishType DEF Rollback
<1>2. /\ reqLock' \in [Tasks -> Workers \cup {Nobody}]
      /\ poolLock' \in [Pools -> Workers \cup {Nobody}]
  BY ReleaseType DEF Rollback
<1> QED
  BY <1>1, <1>2 DEF TypeOK, Rollback, rows

\* The task a busy worker is on is a task.
Placed == \A w \in Workers : ~At(w, "idle") => job[w].on \in Tasks

\* A worker stays on the task it was called for.
LEMMA PlacedStep ==
  ASSUME TypeOK, Placed, NEW w \in Workers,
         \/ Finish(w)
         \/ \E p \in Points : ~At(w, "idle") /\ Goto(w, p)
         \/ \E p \in Points : ~At(w, "idle") /\ Read(w, p)
         \/ \E o \in Ops, t \in Tasks, p \in Points, r \in Rows : Run(w, o, t, p, r)
         \/ ReadPool(w)
         \/ UNCHANGED job
  PROVE  Placed'
<1>1. CASE ReadPool(w)
  <2>1. \A v \in Workers : job'[v].on = job[v].on /\ (At(v, "idle")' <=> At(v, "idle"))
    BY <1>1 DEF ReadPool, At, TypeOK, Jobs
  <2> QED
    BY <2>1 DEF Placed, At
<1>2. CASE \E p \in Points : ~At(w, "idle") /\ Read(w, p)
  <2>1. PICK p \in Points : ~At(w, "idle") /\ Read(w, p)
    BY <1>2
  <2> QED
    BY <2>1, ReadFrame DEF Placed, At
<1>3. CASE ~ReadPool(w) /\ ~\E p \in Points : ~At(w, "idle") /\ Read(w, p)
  BY <1>3 DEF Placed, TypeOK, Jobs, Finish, Goto, Run, At, Idle
<1> QED
  BY <1>1, <1>2, <1>3

\* Every call keeps the types.
LEMMA CallType ==
  ASSUME TypeOK, Placed, NEW w \in Workers, Call(w)
  PROVE  TypeOK' /\ Placed'
<1> USE DEF Points
<1>1. PICK t \in Tasks : \/ \E o \in Ops : \/ ReadTask(w, o, t)
                                          \/ MakeApproval(w, o, t)
                                          \/ DecideRequest(w, o, t)
                         \/ ReviewRequest(w, t)
                         \/ EditRequest(w, t)
  BY DEF Call
<1> DEFINE Taken(o, p, r) == o \in Ops /\ p \in Points /\ r \in Rows /\ Run(w, o, t, p, r)
<1>2. /\ NoRow \in Rows
      /\ req[t] \in Rows
  BY IdleJob DEF TypeOK
<1>3. ASSUME NEW o \in Ops, ReadTask(w, o, t)
      PROVE  TypeOK' /\ Placed'
  <2>1. Taken(o, "save_task", NoRow)
    BY <1>2, <1>3 DEF ReadTask
  <2>2. job' \in [Workers -> Jobs] /\ Placed'
    BY <2>1, RunType, PlacedStep
  <2> QED
    BY <2>2, <1>3 DEF ReadTask, TypeOK, rows, locks
<1>4. ASSUME NEW o \in Ops, MakeApproval(w, o, t)
      PROVE  TypeOK' /\ Placed'
  <2>1. Taken(o, "read_request", NoRow)
    BY <1>2, <1>4 DEF MakeApproval
  <2>2. job' \in [Workers -> Jobs] /\ Placed'
    BY <2>1, RunType, PlacedStep
  <2>3. task' \in [Tasks -> Statuses]
    BY <1>4 DEF MakeApproval, TypeOK, Statuses
  <2> QED
    BY <2>2, <2>3, <1>4 DEF MakeApproval, TypeOK, locks, history
<1>5. ASSUME NEW o \in Ops, DecideRequest(w, o, t)
      PROVE  TypeOK' /\ Placed'
  <2>1. Taken(o, "process", req[t])
    BY <1>2, <1>5 DEF DecideRequest
  <2>2. job' \in [Workers -> Jobs] /\ Placed'
    BY <2>1, RunType, PlacedStep
  <2> QED
    BY <2>2, <1>5 DEF DecideRequest, TypeOK, rows, locks
<1>6. CASE ReviewRequest(w, t)
  <2>1. Taken("review_request", "save_request", req[t])
    BY <1>2, <1>6 DEF ReviewRequest, Run
  <2>2. job' \in [Workers -> Jobs] /\ Placed'
    BY <2>1, RunType, PlacedStep
  <2> QED
    BY <2>2, <1>6 DEF ReviewRequest, TypeOK, rows, locks
<1>7. CASE EditRequest(w, t)
  <2>1. PICK e \in Edits[t] :
          Run(w, "edit_request", t, "save_request",
              [status |-> req[t].status, amount |-> e.amount, pool |-> e.pool])
    BY <1>7 DEF EditRequest
  <2> DEFINE r == [status |-> req[t].status, amount |-> e.amount, pool |-> e.pool]
  <2>3. r \in Rows
    BY <1>2, LockingAssumption DEF Rows
  <2> HIDE DEF r
  <2>4. Taken("edit_request", "save_request", r)
    BY <2>1, <2>3 DEF Run, r
  <2>2. job' \in [Workers -> Jobs] /\ Placed'
    BY <2>4, RunType, PlacedStep
  <2> QED
    BY <2>2, <1>7 DEF EditRequest, TypeOK, rows, locks
<1> QED
  BY <1>1, <1>3, <1>4, <1>5, <1>6, <1>7

\* Every step of a handler keeps the types.
LEMMA StepType ==
  ASSUME TypeOK, Placed, NEW w \in Workers, Step(w)
  PROVE  TypeOK' /\ Placed'
<1> DEFINE t == job[w].on
<1>1. CASE Rollback(w)
  BY <1>1, RollbackType, PlacedStep DEF Rollback
<1>2. ASSUME NEW p \in Points, Goto(w, p), ~At(w, "idle")
      PROVE  job' \in [Workers -> Jobs] /\ Placed'
  BY <1>2, GotoType, PlacedStep
<1>3. ASSUME Finish(w)
      PROVE  job' \in [Workers -> Jobs] /\ Placed'
  BY <1>3, FinishType, PlacedStep
<1>4. ~At(w, "idle")
  BY DEF Step, SaveTask, ReadRequest, SaveRequest, ProcessApproval, LockRequest, ReadPool,
         LockPool, Deduct, CancelRequest, RefundAndCancel, RefundPool, ReopenRequest, At
<1>5. /\ t \in Tasks
      /\ job[w].row \in Rows
      /\ job[w].row.pool \in Pools
      /\ job[w].row.amount \in Int
      /\ job[w].pool \in Int
  BY <1>4, JobFacts DEF Placed
<1>6. ASSUME NEW p \in Points, Read(w, p)
      PROVE  job' \in [Workers -> Jobs] /\ Placed'
  BY <1>4, <1>5, <1>6, ReadType, PlacedStep
<1>7. ASSUME NEW s \in Statuses, NEW r \in Rows
      PROVE  [r EXCEPT !.status = s] \in Rows
  BY DEF Rows
<1>8. ASSUME NEW r \in Rows
      PROVE  [req EXCEPT ![t] = r] \in [Tasks -> Rows]
  BY DEF TypeOK
<1>9. ASSUME NEW s \in Statuses
      PROVE  [req EXCEPT ![t].status = s] \in [Tasks -> Rows]
  <2>1. req[t] \in Rows /\ req \in [Tasks -> Rows]
    BY <1>5 DEF TypeOK
  <2>2. [req[t] EXCEPT !.status = s] \in Rows
    BY <1>7, <2>1
  <2> QED
    BY <1>5, <2>1, <2>2
<1>10. /\ [net EXCEPT ![t] = More(@)] \in [Tasks -> Counts]
       /\ [net EXCEPT ![t] = Less(@)] \in [Tasks -> Counts]
  BY <1>5 DEF TypeOK, More, Less, Counts
<1>11. CASE SaveTask(w)
  <2>1. job' \in [Workers -> Jobs] /\ Placed'
    BY <1>2, <1>3, <1>4, <1>11 DEF SaveTask, Points
  <2>2. Target(job[w].op) \in Statuses
    BY DEF Target, Statuses
  <2> QED
    BY <2>1, <2>2, <1>11 DEF SaveTask, TypeOK, locks, history
<1>12. CASE ReadRequest(w)
  <2>1. job' \in [Workers -> Jobs] /\ Placed'
    BY <1>3, <1>6, <1>12 DEF ReadRequest, Points
  <2> QED
    BY <2>1, <1>12 DEF ReadRequest, TypeOK, rows, locks
<1>13. CASE SaveRequest(w)
  <2> DEFINE r == [job[w].row EXCEPT !.status = SavedStatus(w)]
  <2>1. job' \in [Workers -> Jobs] /\ Placed'
    BY <1>2, <1>3, <1>4, <1>13 DEF SaveRequest, Points
  <2>2. SavedStatus(w) \in Statuses
    BY JobFacts DEF SavedStatus, Statuses
  <2>3. r \in Rows /\ r.pool \in Pools
    BY <1>5, <1>7, <2>2 DEF Rows
  <2> HIDE DEF r
  <2>4. req[t].pool \in Pools
    BY <1>5 DEF TypeOK, Rows
  <2>5. req' = [req EXCEPT ![t] = r] /\ spoilt' = spoilt \cup Misbooked(t, r)
    BY <1>13 DEF SaveRequest, r
  <2>6. req' \in [Tasks -> Rows] /\ spoilt' \subseteq Pools
    BY <1>8, <2>3, <2>4, <2>5 DEF Misbooked, TypeOK
  <2> QED
    BY <2>1, <2>6, <1>13 DEF SaveRequest, TypeOK, locks
<1>14. CASE ProcessApproval(w)
  <2>1. job' \in [Workers -> Jobs] /\ Placed'
    BY <1>3, <1>14 DEF ProcessApproval
  <2>2. req' \in [Tasks -> Rows]
    BY <1>9, <1>14 DEF ProcessApproval, TypeOK, Statuses
  <2> QED
    BY <2>1, <2>2, <1>14 DEF ProcessApproval, TypeOK, locks, history
<1>15. CASE LockRequest(w)
  <2>1. CASE Read(w, "read_pool") /\ reqLock' = [reqLock EXCEPT ![t] = w]
             /\ UNCHANGED <<rows, poolLock>>
    <3>1. job' \in [Workers -> Jobs] /\ Placed'
      BY <1>6, <2>1 DEF Points
    <3> QED
      BY <3>1, <2>1 DEF TypeOK, rows
  <2> QED
    BY <1>1, <1>15, <2>1 DEF LockRequest
<1>16. CASE ReadPool(w)
  <2>1. job' \in [Workers -> Jobs]
    <3> DEFINE p == IF job[w].op = "lock" THEN "lock_pool" ELSE "refund"
               u == used[job[w].row.pool]
    <3>1. p \in Points /\ u \in Int
      BY <1>5 DEF Points, TypeOK
    <3>2. job' = [job EXCEPT ![w] = [job[w] EXCEPT !.pool = u, !.pc = p]]
      BY <1>16 DEF ReadPool, TypeOK
    <3> HIDE DEF p, u
    <3>3. [job[w] EXCEPT !.pool = u, !.pc = p] \in Jobs
      BY <3>1, JobFacts DEF TypeOK, Jobs
    <3> QED
      BY <3>2, <3>3 DEF TypeOK
  <2> QED
    BY <2>1, <1>16, PlacedStep DEF ReadPool, TypeOK, rows, locks
<1>17. CASE LockPool(w)
  <2>1. CASE Goto(w, "deduct") /\ poolLock' = [poolLock EXCEPT ![job[w].row.pool] = w]
             /\ UNCHANGED <<rows, reqLock>>
    <3>1. job' \in [Workers -> Jobs] /\ Placed'
      BY <1>2, <1>4, <2>1 DEF Points
    <3> QED
      BY <3>1, <2>1 DEF TypeOK, rows
  <2> QED
    BY <1>1, <1>17, <2>1 DEF LockPool
<1>18. CASE Deduct(w)
  <2>1. job' \in [Workers -> Jobs] /\ Placed'
    BY <1>3, <1>18 DEF Deduct
  <2>2. used' \in [Pools -> Int]
    BY <1>5, <1>18 DEF Deduct, TypeOK
  <2>3. req' \in [Tasks -> Rows]
    BY <1>5, <1>7, <1>8, <1>18 DEF Deduct, Statuses
  <2> QED
    BY <2>1, <2>2, <2>3, <1>10, <1>18, ReleaseType DEF Deduct, TypeOK
<1>19. CASE CancelRequest(w)
  <2>1. job' \in [Workers -> Jobs] /\ Placed'
    BY <1>3, <1>6, <1>19 DEF CancelRequest, Points
  <2>2. reqLock' \in [Tasks -> Workers \cup {Nobody}]
    BY <1>19 DEF CancelRequest, TypeOK, locks
  <2>3. req' \in [Tasks -> Rows]
    BY <1>9, <1>19 DEF CancelRequest, TypeOK, rows, Statuses
  <2> QED
    BY <2>1, <2>2, <2>3, <1>19 DEF CancelRequest, TypeOK, rows, locks, history
<1>20. Refunded(w) \in Int
  BY <1>5 DEF Refunded
<1>21. CASE RefundAndCancel(w)
  <2>1. job' \in [Workers -> Jobs] /\ Placed'
    BY <1>3, <1>21 DEF RefundAndCancel
  <2>2. used' \in [Pools -> Int]
    BY <1>20, <1>21 DEF RefundAndCancel, TypeOK
  <2>3. req' \in [Tasks -> Rows]
    BY <1>5, <1>7, <1>8, <1>21 DEF RefundAndCancel, Statuses
  <2> QED
    BY <2>1, <2>2, <2>3, <1>10, <1>21, ReleaseType DEF RefundAndCancel, TypeOK
<1>22. CASE RefundPool(w)
  <2>1. job' \in [Workers -> Jobs] /\ Placed'
    BY <1>2, <1>4, <1>22 DEF RefundPool, Points
  <2>2. used' \in [Pools -> Int]
    BY <1>20, <1>22 DEF RefundPool, TypeOK
  <2> QED
    BY <2>1, <2>2, <1>10, <1>22 DEF RefundPool, TypeOK, locks
<1>23. CASE ReopenRequest(w)
  <2>1. job' \in [Workers -> Jobs] /\ Placed'
    BY <1>3, <1>23 DEF ReopenRequest
  <2>2. req' \in [Tasks -> Rows]
    BY <1>9, <1>23 DEF ReopenRequest, Statuses
  <2> QED
    BY <2>1, <2>2, <1>23 DEF ReopenRequest, TypeOK, locks
<1> QED
  BY <1>11, <1>12, <1>13, <1>14, <1>15, <1>16, <1>17, <1>18, <1>19, <1>21, <1>22, <1>23 DEF Step

\* A worker that dies leaves rows and locks that exist.
LEMMA CrashType ==
  ASSUME TypeOK, Placed, NEW w \in Workers, Crash(w)
  PROVE  TypeOK' /\ Placed'
<1>1. job' \in [Workers -> Jobs] /\ Placed'
  BY FinishType, PlacedStep DEF Crash
<1>2. job[w].on \in Tasks /\ req[job[w].on].pool \in Pools
  BY DEF Crash, Placed, TypeOK, Rows
<1>3. torn' \subseteq Tasks /\ spoilt' \subseteq Pools
  BY <1>2 DEF Crash, TypeOK
<1>4. QED
  BY <1>1, <1>3, ReleaseType DEF Crash, TypeOK

\* In every state of the system each row has a status, each lock a holder that
\* exists, and each busy worker a task to act on.
THEOREM TypeCorrect == Spec => [](TypeOK /\ Placed)
<1>1. Init => TypeOK /\ Placed
  <2> SUFFICES ASSUME Init PROVE TypeOK /\ Placed
    OBVIOUS
  <2>1. job \in [Workers -> Jobs] /\ Placed
    BY IdleJob DEF Init, Placed, At, Idle
  <2>2. req \in [Tasks -> Rows]
    BY LockingAssumption DEF Init, Rows
  <2> QED
    BY <2>1, <2>2, LockingAssumption DEF Init, TypeOK, Counts
<1>2. TypeOK /\ Placed /\ [Next]_vars => TypeOK' /\ Placed'
  <2> SUFFICES ASSUME TypeOK, Placed, [Next]_vars
               PROVE  TypeOK' /\ Placed'
    OBVIOUS
  <2>1. CASE UNCHANGED vars
    BY <2>1 DEF vars, TypeOK, Placed, At
  <2> QED
    BY <2>1, CallType, StepType, CrashType DEF Next
<1> QED
  BY <1>1, <1>2, PTL DEF Spec

-------------------------------------------------------------------------------

\* A step of worker w that leaves the request rows and their locks alone, or
\* frees only what w holds, disturbs no other worker's claim on its row.
LEMMA OthersUndisturbed ==
  ASSUME TypeOK, Placed, RowLockInv, NEW w \in Workers,
         \A v \in Workers \ {w} : job'[v] = job[v],
         \A t \in Tasks : reqLock[t] \notin {w, Nobody} =>
                           reqLock'[t] = reqLock[t] /\ req'[t] = req[t],
         NEW v \in Workers \ {w}
  PROVE  HoldsRow(v)' /\ OnPath(v)'
<1>1. job[v].pc \in {"read_pool", "lock_pool", "deduct", "refund"} => job[v].on \in Tasks
  BY DEF Placed, At
<1> QED
  BY <1>1, LockingAssumption DEF RowLockInv, HoldsRow, OnPath

\* A step that moves worker w on leaves the jobs of the others alone,
LEMMA GotoFrame ==
  ASSUME TypeOK, NEW w \in Workers, NEW p \in Points, Goto(w, p)
  PROVE  /\ \A v \in Workers \ {w} : job'[v] = job[v]
         /\ job'[w].pc = p /\ job'[w].on = job[w].on /\ job'[w].op = job[w].op
         /\ job'[w].row = job[w].row /\ job'[w].pool = job[w].pool
  BY DEF TypeOK, Jobs, Goto

\* ... as one that ends its handler does,
LEMMA FinishFrame ==
  ASSUME TypeOK, NEW w \in Workers, Finish(w)
  PROVE  /\ \A v \in Workers \ {w} : job'[v] = job[v]
         /\ job'[w].pc = "idle"
  BY DEF TypeOK, Finish, Idle

\* ... and one that starts it.
LEMMA RunFrame ==
  ASSUME TypeOK, NEW w \in Workers, NEW o, NEW t, NEW p, NEW r, Run(w, o, t, p, r)
  PROVE  /\ o \in Ops
         /\ \A v \in Workers \ {w} : job'[v] = job[v]
         /\ job'[w].pc = p /\ job'[w].on = t /\ job'[w].op = o
         /\ job'[w].row = r
  BY DEF TypeOK, Run

\* Rolling back only frees what w holds, so nobody else is disturbed.
LEMMA RowLockRollback ==
  ASSUME TypeOK, Placed, RowLockInv, NEW w \in Workers, Release(w), Finish(w),
         UNCHANGED <<req, net>>
  PROVE  RowLockInv'
<1>1. /\ \A v \in Workers \ {w} : job'[v] = job[v]
      /\ job'[w].pc = "idle"
      /\ req' = req /\ net' = net
      /\ \A t \in Tasks : reqLock[t] # w => reqLock'[t] = reqLock[t]
  BY FinishFrame DEF Release, TypeOK
<1>2. HoldsRow(w)' /\ OnPath(w)'
  BY <1>1 DEF HoldsRow, OnPath
<1>3. \A v \in Workers \ {w} : HoldsRow(v)' /\ OnPath(v)'
  BY <1>1, OthersUndisturbed
<1> QED
  BY <1>1, <1>2, <1>3 DEF RowLockInv, ChargedOnce

\* What is left to show of a step of worker w, once it is known to leave the
\* other workers' jobs and the rows they hold alone.
LEMMA LocalStep ==
  ASSUME TypeOK, Placed, RowLockInv, NEW w \in Workers,
         \A v \in Workers \ {w} : job'[v] = job[v],
         \A t \in Tasks : reqLock[t] \notin {w, Nobody} =>
                           reqLock'[t] = reqLock[t] /\ req'[t] = req[t],
         HoldsRow(w)', OnPath(w)',
         \A t \in Tasks : /\ req'[t].status \notin {"DRAFT", "SUBMITTED"}
                          /\ net'[t] = IF req'[t].status = "LOCKED" THEN 1 ELSE 0
  PROVE  RowLockInv'
<1>1. \A v \in Workers \ {w} : HoldsRow(v)' /\ OnPath(v)'
  BY OthersUndisturbed
<1> QED
  BY <1>1 DEF RowLockInv, ChargedOnce

\* No call writes a request, so the claims of the others stand.
LEMMA RowLockCall ==
  ASSUME RowLockedOnly, TypeOK, Placed, RowLockInv, NEW w \in Workers, Call(w)
  PROVE  RowLockInv'
<1>1. PICK t \in Tasks : \/ \E o \in Ops : \/ ReadTask(w, o, t)
                                          \/ MakeApproval(w, o, t)
                                          \/ DecideRequest(w, o, t)
                         \/ ReviewRequest(w, t)
                         \/ EditRequest(w, t)
  BY DEF Call
<1>2. ASSUME NEW o \in Ops, ReadTask(w, o, t)
      PROVE  RowLockInv'
  <2>1. o \in {"review", "forward", "lock", "cancel"}
    BY <1>2 DEF ReadTask, RowLockedOnly
  <2>2. /\ \A v \in Workers \ {w} : job'[v] = job[v]
        /\ job'[w].pc = "save_task" /\ job'[w].op = o
    BY <1>2, RunFrame DEF ReadTask
  <2>3. HoldsRow(w)' /\ OnPath(w)'
    BY <2>1, <2>2 DEF HoldsRow, OnPath
  <2> QED
    BY <2>2, <2>3, <1>2, LocalStep DEF ReadTask, rows, locks, RowLockInv, ChargedOnce
<1>3. ASSUME NEW o \in Ops, MakeApproval(w, o, t)
      PROVE  RowLockInv'
  <2>1. /\ \A v \in Workers \ {w} : job'[v] = job[v]
        /\ job'[w].pc = "read_request" /\ job'[w].op = o
    BY <1>3, RunFrame DEF MakeApproval
  <2>2. HoldsRow(w)' /\ OnPath(w)'
    BY <2>1, <1>3 DEF HoldsRow, OnPath, MakeApproval
  <2> QED
    BY <2>1, <2>2, <1>3, LocalStep DEF MakeApproval, locks, history, RowLockInv, ChargedOnce
<1>4. ASSUME NEW o \in Ops, DecideRequest(w, o, t)
      PROVE  RowLockInv'
  <2>1. /\ \A v \in Workers \ {w} : job'[v] = job[v]
        /\ job'[w].pc = "process"
    BY <1>4, RunFrame DEF DecideRequest
  <2>2. HoldsRow(w)' /\ OnPath(w)'
    BY <2>1 DEF HoldsRow, OnPath
  <2> QED
    BY <2>1, <2>2, <1>4, LocalStep DEF DecideRequest, rows, locks, RowLockInv, ChargedOnce
<1>5. ~ReviewRequest(w, t) /\ ~EditRequest(w, t)
  BY DEF ReviewRequest, EditRequest, Run, RowLockedOnly
<1> QED
  BY <1>1, <1>2, <1>3, <1>4, <1>5

\* A step writes a request only under its row lock, or when it is free.
LEMMA RowLockStep ==
  ASSUME TypeOK, Placed, RowLockInv, NEW w \in Workers, Step(w)
  PROVE  RowLockInv'
<1> DEFINE t == job[w].on
<1>1. HoldsRow(w) /\ OnPath(w)
  BY DEF RowLockInv
<1>2. \A s \in Tasks : /\ req[s].status \notin {"DRAFT", "SUBMITTED"}
                       /\ net[s] = IF req[s].status = "LOCKED" THEN 1 ELSE 0
  BY DEF RowLockInv, ChargedOnce
<1>3. ~At(w, "idle") => t \in Tasks
  BY DEF Placed
<1>4. ASSUME \/ \E p \in {"read_request", "lock_request", "cancel_request"} : Goto(w, p)
             \/ Read(w, "process")
             \/ Finish(w)
      PROVE  /\ \A v \in Workers \ {w} : job'[v] = job[v]
             /\ HoldsRow(w)'
  BY <1>4, GotoFrame, ReadFrame, FinishFrame DEF HoldsRow, Points
<1>5. CASE SaveTask(w)
  <2>1. /\ \A v \in Workers \ {w} : job'[v] = job[v]
        /\ HoldsRow(w)'
    BY <1>1, <1>4, <1>5 DEF SaveTask, OnPath, At
  <2>2. OnPath(w)'
    BY <1>1, <1>5, GotoFrame, FinishFrame DEF SaveTask, OnPath, At, Points
  <2> QED
    BY <2>1, <2>2, <1>2, <1>5, LocalStep DEF SaveTask, locks, history
<1>6. CASE ReadRequest(w)
  <2>1. req[t].status # "SUBMITTED" /\ job[w].op \in {"approve", "reject"}
    BY <1>1, <1>2, <1>3, <1>6 DEF ReadRequest, At, OnPath
  <2>2. Read(w, "process") \/ Finish(w)
    BY <2>1, <1>6 DEF ReadRequest
  <2>3. /\ \A v \in Workers \ {w} : job'[v] = job[v]
        /\ HoldsRow(w)'
    BY <1>4, <2>2
  <2>4. OnPath(w)'
    BY <2>2, ReadFrame, FinishFrame DEF OnPath, Points
  <2> QED
    BY <2>3, <2>4, <1>2, <1>6, LocalStep DEF ReadRequest, rows, locks
<1>7. CASE ProcessApproval(w)
  <2>1. /\ \A v \in Workers \ {w} : job'[v] = job[v]
        /\ HoldsRow(w)' /\ OnPath(w)'
    BY <1>7, FinishFrame DEF ProcessApproval, HoldsRow, OnPath
  <2>2. t \in Tasks /\ reqLock[t] \in {w, Nobody}
    BY <1>3, <1>7 DEF ProcessApproval, RequestFree, At
  <2>3. \A s \in Tasks : /\ req'[s].status \notin {"DRAFT", "SUBMITTED"}
                         /\ req'[s].status = "LOCKED" <=> req[s].status = "LOCKED"
                         /\ s # t => req'[s] = req[s]
    BY <1>2, <2>2, <1>7 DEF ProcessApproval, TypeOK, Rows
  <2> QED
    BY <2>1, <2>2, <2>3, <1>2, <1>7, LocalStep DEF ProcessApproval, locks, history
<1>8. CASE LockRequest(w)
  <2>1. CASE Rollback(w)
    BY <2>1, RowLockRollback DEF Rollback, rows
  <2>2. CASE ~Rollback(w)
    <3>1. /\ reqLock[t] = Nobody /\ req[t].status = "APPROVED" /\ t \in Tasks
          /\ reqLock' = [reqLock EXCEPT ![t] = w]
          /\ Read(w, "read_pool")
          /\ UNCHANGED rows
      BY <2>2, <1>3, <1>8 DEF LockRequest, At
    <3>2. /\ \A v \in Workers \ {w} : job'[v] = job[v]
          /\ job'[w].pc = "read_pool" /\ job'[w].on = t /\ job'[w].op = "lock"
      BY <1>1, <1>8, <3>1, ReadFrame DEF LockRequest, At, OnPath, Points
    <3>3. HoldsRow(w)' /\ OnPath(w)'
      BY <3>1, <3>2 DEF HoldsRow, OnPath, rows, TypeOK
    <3>4. \A s \in Tasks : reqLock[s] \notin {w, Nobody} => reqLock'[s] = reqLock[s]
      BY <3>1 DEF TypeOK
    <3> QED
      BY <3>1, <3>2, <3>3, <3>4, <1>2, LocalStep DEF rows
  <2> QED
    BY <2>1, <2>2
<1>9. CASE ReadPool(w)
  <2>1. /\ \A v \in Workers \ {w} : job'[v] = job[v]
        /\ job'[w].on = t /\ job'[w].op = job[w].op
        /\ job'[w].pc = IF job[w].op = "lock" THEN "lock_pool" ELSE "refund"
    BY <1>9 DEF ReadPool, TypeOK, Jobs
  <2>2. HoldsRow(w)' /\ OnPath(w)'
    BY <2>1, <1>1, <1>9 DEF HoldsRow, OnPath, ReadPool, At, rows, locks
  <2> QED
    BY <2>1, <2>2, <1>2, <1>9, LocalStep DEF ReadPool, rows, locks
<1>10. CASE LockPool(w)
  <2>1. CASE Rollback(w)
    BY <2>1, RowLockRollback DEF Rollback, rows
  <2>2. CASE ~Rollback(w)
    <3>1. Goto(w, "deduct") /\ UNCHANGED <<rows, reqLock>>
      BY <2>2, <1>10 DEF LockPool
    <3>2. /\ \A v \in Workers \ {w} : job'[v] = job[v]
          /\ job'[w].pc = "deduct" /\ job'[w].on = t /\ job'[w].op = job[w].op
      BY <3>1, GotoFrame DEF Points
    <3>3. HoldsRow(w)' /\ OnPath(w)'
      BY <3>1, <3>2, <1>1, <1>10 DEF HoldsRow, OnPath, LockPool, At, rows
    <3> QED
      BY <3>1, <3>2, <3>3, <1>2, LocalStep DEF rows
  <2> QED
    BY <2>1, <2>2
<1>11. CASE Deduct(w)
  <2>1. t \in Tasks /\ reqLock[t] = w /\ req[t].status = "APPROVED"
    BY <1>1, <1>3, <1>11 DEF Deduct, At, HoldsRow
  <2>2. /\ \A v \in Workers \ {w} : job'[v] = job[v]
        /\ HoldsRow(w)' /\ OnPath(w)'
    BY <1>11, FinishFrame DEF Deduct, HoldsRow, OnPath
  <2>3. \A s \in Tasks : reqLock[s] \notin {w, Nobody} =>
                            reqLock'[s] = reqLock[s] /\ req'[s] = req[s]
    BY <2>1, <1>11 DEF Deduct, Release, TypeOK
  <2>4. \A s \in Tasks : /\ req'[s].status \notin {"DRAFT", "SUBMITTED"}
                         /\ net'[s] = IF req'[s].status = "LOCKED" THEN 1 ELSE 0
    <3>1. req' = [req EXCEPT ![t] = [job[w].row EXCEPT !.status = "LOCKED"]]
      BY <1>11 DEF Deduct
    <3>2. req'[t].status = "LOCKED" /\ \A s \in Tasks \ {t} : req'[s] = req[s]
      BY <2>1, <3>1, JobFacts DEF TypeOK, Rows
    <3>3. net'[t] = 1 /\ \A s \in Tasks \ {t} : net'[s] = net[s]
      BY <2>1, <1>2, <1>11 DEF Deduct, TypeOK, More
    <3> QED
      BY <3>2, <3>3, <1>2
  <2> QED
    BY <2>2, <2>3, <2>4, LocalStep
<1>12. CASE CancelRequest(w)
  <2>1. t \in Tasks /\ reqLock[t] = Nobody /\ job[w].op = "cancel"
    BY <1>1, <1>3, <1>12 DEF CancelRequest, At, OnPath
  <2>2. CASE req[t].status = "LOCKED"
    <3>1. /\ reqLock' = [reqLock EXCEPT ![t] = w]
          /\ Read(w, "read_pool")
          /\ UNCHANGED rows
      BY <2>2, <1>12 DEF CancelRequest
    <3>2. /\ \A v \in Workers \ {w} : job'[v] = job[v]
          /\ job'[w].pc = "read_pool" /\ job'[w].on = t /\ job'[w].op = "cancel"
      BY <2>1, <3>1, ReadFrame DEF Points
    <3>3. HoldsRow(w)' /\ OnPath(w)'
      BY <2>1, <2>2, <3>1, <3>2 DEF HoldsRow, OnPath, rows, TypeOK
    <3>4. \A s \in Tasks : reqLock[s] \notin {w, Nobody} => reqLock'[s] = reqLock[s]
      BY <2>1, <3>1 DEF TypeOK
    <3> QED
      BY <3>1, <3>2, <3>3, <3>4, <1>2, LocalStep DEF rows
  <2>3. CASE req[t].status # "LOCKED"
    <3>1. /\ req' = [req EXCEPT ![t].status = "CANCELLED"]
          /\ Finish(w)
          /\ UNCHANGED <<net, reqLock>>
      BY <2>3, <1>12 DEF CancelRequest, locks, history
    <3>2. /\ \A v \in Workers \ {w} : job'[v] = job[v]
          /\ HoldsRow(w)' /\ OnPath(w)'
      BY <3>1, FinishFrame DEF HoldsRow, OnPath
    <3>3. \A s \in Tasks : reqLock[s] \notin {w, Nobody} =>
                              reqLock'[s] = reqLock[s] /\ req'[s] = req[s]
      BY <2>1, <3>1 DEF TypeOK
    <3>4. \A s \in Tasks : /\ req'[s].status \notin {"DRAFT", "SUBMITTED"}
                           /\ net'[s] = IF req'[s].status = "LOCKED" THEN 1 ELSE 0
      BY <2>1, <2>3, <3>1, <1>2 DEF TypeOK, Rows
    <3> QED
      BY <3>2, <3>3, <3>4, LocalStep
  <2> QED
    BY <2>2, <2>3
<1>13. CASE RefundAndCancel(w)
  <2>1. t \in Tasks /\ reqLock[t] = w /\ req[t].status = "LOCKED"
    BY <1>1, <1>3, <1>13 DEF RefundAndCancel, At, HoldsRow
  <2>2. /\ \A v \in Workers \ {w} : job'[v] = job[v]
        /\ HoldsRow(w)' /\ OnPath(w)'
    BY <1>13, FinishFrame DEF RefundAndCancel, HoldsRow, OnPath
  <2>3. \A s \in Tasks : reqLock[s] \notin {w, Nobody} =>
                            reqLock'[s] = reqLock[s] /\ req'[s] = req[s]
    BY <2>1, <1>13 DEF RefundAndCancel, Release, TypeOK
  <2>4. \A s \in Tasks : /\ req'[s].status \notin {"DRAFT", "SUBMITTED"}
                         /\ net'[s] = IF req'[s].status = "LOCKED" THEN 1 ELSE 0
    <3>1. req' = [req EXCEPT ![t] = [job[w].row EXCEPT !.status = "CANCELLED"]]
      BY <1>13 DEF RefundAndCancel
    <3>2. req'[t].status = "CANCELLED" /\ \A s \in Tasks \ {t} : req'[s] = req[s]
      BY <2>1, <3>1, JobFacts DEF TypeOK, Rows
    <3>3. net'[t] = 0 /\ \A s \in Tasks \ {t} : net'[s] = net[s]
      BY <2>1, <1>2, <1>13 DEF RefundAndCancel, TypeOK, Less
    <3> QED
      BY <3>2, <3>3, <1>2
  <2> QED
    BY <2>2, <2>3, <2>4, LocalStep
<1>14. ~SaveRequest(w) /\ ~RefundPool(w) /\ ~ReopenRequest(w)
  BY <1>1 DEF SaveRequest, RefundPool, ReopenRequest, At, OnPath, HoldsRow
<1> QED
  BY <1>5, <1>6, <1>7, <1>8, <1>9, <1>10, <1>11, <1>12, <1>13, <1>14 DEF Step

\* When every handler that writes a request decides under its row lock, then
\* whatever the interleaving, and whichever workers die half way, a deduction
\* is in force exactly for the LOCKED requests: none is deducted twice, none
\* refunded twice.
THEOREM DeductedOnce == RowLockedOnly => (Spec => []ChargedOnce)
<1> SUFFICES ASSUME RowLockedOnly PROVE Spec => []ChargedOnce
  OBVIOUS
<1>1. Init => RowLockInv
  BY DEF Init, RowLockInv, RowLockedOnly, HoldsRow, OnPath, ChargedOnce, Idle
<1>2. TypeOK /\ Placed /\ RowLockInv /\ [Next]_vars => RowLockInv'
  <2> SUFFICES ASSUME TypeOK, Placed, RowLockInv, [Next]_vars
               PROVE  RowLockInv'
    OBVIOUS
  <2>1. CASE UNCHANGED vars
    BY <2>1 DEF vars, RowLockInv, HoldsRow, OnPath, ChargedOnce
  <2>2. ASSUME NEW w \in Workers, Crash(w)
        PROVE  RowLockInv'
    BY <2>2, RowLockRollback DEF Crash
  <2> QED
    BY <2>1, <2>2, RowLockCall, RowLockStep DEF Next
<1>3. RowLockInv => ChargedOnce
  BY DEF RowLockInv
<1> QED
  BY <1>1, <1>2, <1>3, TypeCorrect, PTL DEF Spec

-------------------------------------------------------------------------------
(* What a set of requests costs.  The library's induction theorems are     *)
(* stated for a predicate; here a set of naturals stands for it.           *)

\* Induction over the naturals, for a set in place of a predicate.
LEMMA NatSetInduction ==
  ASSUME NEW S \in SUBSET Nat, 0 \in S, \A n \in S : n + 1 \in S
  PROVE  S = Nat
<1> DEFINE R == {ss \in Nat \X Nat : ss[1] < ss[2]}
           T == Nat \ S
<1>1. IsWellFoundedOn(R, Nat)
  BY NatLessThanWellFounded DEF OpToRel
<1>2. SUFFICES ASSUME T # {} PROVE FALSE
  OBVIOUS
<1>3. T \subseteq Nat
  OBVIOUS
<1> HIDE DEF R, T
<1>4. PICK x \in T : \A y \in T : ~(<<y, x>> \in R)
  BY <1>1, <1>2, <1>3, WFMin
<1>5. x \in Nat /\ x # 0 /\ x - 1 \in Nat
  BY DEF T
<1>6. x - 1 \in S
  <2>1. <<x - 1, x>> \in R
    BY <1>5 DEF R
  <2>2. QED
    BY <2>1, <1>4, <1>5 DEF T
<1>7. QED
  BY <1>5, <1>6 DEF T

\* Induction over the subsets of a finite set, by taking out an element.
LEMMA SubsetInduction ==
  ASSUME NEW S, IsFiniteSet(S), NEW C \in SUBSET (SUBSET S),
         \A s \in SUBSET S : (\A x \in s : s \ {x} \in C) => s \in C
  PROVE  C = SUBSET S
<1> DEFINE N == {n \in Nat : \A s \in SUBSET S : Cardinality(s) < n => s \in C}
<1>1. \A s \in SUBSET S : /\ IsFiniteSet(s) /\ Cardinality(s) \in Nat
                          /\ \A x \in s : Cardinality(s \ {x}) = Cardinality(s) - 1
  BY FS_Subset, FS_CardinalityType, FS_RemoveElement
<1>2. 0 \in N
  BY <1>1
<1>3. ASSUME NEW n \in N PROVE n + 1 \in N
  <2>1. ASSUME NEW s \in SUBSET S, Cardinality(s) < n + 1
        PROVE  s \in C
    <3>1. \A x \in s : s \ {x} \in SUBSET S /\ Cardinality(s \ {x}) < n
      BY <2>1, <1>1
    <3>2. QED
      BY <3>1
  <2>2. n + 1 \in Nat
    OBVIOUS
  <2>3. QED
    BY <2>1, <2>2
<1>4. N = Nat
  <2>1. N \in SUBSET Nat
    OBVIOUS
  <2> HIDE DEF N
  <2>2. QED
    BY <1>2, <1>3, <2>1, NatSetInduction
<1>5. ASSUME NEW s \in SUBSET S
      PROVE  s \in C
  <2>1. Cardinality(s) + 1 \in N /\ Cardinality(s) < Cardinality(s) + 1
    BY <1>1, <1>4
  <2>2. QED
    BY <2>1
<1>6. QED
  BY <1>5

\* The element a fold over s takes out first.
Some(s) == CHOOSE x \in s : TRUE

\* The sum of f over a set.
SumOf(f, S) == Ledger!SumFunctionOnSet(f, S)

\* What SumOf says of the sums g of f over the subsets of a set, at s.
CostStep(f, g, s) == IF s = {} THEN 0 ELSE f[Some(s)] + g[s \ {Some(s)}]

Costs(f, S, g) == g = [s \in SUBSET S |-> CostStep(f, g, s)]

\* The recursion behind SumOf has a solution on a finite set.
LEMMA CostsExist ==
  ASSUME NEW f, NEW S, IsFiniteSet(S)
  PROVE  \E g : Costs(f, S, g)
<1> DEFINE Upto(g, n) ==
             /\ g = [s \in SUBSET S |-> g[s]]
             /\ \A s \in SUBSET S : Cardinality(s) < n => g[s] = CostStep(f, g, s)
           N == {n \in Nat : \E g : Upto(g, n)}
<1>1. \A s \in SUBSET S : /\ IsFiniteSet(s) /\ Cardinality(s) \in Nat
                          /\ Cardinality(s) <= Cardinality(S)
  BY FS_Subset, FS_CardinalityType
<1>2. 0 \in N
  <2> DEFINE g == [s \in SUBSET S |-> 0]
  <2>1. Upto(g, 0)
    BY <1>1
  <2>2. QED
    BY <2>1
<1>3. ASSUME NEW n \in N PROVE n + 1 \in N
  <2>1. PICK g : Upto(g, n)
    OBVIOUS
  <2> DEFINE h == [s \in SUBSET S |-> CostStep(f, g, s)]
  <2>2. ASSUME NEW s \in SUBSET S, Cardinality(s) < n + 1
        PROVE  h[s] = CostStep(f, h, s)
    <3>1. CASE s = {}
      BY <3>1 DEF CostStep
    <3>2. CASE s # {}
      <4>1. Some(s) \in s
        BY <3>2 DEF Some
      <4>2. s \ {Some(s)} \in SUBSET S /\ Cardinality(s \ {Some(s)}) < n
        BY <4>1, <2>2, <1>1, FS_RemoveElement
      <4>3. g[s \ {Some(s)}] = h[s \ {Some(s)}]
        BY <4>2, <2>1
      <4>4. QED
        BY <3>2, <4>3 DEF CostStep
    <3>3. QED
      BY <3>1, <3>2
  <2>3. Upto(h, n + 1)
    BY <2>2
  <2>4. n + 1 \in Nat
    OBVIOUS
  <2> HIDE DEF Upto, h
  <2>5. QED
    BY <2>3, <2>4
<1> HIDE DEF Upto
<1>4. N = Nat
  <2>1. N \in SUBSET Nat
    OBVIOUS
  <2> HIDE DEF N
  <2>2. QED
    BY <1>2, <1>3, <2>1, NatSetInduction
<1>5. PICK g : Upto(g, Cardinality(S) + 1)
  BY <1>1, <1>4
<1>6. \A s \in SUBSET S : g[s] = CostStep(f, g, s)
  <2>1. Cardinality(S) \in Nat
    BY <1>1
  <2>2. \A s \in SUBSET S : Cardinality(s) < Cardinality(S) + 1
    BY <1>1, <2>1
  <2>3. QED
    BY <1>5, <2>2 DEF Upto
<1>7. g = [s \in SUBSET S |-> g[s]]
  BY <1>5 DEF Upto
<1>8. Costs(f, S, g)
  BY <1>6, <1>7 DEF Costs
<1>9. QED
  BY <1>8

\* SumOf is such a solution.
LEMMA CostUnfold ==
  ASSUME NEW f, NEW S, IsFiniteSet(S)
  PROVE  \E g : Costs(f, S, g) /\ SumOf(f, S) = g[S]
<1> DEFINE g == CHOOSE g : Costs(f, S, g)
<1>1. Costs(f, S, g)
  BY CostsExist
<1>2. SumOf(f, S) = g[S]
  BY DEF SumOf, Ledger!SumFunctionOnSet, Ledger!FoldFunctionOnSet,
         Ledger!MapThenFoldSet, CostStep, Some, Costs
<1>3. QED
  BY <1>1, <1>2

\* Two solutions agree where both are defined.
LEMMA CostsAgree ==
  ASSUME NEW f, NEW S, IsFiniteSet(S), NEW T \in SUBSET S, NEW g, NEW h, Costs(f, S, g), Costs(f, T, h)
  PROVE  g[T] = h[T]
<1> DEFINE C == {s \in SUBSET T : g[s] = h[s]}
<1>1. ASSUME NEW s \in SUBSET T, \A x \in s : s \ {x} \in C
      PROVE  s \in C
  <2>1. g[s] = CostStep(f, g, s) /\ h[s] = CostStep(f, h, s)
    <3>1. s \in SUBSET S
      OBVIOUS
    <3>2. QED
      BY <3>1 DEF Costs
  <2>2. CASE s = {}
    BY <2>1, <2>2 DEF CostStep
  <2>3. CASE s # {}
    <3>1. g[s \ {Some(s)}] = h[s \ {Some(s)}]
      BY <2>3, <1>1 DEF Some
    <3>2. QED
      BY <2>1, <2>3, <3>1 DEF CostStep
  <2>4. QED
    BY <2>2, <2>3
<1>2. C \in SUBSET (SUBSET T) /\ IsFiniteSet(T)
  BY FS_Subset
<1> HIDE DEF C
<1>3. C = SUBSET T
  BY <1>1, <1>2, SubsetInduction
<1>4. QED
  BY <1>3 DEF C

\* One step of the recursion, for SumOf itself.
LEMMA CostNext ==
  ASSUME NEW f, NEW S, IsFiniteSet(S)
  PROVE  SumOf(f, S) = IF S = {} THEN 0 ELSE f[Some(S)] + SumOf(f, S \ {Some(S)})
<1>1. PICK g : Costs(f, S, g) /\ SumOf(f, S) = g[S]
  BY CostUnfold
<1>2. g[S] = CostStep(f, g, S)
  BY <1>1 DEF Costs
<1>3. CASE S # {}
  <2> DEFINE T == S \ {Some(S)}
  <2>1. IsFiniteSet(T) /\ T \in SUBSET S
    BY FS_Subset
  <2>2. PICK h : Costs(f, T, h) /\ SumOf(f, T) = h[T]
    BY <2>1, CostUnfold
  <2>3. g[T] = h[T]
    BY <1>1, <2>1, <2>2, CostsAgree
  <2>4. QED
    BY <1>1, <1>2, <1>3, <2>2, <2>3 DEF CostStep
<1>4. QED
  BY <1>1, <1>2, <1>3 DEF CostStep

\* A sum of natural numbers is one, and each of them contributes itself.
LEMMA CostRemove ==
  ASSUME NEW f \in [Tasks -> Nat], NEW S \in SUBSET Tasks
  PROVE  /\ SumOf(f, S) \in Nat
         /\ \A t \in S : SumOf(f, S) = f[t] + SumOf(f, S \ {t})
<1> DEFINE Fine(s) == /\ \A u \in SUBSET s : SumOf(f, u) \in Nat
                      /\ \A t \in s : SumOf(f, s) = f[t] + SumOf(f, s \ {t})
           C == {s \in SUBSET Tasks : Fine(s)}
<1>1. \A t \in Tasks : f[t] \in Nat
  OBVIOUS
<1>2. IsFiniteSet(Tasks)
  BY LockingAssumption
<1>3. ASSUME NEW s \in SUBSET Tasks, \A t \in s : s \ {t} \in C
      PROVE  s \in C
  <2>1. SumOf(f, s) = IF s = {} THEN 0 ELSE f[Some(s)] + SumOf(f, s \ {Some(s)})
    BY <1>2, CostNext, FS_Subset
  <2>2. CASE s = {}
    BY <2>1, <2>2
  <2>3. CASE s # {}
    <3> DEFINE c == Some(s)
    <3>1. c \in s
      BY <2>3 DEF Some
    <3> HIDE DEF c
    <3>2. \A t \in s : Fine(s \ {t})
      BY <1>3
    <3>3. SumOf(f, s) = f[c] + SumOf(f, s \ {c})
      BY <2>1, <2>3 DEF c
    <3>4. SumOf(f, s) \in Nat
      BY <1>1, <3>1, <3>2, <3>3
    <3>5. ASSUME NEW t \in s, t # c
          PROVE  SumOf(f, s) = f[t] + SumOf(f, s \ {t})
      <4> DEFINE r == (s \ {c}) \ {t}
      <4>1. SumOf(f, s \ {c}) = f[t] + SumOf(f, r)
        BY <3>1, <3>2, <3>5
      <4>2. (s \ {t}) \ {c} = r
        OBVIOUS
      <4>3. SumOf(f, s \ {t}) = f[c] + SumOf(f, r)
        <5>1. c \in s \ {t}
          BY <3>1, <3>5
        <5>2. SumOf(f, s \ {t}) = f[c] + SumOf(f, (s \ {t}) \ {c})
          BY <3>2, <5>1
        <5>3. QED
          BY <4>2, <5>2
      <4>4. f[t] \in Nat /\ f[c] \in Nat
        BY <1>1, <3>1
      <4>5. SumOf(f, r) \in Nat
        BY <3>1, <3>2
      <4>6. QED
        BY <3>3, <4>1, <4>3, <4>4, <4>5
    <3>6. ASSUME NEW u \in SUBSET s, u # s
          PROVE  SumOf(f, u) \in Nat
      <4>1. PICK t \in s : u \in SUBSET (s \ {t})
        BY <3>6
      <4>2. QED
        BY <4>1, <3>2
    <3>7. QED
      BY <3>3, <3>4, <3>5, <3>6
  <2>4. QED
    BY <2>2, <2>3
<1>4. C \in SUBSET (SUBSET Tasks)
  OBVIOUS
<1> HIDE DEF C
<1>5. C = SUBSET Tasks
  BY <1>2, <1>3, <1>4, SubsetInduction
<1>6. QED
  BY <1>5 DEF C

\* A sum depends on f only where it is taken.
LEMMA SumsAgree ==
  ASSUME NEW f \in [Tasks -> Nat], NEW g \in [Tasks -> Nat], NEW S \in SUBSET Tasks,
         \A t \in S : f[t] = g[t]
  PROVE  SumOf(f, S) = SumOf(g, S)
<1> DEFINE C == {s \in SUBSET S : SumOf(f, s) = SumOf(g, s)}
<1>1. IsFiniteSet(S)
  BY LockingAssumption, FS_Subset
<1>2. ASSUME NEW s \in SUBSET S, \A x \in s : s \ {x} \in C
      PROVE  s \in C
  <2>1. /\ SumOf(f, s) = IF s = {} THEN 0 ELSE f[Some(s)] + SumOf(f, s \ {Some(s)})
        /\ SumOf(g, s) = IF s = {} THEN 0 ELSE g[Some(s)] + SumOf(g, s \ {Some(s)})
    BY <1>1, CostNext, FS_Subset
  <2>2. CASE s = {}
    BY <2>1, <2>2
  <2>3. CASE s # {}
    <3>1. Some(s) \in s
      BY <2>3 DEF Some
    <3>2. SumOf(f, s \ {Some(s)}) = SumOf(g, s \ {Some(s)}) /\ f[Some(s)] = g[Some(s)]
      BY <3>1, <1>2
    <3>3. QED
      BY <2>1, <2>3, <3>2
  <2>4. QED
    BY <2>2, <2>3
<1>3. C \in SUBSET (SUBSET S)
  OBVIOUS
<1> HIDE DEF C
<1>4. C = SUBSET S
  BY <1>1, <1>2, <1>3, SubsetInduction
<1>5. QED
  BY <1>4 DEF C

\* Nothing adds up to nothing.
LEMMA SumZero ==
  ASSUME NEW f, f = [t \in Tasks |-> 0]
  PROVE  SumOf(f, Tasks) = 0
<1> DEFINE C == {s \in SUBSET Tasks : SumOf(f, s) = 0}
<1>1. ASSUME NEW s \in SUBSET Tasks, \A x \in s : s \ {x} \in C
      PROVE  s \in C
  <2>1. SumOf(f, s) = IF s = {} THEN 0 ELSE f[Some(s)] + SumOf(f, s \ {Some(s)})
    BY LockingAssumption, CostNext, FS_Subset
  <2>2. s # {} => Some(s) \in s
    BY DEF Some
  <2>3. QED
    BY <1>1, <2>1, <2>2
<1>2. C \in SUBSET (SUBSET Tasks)
  OBVIOUS
<1> HIDE DEF C
<1>3. C = SUBSET Tasks
  BY <1>1, <1>2, LockingAssumption, SubsetInduction
<1>4. QED
  BY <1>3 DEF C

\* Changing one of the numbers changes the sum by as much.
LEMMA SumUpdate ==
  ASSUME NEW f \in [Tasks -> Nat], NEW t \in Tasks, NEW a \in Nat,
         NEW g, g = [f EXCEPT ![t] = a]
  PROVE  /\ SumOf(f, Tasks) \in Nat
         /\ f[t] <= SumOf(f, Tasks)
         /\ SumOf(g, Tasks) = SumOf(f, Tasks) - f[t] + a
<1> DEFINE R == Tasks \ {t}
<1>1. g \in [Tasks -> Nat] /\ g[t] = a /\ \A x \in R : f[x] = g[x]
  OBVIOUS
<1>2. SumOf(f, R) = SumOf(g, R)
  BY <1>1, SumsAgree
<1>3. SumOf(f, Tasks) = f[t] + SumOf(f, R) /\ SumOf(f, R) \in Nat /\ SumOf(f, Tasks) \in Nat
  BY CostRemove
<1>4. SumOf(g, Tasks) = g[t] + SumOf(g, R)
  BY <1>1, CostRemove
<1>5. f[t] \in Nat
  OBVIOUS
<1>6. QED
  BY <1>1, <1>2, <1>3, <1>4, <1>5

-------------------------------------------------------------------------------
(* One handler at a time: the pools behave as the ledger says, and money    *)
(* stays with a LOCKED task, or with one whose unlock broke off.           *)

\* What is charged is nothing or an amount.
LEMMA ChargeType ==
  ASSUME TypeOK
  PROVE  /\ Charge \in [Pools -> [Tasks -> Nat]]
         /\ \A p \in Pools, t \in Tasks :
              Charge[p][t] = IF /\ req[t].status = "LOCKED" /\ req[t].pool = p
                                /\ ~\E w \in Workers : At(w, "reopen") /\ job[w].on = t
                               THEN req[t].amount ELSE 0
<1>1. \A t \in Tasks : req[t].amount \in Nat
  BY LockingAssumption DEF TypeOK, Rows
<1>2. QED
  BY <1>1 DEF Charge

\* A charge of pool p that moves by one entry moves the sum by as much.
LEMMA MovedBalance ==
  ASSUME TypeOK, TypeOK', NEW p \in Pools, NEW t \in Tasks, NEW a \in Nat,
         Charge' = [Charge EXCEPT ![p][t] = a]
  PROVE  /\ Ledger!Cost(p)' = Ledger!Cost(p) - Charge[p][t] + a
         /\ Ledger!Cost(p) \in Nat /\ Charge[p][t] <= Ledger!Cost(p)
         /\ \A q \in Pools \ {p} : Ledger!Cost(q)' = Ledger!Cost(q)
<1>1. /\ Charge[p] \in [Tasks -> Nat] /\ Charge'[p] = [Charge[p] EXCEPT ![t] = a]
      /\ \A q \in Pools \ {p} : Charge'[q] = Charge[q]
  BY ChargeType
<1>2. PICK f : f = Charge[p]
  OBVIOUS
<1>3. PICK g : g = Charge'[p]
  OBVIOUS
<1>4. /\ SumOf(f, Tasks) \in Nat
      /\ f[t] <= SumOf(f, Tasks)
      /\ SumOf(g, Tasks) = SumOf(f, Tasks) - f[t] + a
  BY <1>1, <1>2, <1>3, SumUpdate
<1>5. Ledger!Cost(p) = SumOf(f, Tasks) /\ Ledger!Cost(p)' = SumOf(g, Tasks)
  BY <1>2, <1>3 DEF Ledger!Cost, SumOf
<1>6. \A q \in Pools \ {p} : Ledger!Cost(q)' = Ledger!Cost(q)
  BY <1>1 DEF Ledger!Cost
<1>7. QED
  BY <1>2, <1>4, <1>5, <1>6

\* A step of the ledger keeps the balance.
LEMMA BalancedStep ==
  ASSUME TypeOK, TypeOK', Ledger!Balanced, [Ledger!Next]_(Ledger!ledgerVars)
  PROVE  Ledger!Balanced'
<1>1. \A p \in Pools : used[p] \in Int /\ Total[p] \in Nat
  BY LockingAssumption DEF TypeOK
<1>2. CASE Ledger!Loose \/ UNCHANGED Ledger!ledgerVars
  <2>1. \A p \in Pools \ spoilt' : p \notin spoilt /\ Charge'[p] = Charge[p] /\ used'[p] = used[p]
    BY <1>2 DEF Ledger!Loose, Ledger!ledgerVars
  <2>2. QED
    BY <2>1 DEF Ledger!Balanced, Ledger!Cost
<1>3. ASSUME NEW p \in Pools, NEW t \in Tasks, NEW a \in Amounts, Ledger!Charge(p, t, a)
      PROVE  Ledger!Balanced'
  <2>1. a \in Nat /\ Charge' = [Charge EXCEPT ![p][t] = a] /\ Charge[p][t] = 0
    BY <1>3, LockingAssumption DEF Ledger!Charge
  <2> DEFINE c == Ledger!Cost(p)
  <2>5. /\ c' = c - Charge[p][t] + a /\ c \in Nat
        /\ \A q \in Pools \ {p} : Ledger!Cost(q)' = Ledger!Cost(q)
    BY <2>1, MovedBalance
  <2> HIDE DEF c
  <2>6. c' = c + a
    BY <2>1, <2>5
  <2>2. /\ Ledger!Cost(p)' = Ledger!Cost(p) + a /\ Ledger!Cost(p) \in Nat
        /\ \A q \in Pools \ {p} : Ledger!Cost(q)' = Ledger!Cost(q)
    BY <2>5, <2>6 DEF c
  <2>3. /\ used[p] + a <= Total[p] /\ used'[p] = used[p] + a /\ spoilt' = spoilt
        /\ \A q \in Pools \ {p} : used'[q] = used[q]
    BY <1>3 DEF Ledger!Charge, TypeOK
  <2>4. QED
    BY <1>1, <2>1, <2>2, <2>3 DEF Ledger!Balanced
<1>4. ASSUME NEW p \in Pools, NEW t \in Tasks, Ledger!Refund(p, t)
      PROVE  Ledger!Balanced'
  <2>1. Charge' = [Charge EXCEPT ![p][t] = 0] /\ Charge[p][t] \in Nat
    BY <1>4, ChargeType DEF Ledger!Refund
  <2> DEFINE c == Ledger!Cost(p)
  <2>5. /\ c' = c - Charge[p][t] + 0 /\ c \in Nat
        /\ \A q \in Pools \ {p} : Ledger!Cost(q)' = Ledger!Cost(q)
    BY <2>1, MovedBalance
  <2> HIDE DEF c
  <2>6. c' = c - Charge[p][t]
    BY <2>1, <2>5
  <2>2. /\ Ledger!Cost(p)' = Ledger!Cost(p) - Charge[p][t] /\ Ledger!Cost(p) \in Nat
        /\ \A q \in Pools \ {p} : Ledger!Cost(q)' = Ledger!Cost(q)
    BY <2>5, <2>6 DEF c
  <2>3. /\ used'[p] = used[p] - Charge[p][t] /\ spoilt' = spoilt
        /\ \A q \in Pools \ {p} : used'[q] = used[q]
    BY <1>4 DEF Ledger!Refund, TypeOK
  <2>4. QED
    BY <1>1, <2>1, <2>2, <2>3 DEF Ledger!Balanced
<1>5. QED
  BY <1>2, <1>3, <1>4 DEF Ledger!Next

\* A deduction from s is still where it belongs.
Backed(s) == req[s].status = "LOCKED" => task[s] = "LOCKED" \/ Unlocking(s) \/ s \in torn

\* Both halves of the promise about w's step: what is still so when it is done,
\* and what the ledger sees of it.
Kept(w) ==
  /\ UpToDate(w)'
  /\ \A s \in Tasks : Backed(s)'
  /\ [Ledger!Next]_(Ledger!ledgerVars)

\* A LOCKED request's task is LOCKED, its unlock broke off, or the one worker is
\* unlocking it.
LEMMA MoneyPlaced ==
  ASSUME OneAtATime, SequentialInv, NEW w \in Workers, NEW t \in Tasks, req[t].status = "LOCKED"
  PROVE  \/ task[t] = "LOCKED" \/ t \in torn
         \/ /\ job[w].on = t /\ job[w].op = "unlock"
            /\ job[w].pc \in {"read_request", "read_pool", "refund", "reopen"}
<1>1. \A v \in Workers : v = w
  BY DEF OneAtATime
<1>2. QED
  BY <1>1 DEF SequentialInv, Unlocking

\* The one worker's step, when it moves no money.
LEMMA QuietStep ==
  ASSUME OneAtATime, TypeOK, NEW w \in Workers, used' = used, spoilt' = spoilt,
         \A t \in Tasks : \/ req'[t] = req[t]
                          \/ req[t].status # "LOCKED" /\ req'[t].status # "LOCKED",
         job[w].pc # "reopen", job'[w].pc # "reopen"
  PROVE  [Ledger!Next]_(Ledger!ledgerVars)
<1>1. \A v \in Workers : v = w
  BY DEF OneAtATime
<1>2. ~(\E v \in Workers : At(v, "reopen")) /\ ~(\E v \in Workers : At(v, "reopen"))'
  BY <1>1 DEF At
<1>3. Charge' = Charge
  <2>1. \A p \in Pools, t \in Tasks :
          (IF req'[t].status = "LOCKED" /\ req'[t].pool = p THEN req'[t].amount ELSE 0)
          = (IF req[t].status = "LOCKED" /\ req[t].pool = p THEN req[t].amount ELSE 0)
    OBVIOUS
  <2>2. Charge = [p \in Pools |-> [t \in Tasks |->
          IF req[t].status = "LOCKED" /\ req[t].pool = p THEN req[t].amount ELSE 0]]
    BY <1>2 DEF Charge
  <2>3. Charge' = [p \in Pools |-> [t \in Tasks |->
          IF req'[t].status = "LOCKED" /\ req'[t].pool = p THEN req'[t].amount ELSE 0]]
    BY <1>2 DEF Charge
  <2>4. QED
    BY <2>1, <2>2, <2>3
<1>4. QED
  BY <1>3 DEF Ledger!ledgerVars

\* The one worker's step, when only the entry of request t in pool p is another.
LEMMA MovedCharge ==
  ASSUME TypeOK, TypeOK', NEW t \in Tasks, NEW p \in Pools, NEW a,
         \A s \in Tasks \ {t} : req'[s] = req[s],
         \A v \in Workers : At(v, "reopen") \/ At(v, "reopen")' => job[v].on = t /\ job'[v].on \in {t, NoTask},
         \A q \in Pools \ {p} : Charge'[q][t] = Charge[q][t],
         Charge'[p][t] = a
  PROVE  Charge' = [Charge EXCEPT ![p][t] = a]
<1>1. Charge \in [Pools -> [Tasks -> Nat]] /\ Charge' \in [Pools -> [Tasks -> Nat]]
  <2>1. \A s \in Tasks : req'[s].amount \in Nat
    BY LockingAssumption DEF TypeOK, Rows
  <2>2. Charge' \in [Pools -> [Tasks -> Nat]]
    BY <2>1 DEF Charge
  <2>3. QED
    BY <2>2, ChargeType
<1>2. \A q \in Pools, s \in Tasks \ {t} : Charge'[q][s] = Charge[q][s]
  <2> SUFFICES ASSUME NEW q \in Pools, NEW s \in Tasks \ {t}
               PROVE  Charge'[q][s] = Charge[q][s]
    OBVIOUS
  <2>1. /\ ~\E v \in Workers : At(v, "reopen") /\ job[v].on = s
        /\ ~\E v \in Workers : (At(v, "reopen") /\ job[v].on = s)'
    BY LockingAssumption DEF At
  <2>2. Charge[q][s] = IF req[s].status = "LOCKED" /\ req[s].pool = q THEN req[s].amount ELSE 0
    BY <2>1 DEF Charge
  <2>3. Charge'[q][s] = IF req'[s].status = "LOCKED" /\ req'[s].pool = q THEN req'[s].amount ELSE 0
    BY <2>1 DEF Charge
  <2>4. QED
    BY <2>2, <2>3
<1>3. PICK c \in [Pools -> [Tasks -> Nat]] : c = Charge
  BY <1>1
<1>4. PICK d \in [Pools -> [Tasks -> Nat]] : d = Charge'
  BY <1>1
<1>5. \A q \in Pools \ {p} : d[q] = c[q]
  BY <1>2, <1>3, <1>4
<1>6. d[p] = [c[p] EXCEPT ![t] = a]
  BY <1>2, <1>3, <1>4
<1>7. d = [c EXCEPT ![p] = [c[p] EXCEPT ![t] = a]]
  BY <1>5, <1>6
<1>8. QED
  BY <1>3, <1>4, <1>7

\* A refund that gives back what is charged.  Where the books are kept it need
\* not be clamped, for the charge is part of used_amount.
LEMMA RefundStep ==
  ASSUME TypeOK, TypeOK', Ledger!Balanced, NEW w \in Workers, NEW t \in Tasks, NEW p \in Pools,
         req[t].status = "LOCKED", job[w].row = req[t], p = job[w].row.pool,
         job[w].pool = used[p], Charge[p][t] = req[t].amount,
         Charge' = [Charge EXCEPT ![p][t] = 0],
         used' = [used EXCEPT ![p] = Refunded(w)],
         spoilt' = spoilt
  PROVE  [Ledger!Next]_(Ledger!ledgerVars)
<1>1. req[t].amount \in Nat /\ req[t].amount # 0 /\ used[p] \in Int
  BY LockingAssumption DEF TypeOK, Rows
<1>2. CASE p \in spoilt
  <2>1. \A q \in Pools \ spoilt : Charge'[q] = Charge[q] /\ used'[q] = used[q]
    BY <1>2, ChargeType DEF TypeOK
  <2>2. QED
    BY <1>2, <2>1 DEF Ledger!Next, Ledger!Loose
<1>3. CASE p \notin spoilt
  <2>1. Ledger!Cost(p) \in Nat /\ Charge[p][t] <= Ledger!Cost(p)
    BY MovedBalance
  <2>2. used[p] = Ledger!Cost(p)
    BY <1>3 DEF Ledger!Balanced
  <2>3. Refunded(w) = used[p] - Charge[p][t]
    BY <1>1, <2>1, <2>2 DEF Refunded
  <2>4. used' = [used EXCEPT ![p] = @ - Charge[p][t]]
    BY <2>3 DEF TypeOK
  <2>5. Ledger!Refund(p, t)
    BY <1>1, <2>4 DEF Ledger!Refund
  <2>6. QED
    BY <2>5 DEF Ledger!Next
<1>4. QED
  BY <1>2, <1>3

\* A step that leaves task, used, torn and spoilt alone, and no request LOCKED
\* that was not, needs only to say what the worker knows.
LEMMA QuietKept ==
  ASSUME OneAtATime, TypeOK, SequentialInv, NEW w \in Workers,
         UNCHANGED <<used, spoilt, torn>>,
         \A s \in Tasks : \/ req'[s] = req[s]
                          \/ req[s].status # "LOCKED" /\ req'[s].status # "LOCKED",
         \A s \in Tasks : req[s].status = "LOCKED" /\ task[s] = "LOCKED" => task'[s] = "LOCKED",
         ~(job[w].op = "unlock" /\ job[w].pc \in {"read_request", "read_pool", "refund", "reopen"}),
         job'[w].pc # "reopen",
         UpToDate(w)'
  PROVE  Kept(w)
<1>1. job[w].pc # "reopen"
  BY DEF SequentialInv, UpToDate
<1>2. \A s \in Tasks : Backed(s)'
  BY MoneyPlaced DEF Backed
<1>3. QED
  BY <1>1, <1>2, QuietStep DEF Kept

\* A request taken by the one worker is served from what is so at that moment.
LEMMA SequentialCall ==
  ASSUME OneAtATime, TypeOK, Placed, SequentialInv, NEW w \in Workers, Call(w)
  PROVE  Kept(w)
<1>1. PICK t \in Tasks : \/ \E o \in Ops : \/ ReadTask(w, o, t)
                                          \/ MakeApproval(w, o, t)
                                          \/ DecideRequest(w, o, t)
                         \/ ReviewRequest(w, t)
                         \/ EditRequest(w, t)
  BY DEF Call
<1>2. job[w].pc = "idle" /\ UNCHANGED <<req, used, torn, spoilt>>
  BY <1>1 DEF ReadTask, MakeApproval, DecideRequest, ReviewRequest, EditRequest, Run, At, rows, history
<1>3. \A s \in Tasks : req[s].status = "LOCKED" => task[s] = "LOCKED" \/ s \in torn
  BY <1>2, MoneyPlaced
<1>4. ASSUME NEW o \in Ops, ReadTask(w, o, t)
      PROVE  Kept(w)
  <2>1. job'[w].pc = "save_task" /\ job'[w].op = o /\ job'[w].on = t
    BY <1>4, RunFrame DEF ReadTask
  <2>2. task' = task
    BY <1>4 DEF ReadTask, rows
  <2>3. UpToDate(w)'
    BY <1>2, <1>4, <2>1, <2>2 DEF UpToDate, ReadTask
  <2>4. QED
    BY <1>2, <2>1, <2>2, <2>3, QuietKept
<1>5. ASSUME NEW o \in Ops, MakeApproval(w, o, t)
      PROVE  Kept(w)
  <2>1. job'[w].pc = "read_request" /\ job'[w].op = o /\ job'[w].on = t
    BY <1>5, RunFrame DEF MakeApproval
  <2>2. task[t] = "UNDER_REVIEW" /\ \A s \in Tasks : s # t => task'[s] = task[s]
    BY <1>5 DEF MakeApproval, TypeOK
  <2>3. req[t].status # "LOCKED" \/ t \in torn
    BY <1>3, <2>2
  <2>4. UpToDate(w)'
    BY <1>2, <2>1, <2>3 DEF UpToDate
  <2>5. QED
    BY <1>2, <2>1, <2>2, <2>4, QuietKept
<1>6. ASSUME NEW o \in Ops, DecideRequest(w, o, t)
      PROVE  Kept(w)
  <2>1. job'[w].pc = "process" /\ job'[w].op = o /\ job'[w].on = t
    BY <1>6, RunFrame DEF DecideRequest
  <2>2. task' = task /\ req[t].status # "LOCKED"
    BY <1>6 DEF DecideRequest, rows
  <2>3. UpToDate(w)'
    BY <1>2, <2>1, <2>2 DEF UpToDate
  <2>4. QED
    BY <1>2, <2>1, <2>2, <2>3, QuietKept
<1>7. CASE ReviewRequest(w, t)
  <2>1. /\ job'[w].pc = "save_request" /\ job'[w].op = "review_request" /\ job'[w].on = t
        /\ job'[w].row = req[t]
    BY <1>7, RunFrame DEF ReviewRequest
  <2>2. task' = task /\ req[t].status # "LOCKED"
    BY <1>7 DEF ReviewRequest, rows
  <2>3. UpToDate(w)'
    BY <1>2, <2>1, <2>2 DEF UpToDate
  <2>4. QED
    BY <1>2, <2>1, <2>2, <2>3, QuietKept
<1>8. CASE EditRequest(w, t)
  <2>1. PICK e \in Edits[t] :
          Run(w, "edit_request", t, "save_request",
              [status |-> req[t].status, amount |-> e.amount, pool |-> e.pool])
    BY <1>8 DEF EditRequest
  <2>2. /\ job'[w].pc = "save_request" /\ job'[w].op = "edit_request" /\ job'[w].on = t
        /\ job'[w].row.status = req[t].status
    BY <2>1, RunFrame
  <2>3. task' = task
    BY <1>8 DEF EditRequest, rows
  <2>4. UpToDate(w)'
    BY <1>2, <2>2 DEF UpToDate
  <2>5. QED
    BY <1>2, <2>2, <2>3, <2>4, QuietKept
<1>9. QED
  BY <1>1, <1>4, <1>5, <1>6, <1>7, <1>8

\* Saving the task.
LEMMA SequentialTask ==
  ASSUME OneAtATime, TypeOK, Placed, SequentialInv, NEW w \in Workers, SaveTask(w)
  PROVE  Kept(w)
<1> DEFINE t == job[w].on
<1>1. /\ job[w].pc = "save_task" /\ UNCHANGED <<req, used, torn, spoilt>>
      /\ task' = [task EXCEPT ![t] = Target(job[w].op)]
      /\ task[t] \in Sources(job[w].op)
      /\ job[w].op = "lock" => req[t].status = "APPROVED"
  BY DEF SaveTask, At, UpToDate, SequentialInv, history
<1>2. t \in Tasks
  BY <1>1 DEF Placed, At
<1>3. \A s \in Tasks : req[s].status = "LOCKED" => task[s] = "LOCKED" \/ s \in torn
  BY <1>1, MoneyPlaced
<1>4. job[w].op = "unlock" \/ task[t] # "LOCKED"
  BY <1>1 DEF Sources
<1>5. \/ /\ Finish(w) /\ (req[t].status # "LOCKED" \/ t \in torn)
      \/ /\ Goto(w, "lock_request") /\ job[w].op = "lock" /\ req[t].status = "APPROVED"
         /\ task'[t] = "LOCKED"
      \/ /\ Goto(w, "cancel_request") /\ job[w].op = "cancel"
         /\ (req[t].status # "LOCKED" \/ t \in torn)
      \/ /\ Goto(w, "read_request")
         /\ job[w].op = "unlock" \/ req[t].status # "LOCKED" \/ t \in torn
  BY <1>1, <1>2, <1>3, <1>4 DEF SaveTask, Target, TypeOK
<1>6. job'[w].pc # "reopen" /\ UpToDate(w)'
  BY <1>1, <1>5, GotoFrame, FinishFrame DEF UpToDate, Points
<1>7. ASSUME NEW s \in Tasks, req'[s].status = "LOCKED"
      PROVE  task'[s] = "LOCKED" \/ Unlocking(s)' \/ s \in torn'
  <2>1. CASE s # t \/ s \in torn
    BY <1>1, <1>3, <1>7, <2>1 DEF TypeOK
  <2>2. CASE s = t /\ s \notin torn
    <3>1. Goto(w, "read_request") /\ job[w].op = "unlock"
      BY <1>1, <1>5, <1>7, <2>2
    <3>2. QED
      BY <2>2, <3>1, GotoFrame DEF Unlocking, Points
  <2>3. QED
    BY <2>1, <2>2
<1>8. QED
  BY <1>1, <1>6, <1>7, QuietStep DEF Kept, Backed

\* Reading the request, and deciding it.
LEMMA SequentialRows ==
  ASSUME OneAtATime, TypeOK, Placed, SequentialInv, NEW w \in Workers,
         ReadRequest(w) \/ ProcessApproval(w)
  PROVE  Kept(w)
<1> DEFINE t == job[w].on
<1>1. UpToDate(w)
  BY DEF SequentialInv
<1>2. t \in Tasks
  BY DEF Placed, At, ReadRequest, ProcessApproval
<1>3. UNCHANGED <<task, used, torn, spoilt>>
  BY DEF ReadRequest, ProcessApproval, rows, history
<1>4. CASE ReadRequest(w)
  <2>1. /\ job[w].pc = "read_request" /\ req' = req
        /\ job[w].op = "unlock" \/ req[t].status # "LOCKED" \/ t \in torn
    BY <1>1, <1>4 DEF ReadRequest, At, UpToDate, rows
  <2>2. \/ Finish(w) /\ (req[t].status # "LOCKED" \/ t \in torn)
        \/ Read(w, "save_request") /\ req[t].status # "LOCKED" /\ job[w].op # "edit_request"
        \/ Read(w, "process") /\ req[t].status # "LOCKED"
        \/ Read(w, "read_pool") /\ req[t].status = "LOCKED" /\ job[w].op = "unlock"
    BY <1>4, <2>1 DEF ReadRequest
  <2>3. job'[w].pc # "reopen" /\ UpToDate(w)'
    BY <1>3, <2>1, <2>2, ReadFrame, FinishFrame DEF UpToDate, Points
  <2>4. ASSUME NEW s \in Tasks
        PROVE  Backed(s)'
    <3>1. CASE req[s].status # "LOCKED" \/ task[s] = "LOCKED" \/ s \in torn
      BY <1>3, <2>1, <3>1 DEF Backed
    <3>2. CASE req[s].status = "LOCKED" /\ task[s] # "LOCKED" /\ s \notin torn
      <4>1. s = t
        BY <3>2, MoneyPlaced
      <4>2. Read(w, "read_pool") /\ job[w].op = "unlock"
        BY <2>1, <2>2, <3>2, <4>1
      <4>3. QED
        BY <4>1, <4>2, ReadFrame DEF Backed, Unlocking, Points
    <3>3. QED
      BY <3>1, <3>2
  <2>5. QED
    BY <1>3, <2>1, <2>3, <2>4, QuietStep DEF Kept
<1>5. CASE ProcessApproval(w)
  <2>1. job[w].pc = "process" /\ req[t].status # "LOCKED" /\ Finish(w)
    BY <1>1, <1>5 DEF ProcessApproval, At, UpToDate
  <2>2. \A s \in Tasks : \/ req'[s] = req[s]
                         \/ req[s].status # "LOCKED" /\ req'[s].status # "LOCKED"
    BY <1>2, <1>5, <2>1 DEF ProcessApproval, TypeOK, Rows
  <2>3. job'[w].pc = "idle" /\ UpToDate(w)'
    BY <2>1, FinishFrame DEF UpToDate
  <2>4. QED
    BY <1>3, <2>1, <2>2, <2>3, QuietKept
<1>6. QED
  BY <1>4, <1>5

\* Saving the request: what it does to the books of a pool is what spoils them.
LEMMA SequentialSave ==
  ASSUME OneAtATime, TypeOK, TypeOK', Placed, SequentialInv, NEW w \in Workers, SaveRequest(w)
  PROVE  Kept(w)
<1> DEFINE t == job[w].on
<1>1. UpToDate(w) /\ \A v \in Workers : v = w
  BY DEF SequentialInv, OneAtATime
<1>2. t \in Tasks /\ job[w].pc = "save_request"
  BY DEF Placed, At, SaveRequest
<1>3. PICK r : r = [job[w].row EXCEPT !.status = SavedStatus(w)]
  OBVIOUS
<1>4. /\ req' = [req EXCEPT ![t] = r] /\ spoilt' = spoilt \cup Misbooked(t, r)
      /\ UNCHANGED <<task, used, torn>>
      /\ Goto(w, "process") \/ Finish(w)
      /\ Finish(w) \/ job[w].op # "edit_request"
  BY <1>3 DEF SaveRequest
<1>5. /\ r \in [status : {SavedStatus(w)}, amount : Amounts, pool : Pools]
      /\ req[t] \in Rows
  BY <1>2, <1>3, JobFacts DEF TypeOK, Rows
<1>6. req[t].status = "LOCKED" <=> r.status = "LOCKED"
  BY <1>1, <1>2, <1>5 DEF UpToDate, SavedStatus
<1>7. job[w].op # "edit_request" => r.status # "LOCKED"
  BY <1>1, <1>2, <1>6 DEF UpToDate
<1>8. req'[t] = r /\ \A s \in Tasks \ {t} : req'[s] = req[s]
  BY <1>2, <1>4 DEF TypeOK
<1>9. /\ job'[w].pc \in {"process", "idle"}
      /\ job'[w].pc = "process" => job'[w].on = t /\ job[w].op # "edit_request"
  BY <1>4, GotoFrame, FinishFrame DEF Points
<1>10. UpToDate(w)'
  BY <1>7, <1>8, <1>9 DEF UpToDate
<1>11. CASE Misbooked(t, r) = {}
  <2>1. \A s \in Tasks : \/ req'[s] = req[s]
                         \/ req[s].status # "LOCKED" /\ req'[s].status # "LOCKED"
    <3>1. CASE req[t].status = "LOCKED"
      <4>1. req[t].amount = r.amount /\ req[t].pool = r.pool /\ req[t].status = r.status
        BY <1>6, <1>11, <3>1 DEF Misbooked
      <4>2. r = req[t]
        BY <1>5, <4>1 DEF Rows
      <4>3. QED
        BY <1>8, <4>2
    <3>2. CASE req[t].status # "LOCKED"
      BY <1>6, <1>8, <3>2
    <3>3. QED
      BY <3>1, <3>2
  <2>2. QED
    BY <1>2, <1>4, <1>9, <1>10, <1>11, <2>1, QuietKept
<1>12. CASE Misbooked(t, r) # {}
  <2>1. req[t].pool \in spoilt' /\ r.pool \in spoilt' /\ spoilt \subseteq spoilt'
    BY <1>4, <1>12 DEF Misbooked
  <2>2. ASSUME NEW p \in Pools \ spoilt'
        PROVE  Charge'[p] = Charge[p] /\ used'[p] = used[p]
    <3>1. ~(\E v \in Workers : At(v, "reopen")) /\ ~(\E v \in Workers : At(v, "reopen"))'
      BY <1>1, <1>2, <1>9 DEF At
    <3>2. Charge[p] = [s \in Tasks |->
            IF req[s].status = "LOCKED" /\ req[s].pool = p THEN req[s].amount ELSE 0]
      BY <3>1 DEF Charge
    <3>3. Charge'[p] = [s \in Tasks |->
            IF req'[s].status = "LOCKED" /\ req'[s].pool = p THEN req'[s].amount ELSE 0]
      BY <3>1 DEF Charge
    <3>4. \A s \in Tasks :
            (IF req'[s].status = "LOCKED" /\ req'[s].pool = p THEN req'[s].amount ELSE 0)
            = (IF req[s].status = "LOCKED" /\ req[s].pool = p THEN req[s].amount ELSE 0)
      BY <1>8, <2>1, <2>2
    <3>5. QED
      BY <1>4, <3>2, <3>3, <3>4
  <2>3. Ledger!Loose
    BY <2>1, <2>2 DEF Ledger!Loose
  <2>4. \A s \in Tasks : req'[s].status = "LOCKED" => req[s].status = "LOCKED"
    BY <1>6, <1>8
  <2>5. \A s \in Tasks : Backed(s)'
    BY <1>2, <1>4, <2>4, MoneyPlaced DEF Backed
  <2>6. QED
    BY <1>10, <2>3, <2>5 DEF Kept, Ledger!Next
<1>13. QED
  BY <1>11, <1>12

\* A worker that dies: what it was unlocking is torn from then on.
LEMMA SequentialCrash ==
  ASSUME OneAtATime, TypeOK, TypeOK', Placed, SequentialInv, NEW w \in Workers, Crash(w)
  PROVE  Kept(w)
<1> DEFINE t == job[w].on
<1>1. UpToDate(w) /\ \A v \in Workers : v = w
  BY DEF SequentialInv, OneAtATime
<1>2. t \in Tasks /\ UNCHANGED <<task, req, used>>
  BY DEF Placed, Crash
<1>3. job'[w].pc = "idle"
  BY FinishFrame DEF Crash
<1>4. UpToDate(w)'
  BY <1>3 DEF UpToDate
<1>5. \A s \in Tasks : Backed(s)'
  BY <1>2, MoneyPlaced DEF Crash, HalfUnlocked, Backed
<1>6. CASE job[w].pc # "reopen"
  <2>1. spoilt' = spoilt
    BY <1>6 DEF Crash, At
  <2>2. QED
    BY <1>2, <1>3, <1>4, <1>5, <1>6, <2>1, QuietStep DEF Kept
<1>7. CASE job[w].pc = "reopen"
  <2>1. spoilt' = spoilt \cup {req[t].pool}
    BY <1>7 DEF Crash, At
  <2>2. ASSUME NEW p \in Pools \ spoilt'
        PROVE  Charge'[p] = Charge[p] /\ used'[p] = used[p]
    <3>1. ~(\E v \in Workers : At(v, "reopen"))'
      BY <1>1, <1>3 DEF At
    <3>2. \A s \in Tasks : (\E v \in Workers : At(v, "reopen") /\ job[v].on = s) <=> s = t
      BY <1>1, <1>7 DEF At
    <3>3. Charge[p] = [s \in Tasks |->
            IF req[s].status = "LOCKED" /\ req[s].pool = p /\ s # t THEN req[s].amount ELSE 0]
      BY <3>2 DEF Charge
    <3>4. Charge'[p] = [s \in Tasks |->
            IF req'[s].status = "LOCKED" /\ req'[s].pool = p THEN req'[s].amount ELSE 0]
      BY <3>1 DEF Charge
    <3>5. \A s \in Tasks : req[s].pool = p => s # t
      BY <2>1, <2>2
    <3>6. Charge'[p] = Charge[p]
      BY <1>2, <3>3, <3>4, <3>5
    <3>7. QED
      BY <1>2, <3>6
  <2>3. Ledger!Loose
    BY <2>1, <2>2 DEF Ledger!Loose
  <2>4. QED
    BY <1>4, <1>5, <2>3 DEF Kept, Ledger!Next
<1>8. QED
  BY <1>6, <1>7

\* The steps between a handler and the pool: what the worker reads there is
\* still so when it writes.
LEMMA SequentialPool ==
  ASSUME OneAtATime, TypeOK, TypeOK', Placed, SequentialInv, NEW w \in Workers,
         \/ LockRequest(w) \/ ReadPool(w) \/ LockPool(w) \/ Deduct(w)
         \/ CancelRequest(w) \/ RefundAndCancel(w) \/ RefundPool(w) \/ ReopenRequest(w)
  PROVE  Kept(w)
<1> DEFINE t == job[w].on
           p == job[w].row.pool
<1>1. UpToDate(w) /\ \A v \in Workers : v = w
  BY DEF SequentialInv, OneAtATime
<1>2. t \in Tasks
  BY DEF Placed, At, LockRequest, ReadPool, LockPool, Deduct, CancelRequest,
         RefundAndCancel, RefundPool, ReopenRequest
<1>3. /\ p \in Pools /\ used[p] \in Int /\ Total[p] \in Nat
      /\ job[w].row.amount \in Amounts /\ job[w].row.amount \in Nat
  BY JobFacts, LockingAssumption DEF TypeOK
<1>4. ASSUME Rollback(w), job[w].op # "unlock"
      PROVE  Kept(w)
  <2>1. job'[w].pc = "idle" /\ UNCHANGED <<task, req, used, torn, spoilt>>
    BY <1>4, FinishFrame DEF Rollback, rows
  <2>2. UpToDate(w)'
    BY <2>1 DEF UpToDate
  <2>3. QED
    BY <1>4, <2>1, <2>2, QuietKept
<1>5. CASE LockRequest(w)
  <2>1. /\ job[w].pc = "lock_request" /\ job[w].op = "lock"
        /\ task[t] = "LOCKED" /\ req[t].status = "APPROVED"
    BY <1>1, <1>5 DEF LockRequest, At, UpToDate
  <2>2. CASE Read(w, "read_pool") /\ UNCHANGED rows
    <3>1. /\ job'[w].pc = "read_pool" /\ job'[w].on = t /\ job'[w].op = "lock"
          /\ job'[w].row = req[t]
          /\ UNCHANGED <<task, req, used, torn, spoilt>>
      BY <2>1, <2>2, ReadFrame DEF Points, rows
    <3>2. UpToDate(w)'
      BY <2>1, <3>1 DEF UpToDate
    <3>3. QED
      BY <2>1, <3>1, <3>2, QuietKept
  <2>3. QED
    BY <1>4, <1>5, <2>1, <2>2 DEF LockRequest
<1>6. CASE ReadPool(w)
  <2>1. /\ job[w].pc = "read_pool" /\ UNCHANGED <<task, req, used, torn, spoilt>>
        /\ \/ job[w].op = "lock" /\ task[t] = "LOCKED" /\ req[t].status = "APPROVED"
           \/ job[w].op = "unlock" /\ req[t].status = "LOCKED"
           \/ job[w].op = "cancel" /\ req[t].status = "LOCKED" /\ t \in torn
        /\ job[w].row = req[t]
    BY <1>1, <1>6 DEF ReadPool, At, UpToDate, rows
  <2>2. /\ job'[w].on = t /\ job'[w].op = job[w].op /\ job'[w].pool = used[p]
        /\ job'[w].row = job[w].row
        /\ job'[w].pc = IF job[w].op = "lock" THEN "lock_pool" ELSE "refund"
    BY <1>6 DEF ReadPool, TypeOK, Jobs
  <2>3. UpToDate(w)'
    BY <2>1, <2>2 DEF UpToDate
  <2>4. ASSUME NEW s \in Tasks
        PROVE  Backed(s)'
    <3>1. CASE req[s].status # "LOCKED" \/ task[s] = "LOCKED" \/ s \in torn
      BY <2>1, <3>1 DEF Backed
    <3>2. CASE req[s].status = "LOCKED" /\ task[s] # "LOCKED" /\ s \notin torn
      <4>1. s = t /\ job[w].op = "unlock"
        BY <3>2, MoneyPlaced
      <4>2. QED
        BY <2>2, <4>1 DEF Backed, Unlocking
    <3>3. QED
      BY <3>1, <3>2
  <2>5. QED
    BY <2>1, <2>2, <2>3, <2>4, QuietStep DEF Kept
<1>7. CASE LockPool(w)
  <2>1. /\ job[w].pc = "lock_pool" /\ job[w].op = "lock"
        /\ task[t] = "LOCKED" /\ req[t].status = "APPROVED" /\ job[w].pool = used[p]
        /\ job[w].row = req[t]
    BY <1>1, <1>7 DEF LockPool, At, UpToDate
  <2>2. CASE Goto(w, "deduct") /\ UNCHANGED rows /\ Total[p] - used[p] >= job[w].row.amount
    <3>1. /\ job'[w].pc = "deduct" /\ job'[w].on = t /\ job'[w].op = "lock"
          /\ job'[w].pool = used[p] /\ job'[w].row = job[w].row
          /\ UNCHANGED <<task, req, used, torn, spoilt>>
      BY <2>1, <2>2, GotoFrame DEF Points, rows
    <3>2. used[p] + job[w].row.amount <= Total[p]
      BY <1>3, <2>2
    <3>3. UpToDate(w)'
      BY <2>1, <3>1, <3>2 DEF UpToDate
    <3>4. QED
      BY <2>1, <3>1, <3>3, QuietKept
  <2>3. QED
    BY <1>4, <1>7, <2>1, <2>2 DEF LockPool
<1>8. CASE Deduct(w)
  <2>1. /\ job[w].pc = "deduct" /\ task[t] = "LOCKED" /\ req[t].status = "APPROVED"
        /\ job[w].pool = used[p] /\ used[p] + job[w].row.amount <= Total[p]
        /\ job[w].row = req[t]
    BY <1>1, <1>8 DEF Deduct, At, UpToDate
  <2>2. /\ used' = [used EXCEPT ![p] = used[p] + job[w].row.amount]
        /\ req' = [req EXCEPT ![t] = [job[w].row EXCEPT !.status = "LOCKED"]]
        /\ UNCHANGED <<task, torn, spoilt>>
        /\ job'[w].pc = "idle"
    BY <1>8, <2>1, FinishFrame DEF Deduct
  <2>3. /\ req'[t].status = "LOCKED" /\ req'[t].amount = job[w].row.amount
        /\ req'[t].pool = p /\ \A s \in Tasks \ {t} : req'[s] = req[s]
    BY <1>2, <2>2, JobFacts DEF TypeOK, Rows
  <2>4. UpToDate(w)'
    BY <2>2 DEF UpToDate
  <2>5. \A s \in Tasks : Backed(s)'
    BY <2>1, <2>2, <2>3, MoneyPlaced DEF Backed
  <2>6. ~(\E v \in Workers : At(v, "reopen")) /\ ~(\E v \in Workers : At(v, "reopen"))'
    BY <1>1, <2>1, <2>2 DEF At
  <2>7. \A q \in Pools : Charge[q][t] = 0
    BY <1>2, <2>1, <2>6 DEF Charge
  <2>8. /\ Charge'[p][t] = job[w].row.amount
        /\ \A q \in Pools \ {p} : Charge'[q][t] = 0
    BY <1>2, <1>3, <2>3, <2>6 DEF Charge
  <2>9. Charge' = [Charge EXCEPT ![p][t] = job[w].row.amount]
    BY <1>2, <1>3, <2>3, <2>6, <2>7, <2>8, MovedCharge
  <2>10. used' = [used EXCEPT ![p] = @ + job[w].row.amount]
    BY <1>3, <2>2 DEF TypeOK
  <2>11. Ledger!Charge(p, t, job[w].row.amount)
    BY <1>3, <2>1, <2>2, <2>7, <2>9, <2>10 DEF Ledger!Charge
  <2>12. QED
    BY <1>2, <1>3, <2>4, <2>5, <2>11 DEF Kept, Ledger!Next
<1>9. CASE CancelRequest(w)
  <2>1. job[w].pc = "cancel_request" /\ (req[t].status # "LOCKED" \/ t \in torn)
    BY <1>1, <1>9 DEF CancelRequest, At, UpToDate
  <2>2. CASE req[t].status = "LOCKED"
    <3>1. /\ job'[w].pc = "read_pool" /\ job'[w].on = t /\ job'[w].op = job[w].op
          /\ job'[w].row = req[t]
          /\ UNCHANGED <<task, req, used, torn, spoilt>>
      BY <1>9, <2>2, ReadFrame DEF CancelRequest, Points, rows
    <3>2. job[w].op = "cancel"
      BY <1>1, <2>1 DEF UpToDate
    <3>3. UpToDate(w)'
      BY <2>1, <2>2, <3>1, <3>2 DEF UpToDate
    <3>4. QED
      BY <2>1, <3>1, <3>3, QuietKept
  <2>3. CASE req[t].status # "LOCKED"
    <3>1. /\ req' = [req EXCEPT ![t].status = "CANCELLED"] /\ job'[w].pc = "idle"
          /\ UNCHANGED <<task, used, torn, spoilt>>
      BY <1>9, <2>3, FinishFrame DEF CancelRequest, history
    <3>2. \A s \in Tasks : \/ req'[s] = req[s]
                           \/ req[s].status # "LOCKED" /\ req'[s].status # "LOCKED"
      BY <1>2, <2>3, <3>1 DEF TypeOK, Rows
    <3>3. UpToDate(w)'
      BY <3>1 DEF UpToDate
    <3>4. QED
      BY <2>1, <3>1, <3>2, <3>3, QuietKept
  <2>4. QED
    BY <2>2, <2>3
<1>10. CASE RefundAndCancel(w) \/ RefundPool(w)
  <2>1. /\ job[w].pc = "refund" /\ req[t].status = "LOCKED"
        /\ job[w].op = "unlock" \/ (job[w].op = "cancel" /\ t \in torn)
        /\ job[w].pool = used[p] /\ job[w].row = req[t]
    BY <1>1, <1>10 DEF RefundAndCancel, RefundPool, At, UpToDate
  <2>2. used' = [used EXCEPT ![p] = Refunded(w)] /\ UNCHANGED <<task, spoilt>>
    BY <1>10 DEF RefundAndCancel, RefundPool
  <2>3. ~(\E v \in Workers : At(v, "reopen"))
    BY <1>1, <2>1 DEF At
  <2>4. Charge[p][t] = req[t].amount /\ \A q \in Pools \ {p} : Charge[q][t] = 0
    BY <1>2, <1>3, <2>1, <2>3 DEF Charge
  <2>5. ASSUME Charge' = [Charge EXCEPT ![p][t] = 0]
        PROVE  [Ledger!Next]_(Ledger!ledgerVars)
    BY <1>2, <1>3, <2>1, <2>2, <2>4, <2>5, RefundStep DEF SequentialInv
  <2>6. CASE RefundAndCancel(w)
    <3>1. /\ req' = [req EXCEPT ![t] = [job[w].row EXCEPT !.status = "CANCELLED"]]
          /\ torn' = torn \ {t} /\ job'[w].pc = "idle" /\ job[w].op = "cancel"
      BY <2>6, FinishFrame DEF RefundAndCancel
    <3>2. req'[t].status = "CANCELLED" /\ \A s \in Tasks \ {t} : req'[s] = req[s]
      BY <1>2, <3>1, JobFacts DEF TypeOK, Rows
    <3>3. UpToDate(w)'
      BY <3>1 DEF UpToDate
    <3>4. \A s \in Tasks : Backed(s)'
      BY <2>2, <3>1, <3>2, MoneyPlaced DEF Backed
    <3>5. ~(\E v \in Workers : At(v, "reopen"))'
      BY <1>1, <3>1 DEF At
    <3>6. \A q \in Pools : Charge'[q][t] = 0
      BY <1>2, <3>2 DEF Charge
    <3>7. Charge' = [Charge EXCEPT ![p][t] = 0]
      BY <1>2, <1>3, <2>3, <2>4, <3>2, <3>5, <3>6, MovedCharge
    <3>8. QED
      BY <2>5, <3>3, <3>4, <3>7 DEF Kept
  <2>7. CASE RefundPool(w)
    <3>1. /\ UNCHANGED <<req, torn>> /\ job[w].op = "unlock"
          /\ job'[w].pc = "reopen" /\ job'[w].on = t /\ job'[w].op = "unlock"
          /\ job'[w].row = job[w].row
      BY <2>7, GotoFrame DEF RefundPool, Points
    <3>2. UpToDate(w)'
      BY <2>1, <3>1 DEF UpToDate
    <3>3. \A s \in Tasks : Backed(s)'
      <4>1. Unlocking(t)'
        BY <3>1 DEF Unlocking
      <4>2. \A s \in Tasks : req[s].status = "LOCKED" => s = t \/ task[s] = "LOCKED" \/ s \in torn
        BY MoneyPlaced
      <4>3. QED
        BY <2>2, <3>1, <4>1, <4>2 DEF Backed
    <3>4. \E v \in Workers : job'[v].pc = "reopen" /\ job'[v].on = t
      BY <3>1
    <3>5. \A q \in Pools : Charge'[q][t] = 0
      BY <1>2, <3>4 DEF Charge, At
    <3>6. \A v \in Workers : At(v, "reopen") \/ At(v, "reopen")' =>
            job[v].on = t /\ job'[v].on \in {t, NoTask}
      BY <1>1, <3>1
    <3>7. Charge' = [Charge EXCEPT ![p][t] = 0]
      BY <1>2, <1>3, <2>4, <3>1, <3>5, <3>6, MovedCharge
    <3>8. QED
      BY <2>5, <3>2, <3>3, <3>7 DEF Kept
  <2>8. QED
    BY <1>10, <2>6, <2>7
<1>11. CASE ReopenRequest(w)
  <2>1. job[w].pc = "reopen" /\ req[t].status = "LOCKED"
    BY <1>1, <1>11 DEF ReopenRequest, At, UpToDate
  <2>2. /\ req' = [req EXCEPT ![t].status = "APPROVED"] /\ job'[w].pc = "idle"
        /\ torn' = torn \ {t} /\ UNCHANGED <<task, used, spoilt>>
    BY <1>11, FinishFrame DEF ReopenRequest
  <2>3. req'[t].status = "APPROVED" /\ \A s \in Tasks \ {t} : req'[s] = req[s]
    BY <1>2, <2>2 DEF TypeOK, Rows
  <2>4. UpToDate(w)'
    BY <2>2 DEF UpToDate
  <2>5. \A s \in Tasks : Backed(s)'
    BY <2>2, <2>3, MoneyPlaced DEF Backed
  <2>6. /\ \A s \in Tasks : (\E v \in Workers : At(v, "reopen") /\ job[v].on = s) <=> s = t
        /\ ~(\E v \in Workers : At(v, "reopen"))'
    BY <1>1, <2>1, <2>2 DEF At
  <2>7. Charge = [q \in Pools |-> [s \in Tasks |->
          IF req[s].status = "LOCKED" /\ req[s].pool = q /\ s # t THEN req[s].amount ELSE 0]]
    BY <2>6 DEF Charge
  <2>8. Charge' = [q \in Pools |-> [s \in Tasks |->
          IF req'[s].status = "LOCKED" /\ req'[s].pool = q THEN req'[s].amount ELSE 0]]
    BY <2>6 DEF Charge
  <2>9. Charge' = Charge
    BY <2>3, <2>7, <2>8
  <2>10. QED
    BY <2>2, <2>4, <2>5, <2>9 DEF Kept, Ledger!ledgerVars
<1>12. QED
  BY <1>5, <1>6, <1>7, <1>8, <1>9, <1>10, <1>11

\* Every step of the system keeps all of it.
LEMMA SequentialStep ==
  ASSUME OneAtATime, TypeOK, TypeOK', Placed, SequentialInv, [Next]_vars
  PROVE  SequentialInv' /\ [Ledger!Next]_(Ledger!ledgerVars)
<1>1. CASE UNCHANGED vars
  <2>1. Charge' = Charge /\ used' = used /\ spoilt' = spoilt
    BY <1>1 DEF vars, Charge, At
  <2>2. Ledger!Balanced'
    BY <2>1 DEF SequentialInv, Ledger!Balanced, Ledger!Cost
  <2>3. SequentialInv'
    BY <1>1, <2>2 DEF vars, SequentialInv, UpToDate, Unlocking
  <2>4. QED
    BY <2>1, <2>3 DEF Ledger!ledgerVars
<1>2. ASSUME NEW w \in Workers, Call(w) \/ Step(w) \/ Crash(w)
      PROVE  SequentialInv' /\ [Ledger!Next]_(Ledger!ledgerVars)
  <2>1. Kept(w)
    BY <1>2, SequentialCall, SequentialTask, SequentialRows, SequentialSave, SequentialPool,
       SequentialCrash DEF Step
  <2>2. Ledger!Balanced'
    BY <2>1, BalancedStep DEF Kept, SequentialInv
  <2>3. \A v \in Workers : v = w
    BY DEF OneAtATime
  <2>4. QED
    BY <2>1, <2>2, <2>3 DEF Kept, Backed, SequentialInv
<1>3. QED
  BY <1>1, <1>2 DEF Next

\* Nothing is charged before the first handler.
LEMMA SequentialInit ==
  ASSUME Init
  PROVE  SequentialInv /\ Ledger!Init
<1>1. \A t \in Tasks : req[t].status # "LOCKED"
  BY LockingAssumption DEF Init
<1>2. Charge = [p \in Pools |-> [t \in Tasks |-> 0]] /\ used = [p \in Pools |-> 0] /\ spoilt = {}
  BY <1>1 DEF Charge, Init
<1>3. \A p \in Pools : Ledger!Cost(p) = 0
  BY <1>2, SumZero DEF Ledger!Cost, SumOf
<1>4. \A w \in Workers : UpToDate(w)
  BY DEF Init, UpToDate, Idle
<1>5. Ledger!Balanced
  BY <1>2, <1>3, LockingAssumption DEF Ledger!Balanced
<1>6. QED
  BY <1>1, <1>2, <1>4, <1>5 DEF SequentialInv, Ledger!Init

\* Served one at a time, with workers that may die, the handlers keep the books:
\* used_amount of a pool is what the charges add up to and within its total,
\* whatever the tasks, amounts, pools and the order of the calls, until a LOCKED
\* request is given another amount or pool, or an unlock breaks off in its midst.
THEOREM BooksBalance == OneAtATime => (Spec => []SequentialInv)
<1> SUFFICES ASSUME OneAtATime PROVE Spec => []SequentialInv
  OBVIOUS
<1>1. Init => SequentialInv
  BY SequentialInit
<1>2. TypeOK /\ TypeOK' /\ Placed /\ SequentialInv /\ [Next]_vars => SequentialInv'
  BY SequentialStep
<1>3. QED
  BY <1>1, <1>2, TypeCorrect, PTL DEF Spec

\* Served one at a time, no sequence of handlers, whole or broken off, strands a
\* deduction on a task that is not LOCKED, but for an unlock that breaks off.
THEOREM MoneyStaysWithTask == OneAtATime => (Spec => []MoneyFollowsTask)
<1> SUFFICES ASSUME OneAtATime PROVE Spec => []MoneyFollowsTask
  OBVIOUS
<1>1. SequentialInv => MoneyFollowsTask
  BY DEF SequentialInv, Unlocking, MoneyFollowsTask, AtRest, At
<1>2. QED
  BY <1>1, BooksBalance, PTL

\* Served one at a time, no deduction and no refund is lost: the books that two
\* workers can unbalance (UsedMatchesLocked) are right after every handler.
THEOREM NothingLost == OneAtATime => (Spec => []UsedMatchesLocked)
<1> SUFFICES ASSUME OneAtATime PROVE Spec => []UsedMatchesLocked
  OBVIOUS
<1>1. SequentialInv => UsedMatchesLocked
  BY DEF SequentialInv, UsedMatchesLocked, Ledger!Balanced
<1>2. QED
  BY <1>1, BooksBalance, PTL

\* Served one at a time, the handlers implement the ledger: each of their steps
\* charges one affordable request, gives one charge back in full, leaves the
\* ledger as it is, or concerns a pool whose books were spoilt.
THEOREM ImplementsLedger == OneAtATime => (Spec => LedgerSpec)
<1> SUFFICES ASSUME OneAtATime PROVE Spec => LedgerSpec
  OBVIOUS
<1>1. Init => Ledger!Init
  BY SequentialInit
<1>2. TypeOK /\ TypeOK' /\ Placed /\ SequentialInv /\ [Next]_vars =>
        [Ledger!Next]_(Ledger!ledgerVars)
  BY SequentialStep
<1>3. QED
  BY <1>1, <1>2, TypeCorrect, BooksBalance, PTL DEF Spec, LedgerSpec, Ledger!Spec

===============================================================================
