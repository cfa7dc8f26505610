---------------------------- MODULE TaskApproval ----------------------------
(***************************************************************************)
(* The approval of one budget task: who decides which step of its approval *)
(* chain, and how the linked budget request keeps up.                      *)
(*                                                                         *)
(* Task and request hold the same story twice.  make_approval decides on   *)
(* the task in one transaction that locks the task row, and brings the     *)
(* request up to date afterwards, in a second transaction of its own; the  *)
(* other handlers read the task, save the whole row back, and then write   *)
(* the request.  Several workers run handlers at the same time, so any     *)
(* handler of another worker may fall between these steps.                 *)
(*                                                                         *)
(* The pool and its locks are the business of BudgetLocking.               *)
(***************************************************************************)
EXTENDS Integers, Sequences, FiniteSets, FiniteSetsExt

CONSTANTS
  Users,     \* the people who call handlers
  NoUser,    \* no approver assigned
  Owner,     \* owner of the task
  Drafted,   \* whom the task form may name as approver of the draft
  Chain,     \* Chain[k]: approver of step k; empty when none is configured
  Required,  \* effective_required_approvals of the chain
  Admins,    \* org-admins of the organisation of the request
  Supers,    \* superusers
  Workers,   \* concurrent requests the web tier serves
  Ops,       \* the handlers clients call
  MaxRound,  \* bound: revision rounds explored
  MaxRecords \* bound: approval records explored

Handlers ==
  {"submit", "review", "approve", "reject", "revise", "forward", "lock", "unlock",
   "cancel", "assign", "review_request", "decide_request", "assign_request", "crash"}

Statuses ==
  {"DRAFT", "SUBMITTED", "UNDER_REVIEW", "APPROVED", "REJECTED", "LOCKED", "CANCELLED"}

ASSUME ApprovalAssumption ==
  /\ NoUser \notin Users
  /\ Owner \in Users
  /\ Drafted \subseteq Users \cup {NoUser}
  /\ Chain \in Seq(Users)
  /\ Required \in Nat
  /\ Admins \subseteq Users
  /\ Supers \subseteq Users
  /\ Ops \subseteq Handlers
  /\ MaxRound \in Nat
  /\ MaxRecords \in Nat

VARIABLES
  task,      \* the task row
  req,       \* the budget request row
  records,   \* the approval records of the task, oldest first
  job        \* job[w]: the handler worker w runs and what it has read

rows == <<task, req, records>>
vars == <<task, req, records, job>>

-------------------------------------------------------------------------------
(* Rows and records.                                                       *)

Person == Users \cup {NoUser}

\* step 0 is a null current_approval_step; chained, whether approval_chain is set.
TaskRow == [status : Statuses, approver : Person, step : Nat, round : Nat, chained : BOOLEAN]

RequestRow == [status : Statuses, approver : Person]

\* The replaced_step of the override marker in a record's comment: a step, 0
\* when the marker names none, NoMark when the comment has no marker.
NoMark == -1

Record == [step : Nat, round : Nat, by : Users, ok : BOOLEAN, replaced : Nat \cup {NoMark}]

Indices == DOMAIN records

ApprovedCount == Cardinality({i \in Indices : records[i].ok})

\* unique_together on ApprovalRecord.
Taken(step, round) == \E i \in Indices : records[i].step = step /\ records[i].round = round

LastStep == Max({records[i].step : i \in Indices} \cup {0})

\* infer_replaced_step: the newest marker on any record, else the current step.
ReplacedStep ==
  LET marked == {i \in Indices : records[i].replaced # NoMark}
      newest == records[Max(marked)].replaced
  IN  IF marked # {} /\ newest # 0 THEN newest ELSE task.step

-------------------------------------------------------------------------------
(* Who may do what.                                                        *)

\* user_may_process_budget_approval, on the request as it stands.
MayProcess(u) == u \in Supers \/ u = req.approver \/ u \in Admins

IsOverride(u) == u \in Admins /\ u # req.approver

IsApprover(u) == task.approver = u

\* Mutant: the caller is not compared with the approver.
ApproverUnchecked(u) == TRUE

ApproverOrOpen(u) == task.approver \in {u, NoUser}

\* The statuses of the task that a handler accepts.
Sources(o) ==
  CASE o = "submit" -> {"DRAFT"}
    [] o = "review" -> {"SUBMITTED"}
    [] o = "revise" -> {"REJECTED", "CANCELLED"}
    [] o = "unlock" -> {"LOCKED"}
    [] o = "cancel" -> {"SUBMITTED", "UNDER_REVIEW", "APPROVED", "REJECTED"}
    [] o = "assign" -> Statuses \ {"LOCKED"}
    [] OTHER        -> {"APPROVED"}

\* The checks a handler makes on its caller; revise and forward make none.
Permitted(o, u) ==
  CASE o = "submit" -> u = Owner
    [] o \in {"review", "lock", "unlock"} -> ApproverOrOpen(u)
    [] o = "assign" -> u = Owner \/ IsApprover(u)
    [] o = "cancel" -> IF task.status = "SUBMITTED" THEN u = Owner \/ IsApprover(u)
                                                    ELSE ApproverOrOpen(u)
    [] OTHER        -> TRUE

\* lock wants enough approvals on record and an approved request.
Lockable ==
  /\ task.chained => ApprovedCount >= Required
  /\ req.status = "APPROVED"

-------------------------------------------------------------------------------
(* Workers.  A job holds the handler (op) and its caller (by), the copy of *)
(* the task row it read (row), and for a decision its outcome (ok), where  *)
(* it sends the request next (next, nextStep), the approver it saw         *)
(* (expected), whether it overrides the chain (over) and which step.       *)

Points == {"idle", "save_task", "sync", "drop_records", "judge", "decide"}

NoRow == [status |-> "DRAFT", approver |-> NoUser, step |-> 0, round |-> 0, chained |-> FALSE]

Idle ==
  [op |-> "none", by |-> NoUser, pc |-> "idle", row |-> NoRow, ok |-> FALSE, next |-> NoUser,
   nextStep |-> 0, expected |-> NoUser, over |-> FALSE, replaced |-> 0]

Jobs ==
  [op : Handlers \cup {"none"}, by : Person, pc : Points, row : TaskRow, ok : BOOLEAN,
   next : Person, nextStep : Nat, expected : Person, over : BOOLEAN, replaced : Nat]

TypeOK ==
  /\ task \in TaskRow
  /\ req \in RequestRow
  /\ records \in Seq(Record)
  /\ job \in [Workers -> Jobs]

\* The task form creates the draft with an approver or with none; the budget
\* details are saved while it is a draft, with the same approver.
Init ==
  /\ \E a \in Drafted :
       /\ task = [NoRow EXCEPT !.approver = a]
       /\ req = [status |-> "DRAFT", approver |-> a]
  /\ records = <<>>
  /\ job = [w \in Workers |-> Idle]

At(w, p) == job[w].pc = p

Goto(w, p) == job' = [job EXCEPT ![w].pc = p]

Finish(w) == job' = [job EXCEPT ![w] = Idle]

-------------------------------------------------------------------------------
(* The handlers of task/views.py that read the row and save it back.       *)

\* get_object and the checks on the row it returns, under no lock.
ReadTask(w, u, o) ==
  /\ o \in Ops \cap {"submit", "review", "revise", "forward", "lock", "unlock", "cancel", "assign"}
  /\ At(w, "idle")
  /\ task.status \in Sources(o)
  /\ Permitted(o, u)
  /\ o = "lock" => Lockable
  /\ o = "revise" => task.round < MaxRound
  /\ \E n \in IF o \in {"forward", "assign"} THEN Users ELSE {NoUser} :
       job' = [job EXCEPT ![w] =
                 [Idle EXCEPT !.op = o, !.by = u, !.pc = "save_task", !.row = task, !.next = n]]
  /\ UNCHANGED rows

\* start_review: a task without a chain gets the configured one, at step 1; an
\* approver it already has stays.
Reviewed(row) ==
  IF row.chained \/ Chain = <<>>
    THEN [row EXCEPT !.status = "UNDER_REVIEW"]
    ELSE [row EXCEPT !.status = "UNDER_REVIEW", !.chained = TRUE, !.step = 1,
                     !.approver = IF row.approver = NoUser THEN Chain[1] ELSE row.approver]

\* Mutants: the round is not opened; the round is counted down.
RevisedSameRound(row) == [row EXCEPT !.status = "DRAFT"]

RevisedRoundDown(row) == [row EXCEPT !.status = "DRAFT", !.round = row.round - 1]

\* revise opens a new round and keeps the chain and the step.
Revised(row) == [row EXCEPT !.status = "DRAFT", !.round = row.round + 1]

\* What the handler of worker w makes of the row it read.
SavedRow(w) ==
  LET row == job[w].row
      o   == job[w].op
  IN
  CASE o = "submit"  -> [row EXCEPT !.status = "SUBMITTED"]
    [] o = "review"  -> Reviewed(row)
    [] o = "revise"  -> Revised(row)
    [] o = "forward" -> [row EXCEPT !.status = "UNDER_REVIEW", !.approver = job[w].next]
    [] o = "lock"    -> [row EXCEPT !.status = "LOCKED"]
    [] o = "unlock"  -> [row EXCEPT !.status = "APPROVED"]
    [] o = "cancel"  -> [row EXCEPT !.status = "CANCELLED"]
    [] OTHER         -> [row EXCEPT !.approver = job[w].next]

\* task.save() writes the whole row, whatever it has become since it was read.
SaveTask(w) ==
  /\ At(w, "save_task")
  /\ task' = SavedRow(w)
  /\ IF job[w].op \in {"review", "forward", "assign"} THEN Finish(w) ELSE Goto(w, "sync")
  /\ UNCHANGED <<req, records>>

\* The request after the synchronising part of a handler.  Locking it may fail
\* for want of budget, which the handler only logs.
SyncedRequests(o) ==
  CASE o = "submit" /\ req.status = "DRAFT" -> {[req EXCEPT !.status = "SUBMITTED"]}
    [] o = "revise" /\ req.status \in {"CANCELLED", "REJECTED"} ->
         {[status |-> "DRAFT", approver |-> NoUser]}
    [] o = "lock" /\ req.status = "APPROVED" -> {req, [req EXCEPT !.status = "LOCKED"]}
    [] o = "unlock" /\ req.status = "LOCKED" -> {[req EXCEPT !.status = "APPROVED"]}
    [] o = "cancel" -> {[req EXCEPT !.status = "CANCELLED"]}
    [] OTHER -> {req}

SyncRequest(w) ==
  /\ At(w, "sync")
  /\ req' \in SyncedRequests(job[w].op)
  /\ IF job[w].op = "cancel" THEN Goto(w, "drop_records") ELSE Finish(w)
  /\ UNCHANGED <<task, records>>

\* The last statement of cancel.
DropRecords(w) ==
  /\ At(w, "drop_records")
  /\ records' = <<>>
  /\ Finish(w)
  /\ UNCHANGED <<task, req>>

-------------------------------------------------------------------------------
(* make_approval.                                                          *)

\* Mutants: a rejection moves the task on as well; the last step is left out.
AdvancesAnyway(ok) == task.chained /\ task.step # 0 /\ task.step < Len(Chain)

AdvancesShort(ok) == ok /\ task.chained /\ task.step # 0 /\ task.step + 1 < Len(Chain)

\* An approval moves the task on while its chain has a further step.
Advances(ok) == ok /\ task.chained /\ task.step # 0 /\ task.step < Len(Chain)

\* The transaction: lock the task row, check it again, decide, record the
\* decision, advance along the chain.  A record whose (step, round) is taken
\* is an IntegrityError, and the transaction is as if it had never begun.
MakeApproval(w, u, ok) ==
  LET step == IF task.step # 0 THEN task.step ELSE Len(records) + 1
      over == task.approver \notin {u, NoUser} /\ IsOverride(u)
  IN
  /\ (IF ok THEN "approve" ELSE "reject") \in Ops
  /\ At(w, "idle")
  /\ Len(records) < MaxRecords
  /\ task.status = "UNDER_REVIEW"
  /\ ApproverOrOpen(u) \/ MayProcess(u)
  /\ ~Taken(step, task.round)
  /\ records' = Append(records,
       [step |-> step, round |-> task.round, by |-> u, ok |-> ok,
        replaced |-> IF over THEN step ELSE NoMark])
  /\ task' = IF Advances(ok)
               THEN [task EXCEPT !.approver = Chain[task.step + 1], !.step = task.step + 1]
               ELSE [task EXCEPT !.status = IF ok THEN "APPROVED" ELSE "REJECTED"]
  /\ job' = [job EXCEPT ![w] =
       [Idle EXCEPT !.op = IF ok THEN "approve" ELSE "reject", !.by = u, !.pc = "judge", !.ok = ok,
                    !.next = IF Advances(ok) THEN Chain[task.step + 1] ELSE NoUser]]
  /\ UNCHANGED req

-------------------------------------------------------------------------------
(* process_approval: the budget request's own decision.                    *)

\* The step an override continues the chain from, and the step after it.
BaseStep == IF ReplacedStep = 0 THEN 1 ELSE ReplacedStep

ChainGoesOn == task.chained /\ BaseStep < Len(Chain)

\* Mutant: the next approver is not handed on to the transaction.
JudgedForgetful(w, o, u, ok, next) ==
  job' = [job EXCEPT ![w] =
    [Idle EXCEPT !.op = o, !.by = u, !.pc = "decide", !.ok = ok, !.expected = req.approver]]

\* The checks before the transaction, on the request just read, and the
\* snapshot of what the caller means to act on.
Judged(w, o, u, ok, next) ==
  LET over == IsOverride(u)
      jump == over /\ ok
  IN
  job' = [job EXCEPT ![w] =
    [Idle EXCEPT
       !.op = o, !.by = u, !.pc = "decide", !.ok = ok, !.over = over,
       !.expected = req.approver,
       !.replaced = IF over THEN ReplacedStep ELSE 0,
       !.next = IF ~jump THEN next ELSE IF ChainGoesOn THEN Chain[BaseStep + 1] ELSE NoUser,
       !.nextStep = IF jump /\ ChainGoesOn THEN BaseStep + 1 ELSE 0]]

\* The synchronising part of make_approval reads the request, starts its
\* review if nobody has, and goes on to process_approval, whose refusals are
\* only logged.
JudgeRequest(w) ==
  LET shown == IF req.status = "SUBMITTED" THEN "UNDER_REVIEW" ELSE req.status IN
  /\ At(w, "judge")
  /\ req' = [req EXCEPT !.status = shown]
  /\ IF shown = "UNDER_REVIEW" /\ MayProcess(job[w].by)
       THEN Judged(w, job[w].op, job[w].by, job[w].ok, job[w].next)
       ELSE Finish(w)
  /\ UNCHANGED <<task, records>>

\* PATCH on the decision endpoint; the client may name the next approver.
CallDecide(w, u, ok, next) ==
  /\ "decide_request" \in Ops
  /\ At(w, "idle")
  /\ Len(records) < MaxRecords
  /\ req.status = "UNDER_REVIEW"
  /\ MayProcess(u)
  /\ Judged(w, "decide_request", u, ok, next)
  /\ UNCHANGED rows

\* Under the lock on the request, it is still under review and at the step the
\* caller acted on; a superuser is exempt from the second.
StillMine(w) ==
  /\ req.status = "UNDER_REVIEW"
  /\ \/ job[w].by \in Supers
     \/ req.approver = (IF job[w].over THEN job[w].expected ELSE job[w].by)

\* The transaction: decide, forward, and for an override move the task along
\* the chain and write the audit record, numbered after the last one.
DecideRequest(w) ==
  LET j == job[w] IN
  /\ At(w, "decide")
  /\ Finish(w)
  /\ IF ~StillMine(w)
       THEN UNCHANGED rows
       ELSE /\ req' = IF ~j.ok THEN [req EXCEPT !.status = "REJECTED"]
                      ELSE IF j.next = NoUser THEN [req EXCEPT !.status = "APPROVED"]
                      ELSE [req EXCEPT !.approver = j.next]
            /\ task' = IF j.over /\ j.nextStep # 0
                         THEN [task EXCEPT !.approver = j.next, !.step = j.nextStep]
                         ELSE task
            /\ records' = IF j.over
                            THEN Append(records,
                                   [step |-> LastStep + 1, round |-> task.round, by |-> j.by,
                                    ok |-> j.ok, replaced |-> j.replaced])
                            ELSE records

-------------------------------------------------------------------------------
(* The other endpoints of the budget request.                              *)

\* Object permission leaves start-review to superusers.
ReviewRequest(u) ==
  /\ "review_request" \in Ops
  /\ u \in Supers
  /\ req.status = "SUBMITTED"
  /\ req' = [req EXCEPT !.status = "UNDER_REVIEW"]
  /\ UNCHANGED <<task, records, job>>

\* PATCH of current_approver, which the serializer accepts at any status.
AssignRequest(a) ==
  /\ "assign_request" \in Ops
  /\ req' = [req EXCEPT !.approver = a]
  /\ UNCHANGED <<task, records, job>>

\* A worker dies; every transaction above is a single step, so what is lost
\* is the rest of its handler.
Crash(w) ==
  /\ "crash" \in Ops
  /\ ~At(w, "idle")
  /\ Finish(w)
  /\ UNCHANGED rows

Step(w) ==
  SaveTask(w) \/ SyncRequest(w) \/ DropRecords(w) \/ JudgeRequest(w) \/ DecideRequest(w)

Call(w, u) ==
  \/ \E o \in Ops : ReadTask(w, u, o)
  \/ \E ok \in BOOLEAN : MakeApproval(w, u, ok)
  \/ \E ok \in BOOLEAN, next \in Person : CallDecide(w, u, ok, next)

Next ==
  \/ \E w \in Workers : (\E u \in Users : Call(w, u)) \/ Step(w) \/ Crash(w)
  \/ \E u \in Users : ReviewRequest(u) \/ AssignRequest(u)

Spec == Init /\ [][Next]_vars

-------------------------------------------------------------------------------
(* Properties.                                                             *)

AtRest == \A w \in Workers : At(w, "idle")

\* Every step of the chain before step s has an approval on record.
ApprovedBefore(s) ==
  \A k \in 1 .. s - 1 : \E i \in Indices : records[i].step = k /\ records[i].ok

\* However handlers interleave, and whatever stale row a handler saves over
\* the task, the task never stands at a step of its chain while an earlier
\* step was never approved.
NoStepSkipped == task.chained => ApprovedBefore(task.step)

\* A task that is approved or locked was approved at the last step of its
\* chain (views.py: "chain is complete").
ChainComplete ==
  task.chained /\ task.status \in {"APPROVED", "LOCKED"} => ApprovedBefore(Len(Chain) + 1)

\* Every decision on a step of the chain is by the approver of that step.
OwnStepOnly ==
  \A i \in Indices :
    LET k == records[i].step IN k \in DOMAIN Chain => records[i].by = Chain[k]

\* Between handlers, in the first round, the request says what the task says:
\* approved with it, and once past step 1 waiting for the same approver.
RequestFollowsTask ==
  AtRest /\ task.round = 0 =>
    /\ task.status \in {"APPROVED", "LOCKED"} => req.status \in {"APPROVED", "LOCKED"}
    /\ task.status = "UNDER_REVIEW" /\ task.step > 1
         => req = [status |-> "UNDER_REVIEW", approver |-> task.approver]

\* A task under review has room for the record its approver is about to make.
SlotFree ==
  AtRest /\ task.status = "UNDER_REVIEW" /\ task.step # 0 => ~Taken(task.step, task.round)

-------------------------------------------------------------------------------
(* Why NoStepSkipped and ChainComplete hold.                               *)

\* Nobody overrides the chain, and nobody deletes its records.
RecordsOnlyGrow == Admins = {} /\ "cancel" \notin Ops

\* A row, in the table or in the hands of a handler, is backed by the records.
Backed(row) ==
  row.chained =>
    /\ row.step \in 1 .. Len(Chain)
    /\ ApprovedBefore(row.step)
    /\ row.status \in {"APPROVED", "LOCKED"} => ApprovedBefore(Len(Chain) + 1)

\* lock and unlock hold a row that was approved, and no handler overrides.
JobBacked(w) ==
  /\ job[w].op # "cancel"
  /\ ~At(w, "drop_records")
  /\ ~job[w].over
  /\ Backed(job[w].row)
  /\ At(w, "save_task") /\ job[w].op \in {"lock", "unlock"}
       => job[w].row.status \in {"APPROVED", "LOCKED"}

ChainInv == Backed(task) /\ \A w \in Workers : JobBacked(w)

-------------------------------------------------------------------------------
(* Why OwnStepOnly, RequestFollowsTask and SlotFree hold.                  *)

\* What the task page offers, served one request at a time, for a task drafted
\* for the first approver of its chain; nobody stands above the chain.
ByThePage ==
  /\ \E w \in Workers : \A v \in Workers : v = w
  /\ Ops \subseteq {"submit", "review", "approve", "reject", "revise", "lock", "unlock", "cancel"}
  /\ Admins = {} /\ Supers = {}
  /\ Chain # <<>> /\ Drafted \subseteq {Chain[1]}

\* The task waits for the approver of the step it stands at, and has its chain
\* from the first review on.
OnChain ==
  IF task.chained
    THEN /\ task.step \in DOMAIN Chain /\ task.approver = Chain[task.step]
         /\ task.round = 0 => task.status \notin {"DRAFT", "SUBMITTED"}
    ELSE /\ task.step = 0 /\ task.approver = Chain[1]
         /\ task.status \in {"DRAFT", "SUBMITTED", "CANCELLED"}

\* The records end before the step the task waits at in its round.
RecordsBehind ==
  \A i \in Indices :
    LET r == records[i] IN
    /\ r.round <= task.round
    /\ task.status \in {"DRAFT", "SUBMITTED"} => r.round < task.round
    /\ task.status = "UNDER_REVIEW" => r.round < task.round \/ r.step < task.step

\* The statuses the request may have while the task has status s.
Following(s) ==
  CASE s = "UNDER_REVIEW" -> {"SUBMITTED", "UNDER_REVIEW"}
    [] s \in {"APPROVED", "LOCKED"} -> {"APPROVED", "LOCKED"}
    [] OTHER -> {s}

\* Only in the first round has the request an approver, that of the task.
SameApprover == req.approver = IF task.round = 0 THEN task.approver ELSE NoUser

Follows ==
  /\ SameApprover
  /\ task.round = 0 =>
       /\ req.status \in Following(task.status)
       /\ task.status = "UNDER_REVIEW" /\ task.step > 1 => req.status = "UNDER_REVIEW"

\* The request while the row that handler o saved has yet to reach it.
Syncing(o) ==
  CASE o = "submit" -> /\ task.status = "SUBMITTED" /\ SameApprover
                       /\ task.round = 0 => req.status = "DRAFT"
    [] o = "lock"   -> task.status = "LOCKED" /\ SameApprover /\ req.status = "APPROVED"
    [] o = "unlock" -> /\ task.status = "APPROVED" /\ SameApprover
                       /\ task.round = 0 => req.status \in {"APPROVED", "LOCKED"}
    [] o = "cancel" -> task.status = "CANCELLED" /\ SameApprover
    [] OTHER        -> /\ o = "revise" /\ task.status = "DRAFT" /\ task.round > 0
                       /\ req.approver = NoUser \/ req.status \in {"REJECTED", "CANCELLED"}

\* What decision j made of the task.
Outcome(j) ==
  /\ ~j.ok => task.status = "REJECTED" /\ task.approver = j.by
  /\ j.ok /\ j.next = NoUser => task.status = "APPROVED" /\ task.approver = j.by
  /\ j.ok /\ j.next # NoUser => task.status = "UNDER_REVIEW" /\ task.approver = j.next

\* The request while worker w has yet to bring it the decision on the task.
Serving(w) ==
  LET j == job[w] IN
  /\ At(w, "idle") => Follows
  /\ At(w, "save_task") =>
       /\ j.op \in {"submit", "review", "revise", "lock", "unlock", "cancel"}
       /\ j.row = task /\ task.status \in Sources(j.op) /\ Follows
       /\ j.op = "lock" => req.status = "APPROVED"
  /\ At(w, "sync") => Syncing(j.op)
  /\ At(w, "drop_records") => task.status = "CANCELLED" /\ Follows
  /\ At(w, "judge") =>
       /\ j.by \in Users /\ Outcome(j)
       /\ IF task.round = 0 THEN req.approver = j.by /\ req.status \in {"SUBMITTED", "UNDER_REVIEW"}
                            ELSE req.approver = NoUser
  /\ At(w, "decide") =>
       /\ ~j.over /\ Outcome(j) /\ task.round = 0
       /\ req = [status |-> "UNDER_REVIEW", approver |-> j.by]

PageInv ==
  /\ OnChain
  /\ RecordsBehind
  /\ OwnStepOnly
  /\ \A w \in Workers : Serving(w)

===============================================================================
