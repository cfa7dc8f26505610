-------------------------- MODULE TaskApprovalProofs --------------------------
(***************************************************************************)
(* Proofs about TaskApproval, for any people, any chain of any length, any *)
(* number of workers, rounds and records.                                  *)
(***************************************************************************)
EXTENDS TaskApproval, WellFoundedInduction, TLAPS

\* An idle worker has a job, and holds no row.
LEMMA IdleJob == Idle \in Jobs /\ Idle.row = NoRow
  BY DEF Idle, Jobs, NoRow, TaskRow, Points, Person, Statuses

\* What a job carries, field by field.
LEMMA JobFacts ==
  ASSUME TypeOK, NEW w \in Workers
  PROVE  /\ job[w] \in Jobs
         /\ job[w].row \in TaskRow
         /\ job[w].next \in Person
         /\ job[w].nextStep \in Nat
  BY DEF TypeOK, Jobs

\* The chain is a sequence of people.
LEMMA ChainFacts ==
  /\ Len(Chain) \in Nat
  /\ \A k \in 1 .. Len(Chain) : Chain[k] \in Users
  BY ApprovalAssumption

-------------------------------------------------------------------------------
(* The rows, the records and the jobs.  The library's induction theorems   *)
(* are stated for a predicate; here a set of naturals stands for it.       *)

\* Induction over the naturals, for a set in place of a predicate.
LEMMA NatSetInduction ==
  ASSUME NEW S \in SUBSET Nat, 0 \in S, \A n \in S : n + 1 \in S
  PROVE  S = Nat
<1> DEFINE R == {ss \in Nat \X Nat : ss[1] < ss[2]}
           T == Nat \ S
<1>1. IsWellFoundedOn(R, Nat)
  BY NatLessThanWellFounded DEF OpToRel
<1>2. SUFFICES ASSUME T # {} PROVE FALSE
  OBVIOUS
<1>3. T \subseteq Nat
  OBVIOUS
<1> HIDE DEF R, T
<1>4. PICK x \in T : \A y \in T : ~(<<y, x>> \in R)
  BY <1>1, <1>2, <1>3, WFMin
<1>5. x \in Nat /\ x # 0 /\ x - 1 \in Nat
  BY DEF T
<1>6. x - 1 \in S
  <2>1. <<x - 1, x>> \in R
    BY <1>5 DEF R
  <2> QED
    BY <2>1, <1>4, <1>5 DEF T
<1> QED
  BY <1>5, <1>6 DEF T

\* A bounded set of naturals that is not empty has a maximum.
LEMMA MaxBounded ==
  ASSUME NEW S \in SUBSET Nat, S # {}, NEW b \in Nat, \A x \in S : x <= b
  PROVE  Max(S) \in S /\ \A x \in S : x <= Max(S)
<1>1. \E m \in S : \A x \in S : m >= x
  <2> SUFFICES ASSUME \A m \in S : \E x \in S : ~(m >= x)
               PROVE  FALSE
    OBVIOUS
  <2> DEFINE N == {n \in Nat : \E x \in S : x > n}
  <2>1. 0 \in N
    <3>1. PICK m \in S : m \in Nat
      OBVIOUS
    <3>2. PICK x \in S : ~(m >= x)
      OBVIOUS
    <3>3. x \in Nat /\ x > 0
      BY <3>1, <3>2
    <3> QED
      BY <3>3
  <2>2. ASSUME NEW n \in N PROVE n + 1 \in N
    <3>1. PICK m \in S : m > n
      OBVIOUS
    <3>2. PICK x \in S : ~(m >= x)
      OBVIOUS
    <3>3. x > n + 1
      BY <3>1, <3>2
    <3> QED
      BY <3>3
  <2>3. N \in SUBSET Nat
    OBVIOUS
  <2> HIDE DEF N
  <2>4. N = Nat
    BY <2>1, <2>2, <2>3, NatSetInduction
  <2>5. PICK x \in S : x > b
    BY <2>4 DEF N
  <2> QED
    BY <2>5
<1> QED
  BY <1>1 DEF Max

\* The step numbers of the records have a maximum, ...
LEMMA LastStepFacts ==
  ASSUME TypeOK
  PROVE  LastStep \in Nat /\ \A i \in Indices : records[i].step <= LastStep
<1>1. records \in Seq(Record) /\ Indices = 1 .. Len(records) /\ Len(records) \in Nat
  BY DEF TypeOK, Indices
<1>2. ASSUME NEW i \in Indices PROVE records[i].step \in Nat
  <2>1. records[i] \in Record
    BY <1>1
  <2> QED
    BY <2>1 DEF Record
<1> DEFINE N == {n \in Nat : \E b \in Nat : \A i \in Indices : i <= n => records[i].step <= b}
           S == {records[i].step : i \in Indices} \cup {0}
<1>3. 0 \in N
  BY <1>1
<1>4. ASSUME NEW n \in N PROVE n + 1 \in N
  <2>1. PICK b \in Nat : \A i \in Indices : i <= n => records[i].step <= b
    OBVIOUS
  <2>2. CASE n + 1 \in Indices
    <3> DEFINE k == records[n + 1].step
               c == IF k <= b THEN b ELSE k
    <3>1. k \in Nat
      BY <1>2, <2>2
    <3> HIDE DEF k
    <3>2. c \in Nat /\ k <= c /\ b <= c
      BY <3>1
    <3>3. ASSUME NEW i \in Indices, i <= n + 1
          PROVE  records[i].step <= c
      <4>1. CASE i = n + 1
        BY <3>2, <4>1 DEF k
      <4>2. CASE i # n + 1
        <5>1. records[i].step <= b /\ records[i].step \in Nat
          BY <1>1, <1>2, <2>1, <3>3, <4>2
        <5> QED
          BY <3>2, <5>1
      <4> QED
        BY <4>1, <4>2
    <3> QED
      BY <3>2, <3>3
  <2>3. CASE n + 1 \notin Indices
    <3>1. \A i \in Indices : i <= n + 1 => i <= n
      BY <1>1, <2>3
    <3> QED
      BY <2>1, <3>1
  <2> QED
    BY <2>2, <2>3
<1>5. N = Nat
  <2>1. N \in SUBSET Nat
    OBVIOUS
  <2> HIDE DEF N
  <2> QED
    BY <1>3, <1>4, <2>1, NatSetInduction
<1>6. PICK b \in Nat : \A i \in Indices : i <= Len(records) => records[i].step <= b
  BY <1>1, <1>5
<1>7. S \in SUBSET Nat /\ S # {} /\ \A x \in S : x <= b
  BY <1>1, <1>2, <1>6
<1>8. Max(S) \in S /\ \A x \in S : x <= Max(S)
  BY <1>7, MaxBounded
<1>9. LastStep = Max(S)
  BY DEF LastStep
<1> QED
  BY <1>7, <1>8, <1>9

\* ... and so have the indices of those that carry a marker.
LEMMA ReplacedStepType ==
  ASSUME TypeOK
  PROVE  ReplacedStep \in Nat
<1> DEFINE marked == {i \in Indices : records[i].replaced # NoMark}
<1>1. records \in Seq(Record) /\ Indices = 1 .. Len(records) /\ Len(records) \in Nat
  BY DEF TypeOK, Indices
<1>2. CASE marked # {}
  <2>1. marked \in SUBSET Nat /\ \A i \in marked : i <= Len(records)
    BY <1>1
  <2>2. Max(marked) \in marked
    BY <1>1, <1>2, <2>1, MaxBounded
  <2>3. records[Max(marked)].replaced \in Nat
    <3> DEFINE m == Max(marked)
    <3>1. m \in Indices /\ records[m].replaced # NoMark
      BY <2>2
    <3> HIDE DEF m
    <3>2. records[m] \in Record
      BY <1>1, <3>1
    <3>3. records[m].replaced \in Nat
      BY <3>1, <3>2 DEF Record
    <3> QED
      BY <3>3 DEF m
  <2> QED
    BY <2>3 DEF ReplacedStep, TypeOK, TaskRow
<1>3. CASE marked = {}
  BY <1>3 DEF ReplacedStep, TypeOK, TaskRow
<1> QED
  BY <1>2, <1>3

\* A handler that runs was called by somebody.
Called == \A w \in Workers : ~At(w, "idle") => job[w].by \in Users

\* A worker that is given a job, with a caller unless it is idle, has one.
LEMMA JobStep ==
  ASSUME TypeOK, Called, NEW w \in Workers, NEW j \in Jobs,
         j.pc # "idle" => j.by \in Users, job' = [job EXCEPT ![w] = j]
  PROVE  job' \in [Workers -> Jobs] /\ Called'
  BY DEF TypeOK, Called, At

\* So it is for a worker that ends its handler or moves on in it.
LEMMA EndOrMove ==
  ASSUME TypeOK, Called, NEW w \in Workers, ~At(w, "idle"),
         Finish(w) \/ \E p \in Points : Goto(w, p)
  PROVE  job' \in [Workers -> Jobs] /\ Called'
<1>1. CASE Finish(w)
  <2>1. Idle \in Jobs /\ Idle.pc = "idle"
    BY IdleJob DEF Idle
  <2> QED
    BY <1>1, <2>1, JobStep DEF Finish
<1>2. ASSUME NEW p \in Points, Goto(w, p)
      PROVE  job' \in [Workers -> Jobs] /\ Called'
  <2> DEFINE j == [job[w] EXCEPT !.pc = p]
  <2>1. j \in Jobs /\ j.by = job[w].by
    BY JobFacts DEF Jobs
  <2>2. j.by \in Users
    BY <2>1 DEF Called
  <2>3. job' = [job EXCEPT ![w] = j]
    BY <1>2 DEF Goto, TypeOK
  <2> QED
    BY <2>1, <2>2, <2>3, JobStep
<1> QED
  BY <1>1, <1>2

\* What process_approval takes into its transaction is of its type.
LEMMA JudgedType ==
  ASSUME TypeOK, Called, NEW w \in Workers, NEW o \in Handlers \cup {"none"}, NEW u \in Users,
         NEW ok \in BOOLEAN, NEW next \in Person, Judged(w, o, u, ok, next)
  PROVE  job' \in [Workers -> Jobs] /\ Called'
<1> DEFINE over == IsOverride(u)
           jump == over /\ ok
           r == IF over THEN ReplacedStep ELSE 0
           n == IF ~jump THEN next ELSE IF ChainGoesOn THEN Chain[BaseStep + 1] ELSE NoUser
           s == IF jump /\ ChainGoesOn THEN BaseStep + 1 ELSE 0
           j == [Idle EXCEPT !.op = o, !.by = u, !.pc = "decide", !.ok = ok, !.over = over,
                             !.expected = req.approver, !.replaced = r, !.next = n,
                             !.nextStep = s]
<1>1. r \in Nat
  BY ReplacedStepType
<1>2. BaseStep \in Nat /\ BaseStep >= 1
  BY ReplacedStepType DEF BaseStep
<1>3. s \in Nat
  BY <1>2
<1>4. n \in Person
  <2>1. ChainGoesOn => BaseStep + 1 \in 1 .. Len(Chain)
    BY <1>2, ChainFacts DEF ChainGoesOn
  <2>2. ChainGoesOn => Chain[BaseStep + 1] \in Users
    BY <2>1, ChainFacts
  <2> QED
    BY <2>2 DEF Person
<1>5. over \in BOOLEAN /\ req.approver \in Person
  BY DEF IsOverride, TypeOK, RequestRow
<1>6. job' = [job EXCEPT ![w] = j]
  BY DEF Judged
<1> HIDE DEF r, n, s, over
<1>7. j \in Jobs
  BY <1>1, <1>3, <1>4, <1>5, IdleJob DEF Jobs, Idle, Points, Person
<1>8. j.by = u
  BY DEF Idle
<1> HIDE DEF j
<1> QED
  BY <1>6, <1>7, <1>8, JobStep

\* Whatever a handler saves over the task is a task row.
LEMMA SavedType ==
  ASSUME TypeOK, NEW w \in Workers
  PROVE  SavedRow(w) \in TaskRow
<1> DEFINE row == job[w].row
<1>1. /\ row \in TaskRow /\ row.step \in Nat /\ row.round \in Nat /\ row.approver \in Person
      /\ row.chained \in BOOLEAN /\ row.status \in Statuses /\ job[w].next \in Person
  BY JobFacts DEF TaskRow
<1>2. Reviewed(row) \in TaskRow
  <2>1. CASE row.chained \/ Chain = <<>>
    BY <1>1, <2>1 DEF Reviewed, TaskRow, Statuses
  <2>2. CASE ~(row.chained \/ Chain = <<>>)
    <3>1. Chain[1] \in Person
      BY <2>2, ApprovalAssumption DEF Person
    <3> QED
      BY <1>1, <2>2, <3>1 DEF Reviewed, TaskRow, Statuses
  <2> QED
    BY <2>1, <2>2
<1>3. Revised(row) \in TaskRow
  <2>1. "DRAFT" \in Statuses /\ row.round + 1 \in Nat
    BY <1>1 DEF Statuses
  <2> QED
    BY <1>1, <2>1 DEF Revised, TaskRow
<1>4. \A s \in Statuses : [row EXCEPT !.status = s] \in TaskRow
  BY <1>1 DEF TaskRow
<1>5. [row EXCEPT !.status = "UNDER_REVIEW", !.approver = job[w].next] \in TaskRow
  BY <1>1 DEF TaskRow, Statuses
<1>6. [row EXCEPT !.approver = job[w].next] \in TaskRow
  BY <1>1 DEF TaskRow
<1> QED
  BY <1>2, <1>3, <1>4, <1>5, <1>6 DEF SavedRow, Statuses

\* Every call keeps the types.
LEMMA CallType ==
  ASSUME TypeOK, Called, NEW w \in Workers, NEW u \in Users, Call(w, u)
  PROVE  TypeOK' /\ Called'
<1>1. ASSUME NEW o \in Ops, ReadTask(w, u, o)
      PROVE  TypeOK' /\ Called'
  <2>1. PICK n \in Person : job' = [job EXCEPT ![w] =
          [Idle EXCEPT !.op = o, !.by = u, !.pc = "save_task", !.row = task, !.next = n]]
    BY <1>1 DEF ReadTask, Person
  <2> DEFINE j == [Idle EXCEPT !.op = o, !.by = u, !.pc = "save_task", !.row = task, !.next = n]
  <2>2. j \in Jobs /\ j.by = u
    BY IdleJob, ApprovalAssumption DEF Jobs, TypeOK, Idle, Points, Person
  <2>3. job' \in [Workers -> Jobs] /\ Called'
    BY <2>1, <2>2, JobStep
  <2> QED
    BY <1>1, <2>3 DEF ReadTask, TypeOK, rows
<1>2. ASSUME NEW ok \in BOOLEAN, MakeApproval(w, u, ok)
      PROVE  TypeOK' /\ Called'
  <2> DEFINE step == IF task.step # 0 THEN task.step ELSE Len(records) + 1
             over == task.approver \notin {u, NoUser} /\ IsOverride(u)
             r == [step |-> step, round |-> task.round, by |-> u, ok |-> ok,
                   replaced |-> IF over THEN step ELSE NoMark]
             n == IF Advances(ok) THEN Chain[task.step + 1] ELSE NoUser
             j == [Idle EXCEPT !.op = IF ok THEN "approve" ELSE "reject", !.by = u,
                               !.pc = "judge", !.ok = ok, !.next = n]
  <2>1. /\ records' = Append(records, r)
        /\ task' = IF Advances(ok)
                     THEN [task EXCEPT !.approver = Chain[task.step + 1], !.step = task.step + 1]
                     ELSE [task EXCEPT !.status = IF ok THEN "APPROVED" ELSE "REJECTED"]
        /\ job' = [job EXCEPT ![w] = j]
        /\ UNCHANGED req
    BY <1>2 DEF MakeApproval
  <2>2. /\ task.step \in Nat /\ task.round \in Nat /\ task.approver \in Person
        /\ task.chained \in BOOLEAN /\ task \in TaskRow /\ records \in Seq(Record)
    BY DEF TypeOK, TaskRow
  <2>3. r \in Record
    BY <2>2 DEF Record
  <2>4. Advances(ok) => Chain[task.step + 1] \in Person /\ task.step + 1 \in Nat
    BY <2>2, ChainFacts DEF Advances, Person
  <2>5. task' \in TaskRow
    <3>1. CASE Advances(ok)
      BY <2>1, <2>2, <2>4, <3>1 DEF TaskRow
    <3>2. CASE ~Advances(ok)
      BY <2>1, <2>2, <3>2 DEF TaskRow, Statuses
    <3> QED
      BY <3>1, <3>2
  <2>6. n \in Person
    BY <2>4 DEF Person
  <2>7. records' \in Seq(Record)
    BY <2>1, <2>2, <2>3
  <2> HIDE DEF n, r
  <2>8. j \in Jobs /\ j.by = u
    BY <2>6, IdleJob DEF Jobs, Points, Idle, Handlers, Person
  <2>9. job' \in [Workers -> Jobs] /\ Called'
    BY <2>1, <2>8, JobStep
  <2> QED
    BY <2>1, <2>5, <2>7, <2>9 DEF TypeOK
<1>3. ASSUME NEW ok \in BOOLEAN, NEW next \in Person, CallDecide(w, u, ok, next)
      PROVE  TypeOK' /\ Called'
  <2>1. job' \in [Workers -> Jobs] /\ Called'
    BY <1>3, JudgedType DEF CallDecide, Handlers
  <2> QED
    BY <1>3, <2>1 DEF CallDecide, TypeOK, rows
<1> QED
  BY <1>1, <1>2, <1>3 DEF Call

\* Every step of a handler keeps the types.
LEMMA StepType ==
  ASSUME TypeOK, Called, NEW w \in Workers, Step(w)
  PROVE  TypeOK' /\ Called'
<1> USE DEF Points
<1>1. CASE SaveTask(w)
  <2>1. job' \in [Workers -> Jobs] /\ Called'
    BY <1>1, EndOrMove DEF SaveTask, At
  <2> QED
    BY <1>1, <2>1, SavedType DEF SaveTask, TypeOK
<1>2. CASE SyncRequest(w)
  <2>1. job' \in [Workers -> Jobs] /\ Called'
    BY <1>2, EndOrMove DEF SyncRequest, At
  <2>2. req' \in RequestRow
    BY <1>2 DEF SyncRequest, SyncedRequests, RequestRow, TypeOK, Statuses, Person
  <2> QED
    BY <1>2, <2>1, <2>2 DEF SyncRequest, TypeOK
<1>3. CASE DropRecords(w)
  <2>1. job' \in [Workers -> Jobs] /\ Called'
    BY <1>3, EndOrMove DEF DropRecords, At
  <2> QED
    BY <1>3, <2>1 DEF DropRecords, TypeOK
<1>4. CASE JudgeRequest(w)
  <2>1. req' \in RequestRow /\ UNCHANGED <<task, records>>
    BY <1>4 DEF JudgeRequest, RequestRow, TypeOK, Statuses
  <2>2. job[w].by \in Users
    BY <1>4 DEF JudgeRequest, Called, At
  <2>3. job' \in [Workers -> Jobs] /\ Called'
    <3>1. CASE Finish(w)
      BY <1>4, <3>1, EndOrMove DEF JudgeRequest, At
    <3>2. CASE Judged(w, job[w].op, job[w].by, job[w].ok, job[w].next)
      <4>1. job[w].op \in Handlers \cup {"none"} /\ job[w].ok \in BOOLEAN /\ job[w].next \in Person
        BY DEF TypeOK, Jobs
      <4> QED
        BY <2>2, <3>2, <4>1, JudgedType
    <3> QED
      BY <1>4, <3>1, <3>2 DEF JudgeRequest
  <2> QED
    BY <2>1, <2>3 DEF TypeOK
<1>5. CASE DecideRequest(w)
  <2> DEFINE j == job[w]
  <2>1. /\ j.by \in Users /\ j.ok \in BOOLEAN /\ j.next \in Person /\ j.nextStep \in Nat
        /\ j.replaced \in Nat
    BY <1>5 DEF DecideRequest, Called, At, TypeOK, Jobs
  <2>2. job' \in [Workers -> Jobs] /\ Called'
    BY <1>5, EndOrMove DEF DecideRequest, At
  <2>3. req' \in RequestRow
    BY <1>5, <2>1 DEF DecideRequest, rows, RequestRow, TypeOK, Statuses
  <2>4. task' \in TaskRow
    <3>1. [task EXCEPT !.approver = j.next, !.step = j.nextStep] \in TaskRow
      BY <2>1 DEF TypeOK, TaskRow
    <3> QED
      BY <1>5, <3>1 DEF DecideRequest, rows, TypeOK
  <2>5. records' \in Seq(Record)
    <3> DEFINE r == [step |-> LastStep + 1, round |-> task.round, by |-> j.by,
                     ok |-> j.ok, replaced |-> j.replaced]
    <3>1. r \in Record
      BY <2>1, LastStepFacts DEF Record, TypeOK, TaskRow
    <3>2. records' = records \/ records' = Append(records, r)
      BY <1>5 DEF DecideRequest, rows
    <3> HIDE DEF r
    <3> QED
      BY <3>1, <3>2 DEF TypeOK
  <2> QED
    BY <2>2, <2>3, <2>4, <2>5 DEF TypeOK
<1> QED
  BY <1>1, <1>2, <1>3, <1>4, <1>5 DEF Step

\* The draft the task form creates is of its type.
LEMMA InitType ==
  ASSUME Init
  PROVE  TypeOK /\ Called
<1>1. PICK a \in Drafted : /\ task = [NoRow EXCEPT !.approver = a]
                           /\ req = [status |-> "DRAFT", approver |-> a]
  BY DEF Init
<1>2. a \in Person
  BY ApprovalAssumption DEF Person
<1>3. task \in TaskRow /\ req \in RequestRow
  BY <1>1, <1>2 DEF TaskRow, RequestRow, NoRow, Statuses
<1>4. records \in Seq(Record) /\ job \in [Workers -> Jobs]
  BY IdleJob DEF Init
<1> QED
  BY <1>3, <1>4 DEF TypeOK, Called, Init, At, Idle

\* In every state of the system, with any overrides, reassignments, stale rows
\* and dying workers, the rows, the records and the jobs are of their types:
\* each record is by a person, the step numbers an override computes from the
\* records exist, and the step it jumps to has an approver.
THEOREM TypeCorrect == Spec => [](TypeOK /\ Called)
<1>1. Init => TypeOK /\ Called
  BY InitType
<1>2. TypeOK /\ Called /\ [Next]_vars => TypeOK' /\ Called'
  <2> SUFFICES ASSUME TypeOK, Called, [Next]_vars PROVE TypeOK' /\ Called'
    OBVIOUS
  <2>1. CASE UNCHANGED vars
    BY <2>1 DEF vars, TypeOK, Called, At
  <2>2. ASSUME NEW w \in Workers, Crash(w) PROVE TypeOK' /\ Called'
    <3>1. job' \in [Workers -> Jobs] /\ Called'
      BY <2>2, EndOrMove DEF Crash
    <3> QED
      BY <2>2, <3>1 DEF Crash, TypeOK, rows
  <2>3. ASSUME NEW u \in Users, ReviewRequest(u) \/ AssignRequest(u) PROVE TypeOK' /\ Called'
    <3>1. req' \in RequestRow /\ UNCHANGED <<task, records, job>>
      BY <2>3 DEF ReviewRequest, AssignRequest, TypeOK, RequestRow, Statuses, Person
    <3> QED
      BY <3>1 DEF TypeOK, Called, At
  <2> QED
    BY <2>1, <2>2, <2>3, CallType, StepType DEF Next
<1> QED
  BY <1>1, <1>2, PTL DEF Spec

-------------------------------------------------------------------------------
(* The chain, while nobody overrides it and nobody cancels.                *)

\* The records of the next state are those of this one, with at most one more.
Grown == records' = records \/ \E r \in Record : records' = Append(records, r)

\* An approval on record stays on record while records are only added.
LEMMA ApprovalsStay ==
  ASSUME TypeOK, Grown
  PROVE  \A s : ApprovedBefore(s) => ApprovedBefore(s)'
<1>1. /\ records \in Seq(Record)
      /\ DOMAIN records \subseteq DOMAIN records'
      /\ \A i \in DOMAIN records : records'[i] = records[i]
  BY DEF TypeOK, Grown
<1> SUFFICES ASSUME NEW s, ApprovedBefore(s), NEW k \in 1 .. s - 1
             PROVE  \E i \in Indices' : records'[i].step = k /\ records'[i].ok
  BY DEF ApprovedBefore
<1>2. PICK i \in Indices : records[i].step = k /\ records[i].ok
  BY DEF ApprovedBefore
<1> QED
  BY <1>1, <1>2 DEF Indices

\* A row the records back is still backed when a record has been added.
LEMMA BackedStays ==
  ASSUME TypeOK, Grown
  PROVE  \A row : Backed(row) => Backed(row)'
  BY ApprovalsStay DEF Backed

\* A step that gives worker w a backed job, and leaves the task backed.
LEMMA OneJob ==
  ASSUME TypeOK, ChainInv, Grown, NEW w \in Workers,
         \A v \in Workers \ {w} : job'[v] = job[v],
         JobBacked(w)', Backed(task)'
  PROVE  ChainInv'
<1>1. ASSUME NEW v \in Workers \ {w}
      PROVE  JobBacked(v)'
  <2>1. job'[v] = job[v] /\ JobBacked(v)
    BY DEF ChainInv
  <2>2. Backed(job[v].row)'
    BY <2>1, BackedStays DEF JobBacked
  <2> QED
    BY <2>1, <2>2 DEF JobBacked, At
<1> QED
  BY <1>1 DEF ChainInv

\* A worker that ends its handler leaves everything backed, ...
LEMMA FinishStep ==
  ASSUME TypeOK, ChainInv, Grown, NEW w \in Workers, Finish(w), Backed(task)'
  PROVE  ChainInv' /\ job' \in [Workers -> Jobs]
<1>1. /\ job' \in [Workers -> Jobs]
      /\ job'[w] = Idle
      /\ \A v \in Workers \ {w} : job'[v] = job[v]
  BY IdleJob DEF Finish, TypeOK
<1>2. JobBacked(w)'
  BY <1>1 DEF JobBacked, Backed, At, Idle, NoRow
<1> QED
  BY <1>1, <1>2, OneJob

\* ... and so does one that only moves to its next point.
LEMMA GotoStep ==
  ASSUME TypeOK, ChainInv, Grown, NEW w \in Workers, NEW p \in Points \ {"drop_records", "save_task"},
         Goto(w, p), Backed(task)'
  PROVE  ChainInv' /\ job' \in [Workers -> Jobs]
<1>1. /\ job' \in [Workers -> Jobs]
      /\ job'[w] = [job[w] EXCEPT !.pc = p]
      /\ \A v \in Workers \ {w} : job'[v] = job[v]
  BY JobFacts DEF Goto, TypeOK, Jobs
<1>2. /\ job'[w].pc = p
      /\ job'[w].op = job[w].op
      /\ job'[w].over = job[w].over
      /\ job'[w].row = job[w].row
  BY <1>1, JobFacts DEF Jobs
<1>3. Backed(job[w].row)'
  BY <1>2, BackedStays DEF ChainInv, JobBacked
<1>4. JobBacked(w)'
  BY <1>2, <1>3 DEF JobBacked, At, ChainInv
<1> QED
  BY <1>1, <1>4, OneJob

\* A worker that begins a handler with row r in hand.
LEMMA StartStep ==
  ASSUME TypeOK, ChainInv, Grown, NEW w \in Workers, NEW j \in Jobs,
         job' = [job EXCEPT ![w] = j],
         j.op # "cancel", j.pc # "drop_records", ~j.over,
         j.row = NoRow \/ j.row = task,
         j.pc = "save_task" /\ j.op \in {"lock", "unlock"} => j.row.status \in {"APPROVED", "LOCKED"},
         Backed(task)'
  PROVE  ChainInv' /\ job' \in [Workers -> Jobs]
<1>1. /\ job' \in [Workers -> Jobs]
      /\ job'[w] = j
      /\ \A v \in Workers \ {w} : job'[v] = job[v]
  BY DEF TypeOK
<1>2. Backed(j.row)'
  BY BackedStays DEF ChainInv, Backed, NoRow
<1>3. JobBacked(w)'
  BY <1>1, <1>2 DEF JobBacked, At
<1> QED
  BY <1>1, <1>3, OneJob

\* Whatever a handler saves over the task is backed, because the row it read was.
LEMMA SavedBacked ==
  ASSUME TypeOK, ChainInv, NEW w \in Workers, At(w, "save_task")
  PROVE  SavedRow(w) \in TaskRow /\ Backed(SavedRow(w))
<1> DEFINE row == job[w].row
<1>1. /\ row \in TaskRow
      /\ row.step \in Nat /\ row.round \in Nat /\ row.approver \in Person /\ row.chained \in BOOLEAN
      /\ job[w].next \in Person
      /\ job[w].op # "cancel"
      /\ Backed(row)
      /\ job[w].op \in {"lock", "unlock"} => row.status \in {"APPROVED", "LOCKED"}
  BY JobFacts DEF ChainInv, JobBacked, TaskRow
<1>2. Reviewed(row) \in TaskRow /\ Backed(Reviewed(row))
  <2>1. CASE row.chained \/ Chain = <<>>
    BY <1>1, <2>1 DEF Reviewed, TaskRow, Backed, Statuses
  <2>2. CASE ~(row.chained \/ Chain = <<>>)
    <3>1. Len(Chain) >= 1 /\ Chain[1] \in Person
      BY <2>2, ApprovalAssumption DEF Person
    <3>2. /\ Reviewed(row).step = 1
          /\ Reviewed(row).status = "UNDER_REVIEW"
          /\ Reviewed(row) \in TaskRow
      BY <1>1, <2>2, <3>1 DEF Reviewed, TaskRow, Statuses
    <3> QED
      BY <3>1, <3>2, ChainFacts DEF Backed, ApprovedBefore
  <2> QED
    BY <2>1, <2>2
<1>3. Revised(row) \in TaskRow /\ Backed(Revised(row))
  <2>1. /\ Revised(row).step = row.step
        /\ Revised(row).chained = row.chained
        /\ Revised(row).status = "DRAFT"
    BY <1>1 DEF Revised, TaskRow
  <2>2. "DRAFT" \in Statuses /\ row.round + 1 \in Nat
    BY <1>1 DEF Statuses
  <2>3. Revised(row) \in TaskRow
    BY <1>1, <2>2 DEF Revised, TaskRow
  <2> QED
    BY <1>1, <2>1, <2>3 DEF Backed
<1>4. CASE job[w].op = "forward"
  <2>1. SavedRow(w) = [row EXCEPT !.status = "UNDER_REVIEW", !.approver = job[w].next]
    BY <1>4 DEF SavedRow
  <2> QED
    BY <1>1, <2>1 DEF TaskRow, Backed, Statuses
<1>5. CASE job[w].op = "lock"
  <2>1. SavedRow(w) = [row EXCEPT !.status = "LOCKED"]
    BY <1>5 DEF SavedRow
  <2> QED
    BY <1>1, <1>5, <2>1 DEF TaskRow, Backed, Statuses
<1>6. CASE job[w].op = "unlock"
  <2>1. SavedRow(w) = [row EXCEPT !.status = "APPROVED"]
    BY <1>6 DEF SavedRow
  <2> QED
    BY <1>1, <1>6, <2>1 DEF TaskRow, Backed, Statuses
<1>7. CASE job[w].op = "submit"
  <2>1. SavedRow(w) = [row EXCEPT !.status = "SUBMITTED"]
    BY <1>7 DEF SavedRow
  <2> QED
    BY <1>1, <2>1 DEF TaskRow, Backed, Statuses
<1>8. CASE job[w].op \notin {"submit", "review", "revise", "forward", "lock", "unlock"}
  <2>1. SavedRow(w) = [row EXCEPT !.approver = job[w].next]
    BY <1>1, <1>8 DEF SavedRow
  <2> QED
    BY <1>1, <2>1 DEF TaskRow, Backed
<1> QED
  BY <1>2, <1>3, <1>4, <1>5, <1>6, <1>7, <1>8 DEF SavedRow

-------------------------------------------------------------------------------

\* No call that starts a handler does either: make_approval advances the task
\* only with the record of the step it leaves.
LEMMA CallKeeps ==
  ASSUME RecordsOnlyGrow, TypeOK, ChainInv, NEW w \in Workers, NEW u \in Users, Call(w, u)
  PROVE  TypeOK' /\ ChainInv'
<1>1. ASSUME NEW o \in Ops, ReadTask(w, u, o)
      PROVE  TypeOK' /\ ChainInv'
  <2>1. PICK n \in Person : job' = [job EXCEPT ![w] =
          [Idle EXCEPT !.op = o, !.by = u, !.pc = "save_task", !.row = task, !.next = n]]
    BY <1>1 DEF ReadTask, Person
  <2> DEFINE j == [Idle EXCEPT !.op = o, !.by = u, !.pc = "save_task", !.row = task, !.next = n]
  <2>2. j \in Jobs
    BY IdleJob, ApprovalAssumption DEF Jobs, TypeOK, Idle, Points, Person
  <2>3. j.op = o /\ j.pc = "save_task" /\ ~j.over /\ j.row = task
    BY DEF Idle
  <2>4. o # "cancel" /\ (o \in {"lock", "unlock"} => task.status \in {"APPROVED", "LOCKED"})
    BY <1>1 DEF ReadTask, Sources, RecordsOnlyGrow
  <2>5. UNCHANGED rows /\ Grown /\ Backed(task)'
    BY <1>1, BackedStays DEF ReadTask, rows, Grown, ChainInv
  <2>6. ChainInv' /\ job' \in [Workers -> Jobs]
    BY <2>1, <2>2, <2>3, <2>4, <2>5, StartStep
  <2> QED
    BY <2>5, <2>6 DEF TypeOK, rows
<1>2. ASSUME NEW ok \in BOOLEAN, MakeApproval(w, u, ok)
      PROVE  TypeOK' /\ ChainInv'
  <2> DEFINE step == IF task.step # 0 THEN task.step ELSE Len(records) + 1
             over == task.approver \notin {u, NoUser} /\ IsOverride(u)
             r == [step |-> step, round |-> task.round, by |-> u, ok |-> ok,
                   replaced |-> IF over THEN step ELSE NoMark]
             j == [Idle EXCEPT !.op = IF ok THEN "approve" ELSE "reject", !.by = u,
                               !.pc = "judge", !.ok = ok,
                               !.next = IF Advances(ok) THEN Chain[task.step + 1] ELSE NoUser]
  <2>1. /\ records' = Append(records, r)
        /\ task' = IF Advances(ok)
                     THEN [task EXCEPT !.approver = Chain[task.step + 1], !.step = task.step + 1]
                     ELSE [task EXCEPT !.status = IF ok THEN "APPROVED" ELSE "REJECTED"]
        /\ job' = [job EXCEPT ![w] = j]
        /\ UNCHANGED req
    BY <1>2 DEF MakeApproval
  <2>2. /\ task.step \in Nat /\ task.round \in Nat /\ task.approver \in Person
        /\ task.chained \in BOOLEAN /\ task \in TaskRow /\ records \in Seq(Record)
    BY DEF TypeOK, TaskRow
  <2>3. r \in Record
    BY <2>2 DEF Record
  <2>4. Grown /\ records' \in Seq(Record)
    BY <2>1, <2>2, <2>3 DEF Grown
  <2>5. Advances(ok) => Chain[task.step + 1] \in Person /\ task.step + 1 \in 1 .. Len(Chain)
    BY <2>2, ChainFacts DEF Advances, Person
  <2>6. task' \in TaskRow
    <3>1. CASE Advances(ok)
      <4>1. task.step + 1 \in Nat
        BY <2>2
      <4> QED
        BY <2>1, <2>2, <2>5, <3>1, <4>1 DEF TaskRow
    <3>2. CASE ~Advances(ok)
      BY <2>1, <2>2, <3>2 DEF TaskRow, Statuses
    <3> QED
      BY <3>1, <3>2
  <2>7. j \in Jobs
    <3>1. (IF Advances(ok) THEN Chain[task.step + 1] ELSE NoUser) \in Person
      BY <2>5 DEF Person
    <3> QED
      BY <3>1, IdleJob DEF Jobs, Points, Idle, Handlers, Person
  <2>8. j.op # "cancel" /\ j.pc = "judge" /\ ~j.over /\ j.row = NoRow
    BY DEF Idle
  <2>9. ASSUME NEW s \in Nat \ {0}, s = task.step, ok = TRUE, ApprovedBefore(s)
        PROVE  ApprovedBefore(s + 1)'
    <3> SUFFICES ASSUME NEW k \in 1 .. (s + 1) - 1
                 PROVE  \E i \in DOMAIN records' : records'[i].step = k /\ records'[i].ok
      BY DEF ApprovedBefore, Indices
    <3>1. CASE k = s
      <4>1. /\ Len(records) + 1 \in DOMAIN records'
            /\ records'[Len(records) + 1] = r
        BY <2>1, <2>2
      <4>2. r.step = s /\ r.ok
        BY <2>9
      <4> QED
        BY <3>1, <4>1, <4>2
    <3>2. CASE k # s
      <4>1. PICK i \in DOMAIN records : records[i].step = k /\ records[i].ok
        BY <2>9, <3>2 DEF ApprovedBefore, Indices
      <4>2. i \in DOMAIN records' /\ records'[i] = records[i]
        BY <2>1, <2>2, <4>1
      <4> QED
        BY <4>1, <4>2
    <3> QED
      BY <3>1, <3>2
  <2>10. Backed(task)'
    <3> SUFFICES ASSUME task'.chained PROVE Backed(task)'
      BY DEF Backed
    <3>1. task.chained
      BY <2>1, <2>2 DEF TaskRow
    <3>2. PICK s \in 1 .. Len(Chain) : s = task.step /\ ApprovedBefore(s) /\ ApprovedBefore(s)'
      BY <2>4, <3>1, ApprovalsStay DEF ChainInv, Backed
    <3>3. CASE Advances(ok)
      <4>1. /\ task'.step = s + 1 /\ task'.status = "UNDER_REVIEW"
            /\ s + 1 \in 1 .. Len(Chain)
        BY <1>2, <2>1, <2>2, <2>5, <3>2, <3>3 DEF TaskRow, MakeApproval
      <4>2. ApprovedBefore(s + 1)'
        BY <2>9, <3>2, <3>3, ChainFacts DEF Advances
      <4> QED
        BY <4>1, <4>2 DEF Backed
    <3>4. CASE ~Advances(ok) /\ ok = TRUE
      <4>1. s = Len(Chain)
        BY <3>1, <3>2, <3>4, ChainFacts DEF Advances
      <4>2. task'.step = s
        BY <2>1, <2>2, <3>2, <3>4 DEF TaskRow
      <4>3. ApprovedBefore(s + 1)'
        BY <2>9, <3>2, <3>4, ChainFacts
      <4> QED
        BY <3>2, <4>1, <4>2, <4>3 DEF Backed
    <3>5. CASE ok = FALSE
      <4>1. task'.step = s /\ task'.status = "REJECTED"
        BY <2>1, <2>2, <3>2, <3>5 DEF TaskRow, Advances
      <4> QED
        BY <3>2, <4>1 DEF Backed
    <3> QED
      BY <3>3, <3>4, <3>5
  <2>11. ChainInv' /\ job' \in [Workers -> Jobs]
    BY <2>1, <2>4, <2>7, <2>8, <2>10, StartStep
  <2> QED
    BY <2>1, <2>4, <2>6, <2>11 DEF TypeOK
<1>3. ASSUME NEW ok \in BOOLEAN, NEW next \in Person, CallDecide(w, u, ok, next)
      PROVE  TypeOK' /\ ChainInv'
  <2> DEFINE j == [Idle EXCEPT !.op = "decide_request", !.by = u, !.pc = "decide", !.ok = ok,
                               !.over = FALSE, !.expected = req.approver, !.replaced = 0,
                               !.next = next, !.nextStep = 0]
  <2>1. IsOverride(u) = FALSE
    BY DEF IsOverride, RecordsOnlyGrow
  <2>2. job' = [job EXCEPT ![w] = j] /\ UNCHANGED rows
    BY <1>3, <2>1 DEF CallDecide, Judged
  <2>3. j \in Jobs
    BY IdleJob DEF Jobs, Points, Idle, Handlers, Person, TypeOK, RequestRow
  <2>4. j.op # "cancel" /\ j.pc = "decide" /\ ~j.over /\ j.row = NoRow
    BY DEF Idle
  <2>5. Grown /\ Backed(task)'
    BY <2>2, BackedStays DEF rows, Grown, ChainInv
  <2>6. ChainInv' /\ job' \in [Workers -> Jobs]
    BY <2>2, <2>3, <2>4, <2>5, StartStep
  <2> QED
    BY <2>2, <2>6 DEF TypeOK, rows
<1> QED
  BY <1>1, <1>2, <1>3 DEF Call

\* No step of a running handler puts the task ahead of its approvals.
LEMMA StepKeeps ==
  ASSUME RecordsOnlyGrow, TypeOK, ChainInv, NEW w \in Workers, Step(w)
  PROVE  TypeOK' /\ ChainInv'
<1>1. CASE SaveTask(w)
  <2>1. task' = SavedRow(w) /\ UNCHANGED <<req, records>> /\ Grown
    BY <1>1 DEF SaveTask, Grown
  <2>2. SavedRow(w) \in TaskRow /\ Backed(SavedRow(w))
    BY <1>1, SavedBacked DEF SaveTask
  <2>3. task' \in TaskRow /\ Backed(task)'
    BY <2>1, <2>2, BackedStays
  <2>4. ChainInv' /\ job' \in [Workers -> Jobs]
    BY <1>1, <2>1, <2>3, FinishStep, GotoStep DEF SaveTask, Points
  <2> QED
    BY <2>1, <2>3, <2>4 DEF TypeOK
<1>2. CASE SyncRequest(w)
  <2>1. req' \in RequestRow
    BY <1>2 DEF SyncRequest, SyncedRequests, RequestRow, TypeOK, Statuses, Person
  <2>2. Finish(w) /\ UNCHANGED <<task, records>>
    BY <1>2 DEF SyncRequest, ChainInv, JobBacked
  <2>3. Grown /\ Backed(task)'
    BY <2>2, BackedStays DEF Grown, ChainInv
  <2>4. ChainInv' /\ job' \in [Workers -> Jobs]
    BY <2>2, <2>3, FinishStep
  <2> QED
    BY <2>1, <2>2, <2>4 DEF TypeOK
<1>3. ~DropRecords(w)
  BY DEF DropRecords, ChainInv, JobBacked
<1>4. CASE JudgeRequest(w)
  <2>1. req' \in RequestRow /\ UNCHANGED <<task, records>>
    BY <1>4 DEF JudgeRequest, RequestRow, TypeOK, Statuses
  <2>2. Grown /\ Backed(task)'
    BY <2>1, BackedStays DEF Grown, ChainInv
  <2>3. CASE Finish(w)
    BY <2>1, <2>2, <2>3, FinishStep DEF TypeOK
  <2>4. CASE Judged(w, job[w].op, job[w].by, job[w].ok, job[w].next)
    <3> DEFINE j == [Idle EXCEPT !.op = job[w].op, !.by = job[w].by, !.pc = "decide",
                                 !.ok = job[w].ok, !.over = FALSE, !.expected = req.approver,
                                 !.replaced = 0, !.next = job[w].next, !.nextStep = 0]
    <3>1. IsOverride(job[w].by) = FALSE
      BY DEF IsOverride, RecordsOnlyGrow
    <3>2. job' = [job EXCEPT ![w] = j]
      BY <2>4, <3>1 DEF Judged
    <3>3. j \in Jobs
      BY IdleJob, JobFacts DEF Jobs, Points, Idle, TypeOK, RequestRow
    <3>4. j.op # "cancel" /\ j.pc = "decide" /\ ~j.over /\ j.row = NoRow
      BY DEF Idle, ChainInv, JobBacked
    <3>5. ChainInv' /\ job' \in [Workers -> Jobs]
      BY <2>2, <3>2, <3>3, <3>4, StartStep
    <3> QED
      BY <2>1, <3>5 DEF TypeOK
  <2> QED
    BY <1>4, <2>3, <2>4 DEF JudgeRequest
<1>5. CASE DecideRequest(w)
  <2>1. ~job[w].over /\ job[w].next \in Person
    BY JobFacts DEF ChainInv, JobBacked
  <2>2. UNCHANGED <<task, records>> /\ Finish(w)
    BY <1>5, <2>1 DEF DecideRequest, rows
  <2>3. req' \in RequestRow
    BY <1>5, <2>1 DEF DecideRequest, rows, RequestRow, TypeOK, Statuses
  <2>4. Grown /\ Backed(task)'
    BY <2>2, BackedStays DEF Grown, ChainInv
  <2>5. ChainInv' /\ job' \in [Workers -> Jobs]
    BY <2>2, <2>4, FinishStep
  <2> QED
    BY <2>2, <2>3, <2>5 DEF TypeOK
<1> QED
  BY <1>1, <1>2, <1>3, <1>4, <1>5 DEF Step

\* The request's own endpoints do not touch the task, its records or a job.
LEMMA RequestKeeps ==
  ASSUME TypeOK, ChainInv, UNCHANGED <<task, records, job>>, req' \in RequestRow
  PROVE  TypeOK' /\ ChainInv'
  BY DEF TypeOK, ChainInv, Backed, ApprovedBefore, Indices, JobBacked, At

\* In every state the task, and every copy of it a handler holds, stands at a
\* step of its chain that the records lead up to.
THEOREM ChainInvariant == RecordsOnlyGrow => (Spec => [](TypeOK /\ ChainInv))
<1> SUFFICES ASSUME RecordsOnlyGrow PROVE Spec => [](TypeOK /\ ChainInv)
  OBVIOUS
<1>1. Init => TypeOK /\ ChainInv
  <2> SUFFICES ASSUME Init PROVE TypeOK /\ ChainInv
    OBVIOUS
  <2>1. PICK a \in Drafted : task = [NoRow EXCEPT !.approver = a]
                             /\ req = [status |-> "DRAFT", approver |-> a]
    BY DEF Init
  <2>2. a \in Person
    BY ApprovalAssumption DEF Person
  <2>3. TypeOK
    <3>1. task \in TaskRow /\ req \in RequestRow
      BY <2>1, <2>2 DEF TaskRow, RequestRow, NoRow, Statuses
    <3>2. records \in Seq(Record) /\ job \in [Workers -> Jobs]
      BY IdleJob DEF Init
    <3> QED
      BY <3>1, <3>2 DEF TypeOK
  <2>4. ~task.chained /\ \A w \in Workers : JobBacked(w)
    BY <2>1 DEF Init, NoRow, Idle, JobBacked, Backed, At
  <2> QED
    BY <2>3, <2>4 DEF ChainInv, Backed
<1>2. TypeOK /\ ChainInv /\ [Next]_vars => (TypeOK /\ ChainInv)'
  <2> SUFFICES ASSUME TypeOK, ChainInv, [Next]_vars PROVE TypeOK' /\ ChainInv'
    OBVIOUS
  <2>1. CASE UNCHANGED vars
    BY <2>1, RequestKeeps DEF vars, TypeOK
  <2>2. ASSUME NEW w \in Workers, Crash(w) PROVE TypeOK' /\ ChainInv'
    <3>1. Finish(w) /\ UNCHANGED rows
      BY <2>2 DEF Crash
    <3>2. Grown /\ Backed(task)'
      BY <3>1, BackedStays DEF rows, Grown, ChainInv
    <3> QED
      BY <3>1, <3>2, FinishStep DEF TypeOK, rows
  <2>3. ASSUME NEW u \in Users, ReviewRequest(u) \/ AssignRequest(u) PROVE TypeOK' /\ ChainInv'
    <3>1. req' \in RequestRow /\ UNCHANGED <<task, records, job>>
      BY <2>3 DEF ReviewRequest, AssignRequest, TypeOK, RequestRow, Statuses, Person
    <3> QED
      BY <3>1, RequestKeeps
  <2> QED
    BY <2>1, <2>2, <2>3, CallKeeps, StepKeeps DEF Next
<1> QED
  BY <1>1, <1>2, PTL DEF Spec

\* While nobody overrides the chain and nobody cancels, then for a chain of any
\* length, any number of workers racing over the task, and any stale row a
\* handler saves over it, every step before the one the task stands at has
\* been approved.
THEOREM NoStepSkippedHolds == RecordsOnlyGrow => (Spec => []NoStepSkipped)
<1>1. ChainInv => NoStepSkipped
  BY DEF ChainInv, Backed, NoStepSkipped
<1> QED
  BY <1>1, ChainInvariant, PTL

\* ... and a task that is approved or locked has an approval for every step.
THEOREM ChainCompleteHolds == RecordsOnlyGrow => (Spec => []ChainComplete)
<1>1. ChainInv => ChainComplete
  BY DEF ChainInv, Backed, ChainComplete
<1> QED
  BY <1>1, ChainInvariant, PTL

-------------------------------------------------------------------------------
(* The task page, served one request at a time.                            *)

\* The first approver is a person, and nobody is nobody.
LEMMA PeopleFacts ==
  ASSUME ByThePage
  PROVE  /\ DOMAIN Chain = 1 .. Len(Chain) /\ Len(Chain) \in Nat /\ 1 \in DOMAIN Chain
         /\ \A k \in DOMAIN Chain : Chain[k] \in Users /\ Chain[k] # NoUser
         /\ NoUser \notin Users
  BY ApprovalAssumption DEF ByThePage

\* What the rows carry, field by field.
LEMMA RowFacts ==
  ASSUME TypeOK
  PROVE  /\ task.status \in Statuses /\ task.approver \in Person /\ task.step \in Nat
         /\ task.round \in Nat /\ task.chained \in BOOLEAN
         /\ req.status \in Statuses /\ req.approver \in Person
         /\ records \in Seq(Record) /\ Indices = 1 .. Len(records) /\ Len(records) \in Nat
         /\ \A i \in Indices : records[i] \in Record
  BY DEF TypeOK, TaskRow, RequestRow, Indices

\* The numbers a record carries.
LEMMA RecordFacts ==
  ASSUME TypeOK, NEW i \in Indices
  PROVE  records[i].step \in Nat /\ records[i].round \in Nat
<1>1. records[i] \in Record
  BY RowFacts
<1> QED
  BY <1>1 DEF Record

\* With one worker, its part of the invariant is all there is to show of them.
LEMMA OneServing ==
  ASSUME ByThePage, NEW w \in Workers, Serving(w)', OnChain', RecordsBehind', OwnStepOnly'
  PROVE  PageInv'
<1>1. \A v \in Workers : v = w
  BY DEF ByThePage
<1> QED
  BY <1>1 DEF PageInv

\* A worker that ends its handler leaves the request in step with the task,
LEMMA FinishServed ==
  ASSUME TypeOK, NEW w \in Workers, Finish(w), Follows'
  PROVE  Serving(w)'
<1>1. job'[w].pc = "idle"
  BY DEF Finish, TypeOK, Idle
<1> QED
  BY <1>1 DEF Serving, At

\* ... and one that moves on takes the rest of its job along.
LEMMA MoveFrame ==
  ASSUME TypeOK, NEW w \in Workers, NEW p \in Points, Goto(w, p)
  PROVE  /\ job'[w].pc = p /\ job'[w].op = job[w].op /\ job'[w].by = job[w].by
         /\ job'[w].row = job[w].row
  BY JobFacts DEF TypeOK, Goto, Jobs

\* Records that stay are still behind a task that stays or moves on.
LEMMA BehindStays ==
  ASSUME TypeOK, RecordsBehind, records' = records, task'.round \in Nat,
         \/ /\ task'.round = task.round
            /\ task'.status \in {"DRAFT", "SUBMITTED"} => task.status \in {"DRAFT", "SUBMITTED"}
            /\ task'.status = "UNDER_REVIEW" =>
                 \/ task.status \in {"DRAFT", "SUBMITTED"}
                 \/ task.status = "UNDER_REVIEW" /\ task'.step = task.step
         \/ task'.round > task.round
  PROVE  RecordsBehind'
<1> SUFFICES ASSUME NEW i \in Indices
             PROVE  /\ records[i].round <= task'.round
                    /\ task'.status \in {"DRAFT", "SUBMITTED"} => records[i].round < task'.round
                    /\ task'.status = "UNDER_REVIEW" =>
                         records[i].round < task'.round \/ records[i].step < task'.step
  BY DEF RecordsBehind, Indices
<1>1. /\ records[i].round <= task.round
      /\ task.status \in {"DRAFT", "SUBMITTED"} => records[i].round < task.round
      /\ task.status = "UNDER_REVIEW" =>
           records[i].round < task.round \/ records[i].step < task.step
  BY DEF RecordsBehind
<1>2. records[i].round \in Nat /\ task.round \in Nat
  BY RecordFacts, RowFacts
<1>3. CASE task'.round > task.round
  BY <1>1, <1>2, <1>3
<1>4. CASE task'.round = task.round
  BY <1>1, <1>2, <1>4
<1> QED
  BY <1>3, <1>4

\* Nothing of the invariant but the worker's part is about the request.
LEMMA RowsStay ==
  ASSUME TypeOK, PageInv, task' = task, records' = records
  PROVE  OnChain' /\ RecordsBehind' /\ OwnStepOnly'
  BY DEF PageInv, OnChain, RecordsBehind, OwnStepOnly, Indices

\* A handler that reads the task has it right until it saves it.
LEMMA PageRead ==
  ASSUME ByThePage, TypeOK, PageInv, NEW w \in Workers, NEW u \in Users, NEW o \in Ops,
         ReadTask(w, u, o)
  PROVE  PageInv'
<1>1. /\ o \in {"submit", "review", "revise", "lock", "unlock", "cancel"}
      /\ task.status \in Sources(o) /\ At(w, "idle") /\ UNCHANGED <<task, req, records>>
      /\ o = "lock" => req.status = "APPROVED"
  BY DEF ReadTask, ByThePage, rows, Lockable
<1>2. PICK n : job' = [job EXCEPT ![w] =
        [Idle EXCEPT !.op = o, !.by = u, !.pc = "save_task", !.row = task, !.next = n]]
  BY DEF ReadTask
<1>3. job'[w].pc = "save_task" /\ job'[w].op = o /\ job'[w].row = task
  BY <1>2 DEF TypeOK, Idle
<1>4. Follows
  BY <1>1 DEF PageInv, Serving
<1>5. Serving(w)'
  BY <1>1, <1>3, <1>4 DEF Serving, At, Follows, SameApprover
<1> QED
  BY <1>1, <1>5, RowsStay, OneServing

\* A decision is by the approver of the step, and the task stands just after it.
LEMMA PageDecision ==
  ASSUME ByThePage, TypeOK, PageInv, NEW w \in Workers, NEW u \in Users, NEW ok \in BOOLEAN,
         MakeApproval(w, u, ok)
  PROVE  PageInv'
<1> DEFINE k == task.step
           adv == Advances(ok)
           over == task.approver \notin {u, NoUser} /\ IsOverride(u)
           r == [step |-> IF task.step # 0 THEN task.step ELSE Len(records) + 1,
                 round |-> task.round, by |-> u, ok |-> ok,
                 replaced |-> IF over THEN IF task.step # 0 THEN task.step ELSE Len(records) + 1
                                      ELSE NoMark]
           n == IF adv THEN Chain[task.step + 1] ELSE NoUser
           j == [Idle EXCEPT !.op = IF ok THEN "approve" ELSE "reject", !.by = u,
                             !.pc = "judge", !.ok = ok, !.next = n]
<1>1. /\ task.status = "UNDER_REVIEW" /\ At(w, "idle")
      /\ ApproverOrOpen(u) \/ MayProcess(u)
      /\ records' = Append(records, r)
      /\ task' = IF adv THEN [task EXCEPT !.approver = Chain[task.step + 1], !.step = task.step + 1]
                        ELSE [task EXCEPT !.status = IF ok THEN "APPROVED" ELSE "REJECTED"]
      /\ job' = [job EXCEPT ![w] = j]
      /\ req' = req
  BY DEF MakeApproval
<1>2. task.chained /\ k \in DOMAIN Chain /\ task.approver = Chain[k] /\ k \in Nat \ {0}
  BY <1>1, RowFacts, PeopleFacts DEF PageInv, OnChain
<1>3. Follows
  BY <1>1 DEF PageInv, Serving
<1>4. u = Chain[k]
  BY <1>1, <1>2, <1>3, PeopleFacts
     DEF ApproverOrOpen, MayProcess, Follows, SameApprover, ByThePage
<1>5. adv = (ok /\ k < Len(Chain))
  BY <1>2 DEF Advances
<1>6. ASSUME adv PROVE k + 1 \in DOMAIN Chain /\ n \in Users /\ n = Chain[k + 1]
  <2>1. n = Chain[k + 1]
    BY <1>6
  <2>2. k < Len(Chain)
    BY <1>5, <1>6
  <2>3. k + 1 \in DOMAIN Chain
    BY <1>2, <2>2, PeopleFacts
  <2> QED
    BY <2>1, <2>3, PeopleFacts
<1>7. /\ task'.round = task.round /\ task'.chained
      /\ adv => task'.status = "UNDER_REVIEW" /\ task'.step = k + 1 /\ task'.approver = Chain[k + 1]
      /\ ~adv => /\ task'.status = IF ok THEN "APPROVED" ELSE "REJECTED"
                 /\ task'.step = k /\ task'.approver = u
  BY <1>1, <1>2, <1>4 DEF TypeOK, TaskRow
<1>8. r.step = k /\ r.round = task.round /\ r.by = u
  BY <1>2
<1>9. /\ Len(records') = Len(records) + 1 /\ Indices' = 1 .. Len(records) + 1
      /\ records'[Len(records) + 1] = r
      /\ \A i \in Indices : records'[i] = records[i]
  BY <1>1, RowFacts DEF Indices
<1>10. /\ job'[w].pc = "judge" /\ job'[w].by = u /\ job'[w].ok = ok /\ job'[w].next = n
  BY <1>1 DEF TypeOK, Idle
<1> HIDE DEF r, n, j, over, adv
<1>11. OnChain'
  BY <1>2, <1>4, <1>6, <1>7 DEF OnChain
<1>12. RecordsBehind'
  <2> SUFFICES ASSUME NEW i \in Indices'
               PROVE  /\ records'[i].round <= task'.round
                      /\ task'.status \notin {"DRAFT", "SUBMITTED"}
                      /\ task'.status = "UNDER_REVIEW" =>
                           records'[i].round < task'.round \/ records'[i].step < task'.step
    BY DEF RecordsBehind
  <2>1. task'.status \notin {"DRAFT", "SUBMITTED"} /\ (task'.status = "UNDER_REVIEW" => task'.step = k + 1)
    BY <1>7
  <2>2. CASE i = Len(records) + 1
    BY <1>2, <1>7, <1>8, <1>9, <2>1, <2>2, RowFacts
  <2>3. CASE i # Len(records) + 1
    <3>1. i \in Indices /\ records'[i] = records[i]
      BY <1>9, <2>3, RowFacts
    <3>2. records[i].round <= task.round
          /\ (records[i].round < task.round \/ records[i].step < k)
      BY <1>1, <3>1 DEF PageInv, RecordsBehind
    <3>3. records[i].step \in Nat
      BY <3>1, RecordFacts
    <3> QED
      BY <1>2, <1>7, <2>1, <3>1, <3>2, <3>3
  <2> QED
    BY <2>2, <2>3
<1>13. OwnStepOnly'
  <2> SUFFICES ASSUME NEW i \in Indices', records'[i].step \in DOMAIN Chain
               PROVE  records'[i].by = Chain[records'[i].step]
    BY DEF OwnStepOnly
  <2>1. CASE i = Len(records) + 1
    BY <1>4, <1>8, <1>9, <2>1
  <2>2. CASE i # Len(records) + 1
    <3>1. i \in Indices /\ records'[i] = records[i]
      BY <1>9, <2>2, RowFacts
    <3> QED
      BY <2>2, <3>1 DEF PageInv, OwnStepOnly
  <2> QED
    BY <2>1, <2>2
<1>14. Serving(w)'
  <2>1. job'[w].by \in Users
    BY <1>10
  <2>2. IF task'.round = 0
          THEN req'.approver = job'[w].by /\ req'.status \in {"SUBMITTED", "UNDER_REVIEW"}
          ELSE req'.approver = NoUser
    BY <1>1, <1>2, <1>3, <1>4, <1>7, <1>10 DEF Follows, SameApprover, Following
  <2>3. Outcome(job[w])'
    <3>1. CASE adv
      BY <1>5, <1>6, <1>7, <1>10, <3>1, PeopleFacts DEF Outcome
    <3>2. CASE ~adv
      <4>1. n = NoUser
        BY <3>2 DEF n
      <4> QED
        BY <1>7, <1>10, <3>2, <4>1 DEF Outcome
    <3> QED
      BY <3>1, <3>2
  <2> QED
    BY <1>10, <2>1, <2>2, <2>3 DEF Serving, At
<1> QED
  BY <1>11, <1>12, <1>13, <1>14, OneServing

\* Only these calls are on the page.
LEMMA PageCall ==
  ASSUME ByThePage, TypeOK, PageInv, NEW w \in Workers, NEW u \in Users, Call(w, u)
  PROVE  PageInv'
<1>1. "decide_request" \notin Ops
  BY DEF ByThePage
<1> QED
  BY <1>1, PageRead, PageDecision DEF Call, CallDecide

\* What is saved over the task is the task, moved on by the handler.
LEMMA PageSave ==
  ASSUME ByThePage, TypeOK, PageInv, NEW w \in Workers, SaveTask(w)
  PROVE  PageInv'
<1> DEFINE o == job[w].op
<1>1. /\ o \in {"submit", "review", "revise", "lock", "unlock", "cancel"}
      /\ job[w].row = task /\ task.status \in Sources(o)
      /\ o = "lock" => req.status = "APPROVED"
      /\ task' = SavedRow(w) /\ req' = req /\ records' = records
      /\ OnChain /\ SameApprover /\ RecordsBehind /\ OwnStepOnly
      /\ task.round = 0 => /\ req.status \in Following(task.status)
                           /\ task.status = "UNDER_REVIEW" /\ task.step > 1 => req.status = "UNDER_REVIEW"
  BY DEF SaveTask, PageInv, Serving, Follows
<1>2. OwnStepOnly'
  BY <1>1 DEF OwnStepOnly, Indices
<1>3. ASSUME o # "review"
      PROVE  job'[w].pc = "sync" /\ job'[w].op = o
  BY <1>1, <1>3, MoveFrame DEF SaveTask, Points
<1>4. ASSUME NEW s \in Statuses, task' = [task EXCEPT !.status = s]
      PROVE  /\ task'.status = s /\ task'.approver = task.approver /\ task'.step = task.step
             /\ task'.round = task.round /\ task'.chained = task.chained
  BY <1>4 DEF TypeOK, TaskRow
<1>5. task.round \in Nat /\ task.chained \in BOOLEAN
  BY RowFacts
<1>6. ASSUME NEW s \in Statuses, task' = [task EXCEPT !.status = s], o # "review",
             s # "UNDER_REVIEW",
             s \in {"DRAFT", "SUBMITTED"} => task.status \in {"DRAFT", "SUBMITTED"},
             Syncing(o)', ~task.chained => s \in {"DRAFT", "SUBMITTED", "CANCELLED"}
      PROVE  PageInv'
  <2>1. OnChain'
    BY <1>1, <1>4, <1>6 DEF OnChain
  <2>2. RecordsBehind'
    BY <1>1, <1>4, <1>5, <1>6, BehindStays
  <2>3. Serving(w)'
    BY <1>3, <1>6 DEF Serving, At
  <2> QED
    BY <1>2, <2>1, <2>2, <2>3, OneServing
<1>7. CASE o = "submit"
  <2>1. task' = [task EXCEPT !.status = "SUBMITTED"] /\ task.status = "DRAFT"
    BY <1>1, <1>7 DEF SavedRow, Sources
  <2>2. Syncing(o)'
    BY <1>1, <1>3, <1>4, <1>7, <2>1 DEF Syncing, SameApprover, Following, Statuses
  <2> QED
    BY <1>6, <1>7, <2>1, <2>2 DEF Statuses
<1>8. CASE o = "lock"
  <2>1. task' = [task EXCEPT !.status = "LOCKED"] /\ task.status = "APPROVED"
    BY <1>1, <1>8 DEF SavedRow, Sources
  <2>2. Syncing(o)'
    BY <1>1, <1>3, <1>4, <1>8, <2>1 DEF Syncing, SameApprover, Statuses
  <2>3. task.chained
    BY <1>1, <2>1 DEF OnChain
  <2> QED
    BY <1>6, <1>8, <2>1, <2>2, <2>3 DEF Statuses
<1>9. CASE o = "unlock"
  <2>1. task' = [task EXCEPT !.status = "APPROVED"] /\ task.status = "LOCKED"
    BY <1>1, <1>9 DEF SavedRow, Sources
  <2>2. Syncing(o)'
    BY <1>1, <1>3, <1>4, <1>9, <2>1 DEF Syncing, SameApprover, Following, Statuses
  <2>3. task.chained
    BY <1>1, <2>1 DEF OnChain
  <2> QED
    BY <1>6, <1>9, <2>1, <2>2, <2>3 DEF Statuses
<1>10. CASE o = "cancel"
  <2>1. task' = [task EXCEPT !.status = "CANCELLED"]
    BY <1>1, <1>10 DEF SavedRow
  <2>2. Syncing(o)'
    BY <1>1, <1>3, <1>4, <1>10, <2>1 DEF Syncing, SameApprover, Statuses
  <2> QED
    BY <1>6, <1>10, <2>1, <2>2 DEF Statuses
<1>11. CASE o = "revise"
  <2>1. task' = Revised(task) /\ task.status \in {"REJECTED", "CANCELLED"}
    BY <1>1, <1>11 DEF SavedRow, Sources
  <2>2. /\ task'.status = "DRAFT" /\ task'.approver = task.approver /\ task'.step = task.step
        /\ task'.round = task.round + 1 /\ task'.chained = task.chained
    BY <2>1 DEF Revised, TypeOK, TaskRow
  <2>3. task'.round \in Nat /\ task'.round > 0 /\ task'.round > task.round
    BY <1>5, <2>2
  <2>4. OnChain'
    BY <1>1, <2>2, <2>3 DEF OnChain
  <2>5. RecordsBehind'
    BY <1>1, <2>3, BehindStays
  <2>6. Syncing(o)'
    <3>1. req.approver = NoUser \/ req.status \in {"REJECTED", "CANCELLED"}
      BY <1>1, <2>1 DEF SameApprover, Following
    <3> QED
      BY <1>1, <1>3, <1>11, <2>2, <2>3, <3>1 DEF Syncing
  <2>7. Serving(w)'
    BY <1>3, <1>11, <2>6 DEF Serving, At
  <2> QED
    BY <1>2, <2>4, <2>5, <2>7, OneServing
<1>12. CASE o = "review"
  <2>1. task' = Reviewed(task) /\ task.status = "SUBMITTED" /\ Chain # <<>>
    BY <1>1, <1>12 DEF SavedRow, Sources, ByThePage
  <2>2. task.approver # NoUser
    BY <1>1, PeopleFacts DEF OnChain
  <2>3. /\ task'.status = "UNDER_REVIEW" /\ task'.approver = task.approver
        /\ task'.round = task.round /\ task'.chained = TRUE
        /\ task'.step = IF task.chained THEN task.step ELSE 1
    <3>1. CASE task.chained
      BY <2>1, <3>1 DEF Reviewed, TypeOK, TaskRow
    <3>2. CASE ~task.chained
      BY <2>1, <2>2, <3>2 DEF Reviewed, TypeOK, TaskRow
    <3> QED
      BY <3>1, <3>2
  <2>4. OnChain'
    BY <1>1, <2>3, PeopleFacts DEF OnChain
  <2>5. RecordsBehind'
    BY <1>1, <1>5, <2>1, <2>3, BehindStays
  <2>6. Follows'
    <3>1. task.round = 0 => ~task.chained
      BY <1>1, <2>1 DEF OnChain
    <3> QED
      BY <1>1, <2>1, <2>3, <3>1 DEF Follows, SameApprover, Following
  <2>7. Serving(w)'
    BY <1>12, <2>6, FinishServed DEF SaveTask
  <2> QED
    BY <1>2, <2>4, <2>5, <2>7, OneServing
<1> QED
  BY <1>1, <1>7, <1>8, <1>9, <1>10, <1>11, <1>12

\* Then the request follows, and a cancelled task loses its records.
LEMMA PageSync ==
  ASSUME ByThePage, TypeOK, PageInv, NEW w \in Workers, SyncRequest(w) \/ DropRecords(w)
  PROVE  PageInv'
<1>1. CASE SyncRequest(w)
  <2> DEFINE o == job[w].op
  <2>1. /\ Syncing(o) /\ req' \in SyncedRequests(o) /\ task' = task /\ records' = records
    BY <1>1 DEF SyncRequest, PageInv, Serving
  <2>2. o \in {"submit", "lock", "unlock", "cancel", "revise"}
    BY <2>1 DEF Syncing
  <2>3. ASSUME NEW s \in Statuses, req' = [req EXCEPT !.status = s]
        PROVE  req'.status = s /\ req'.approver = req.approver
    BY <2>3 DEF TypeOK, RequestRow
  <2>4. Follows'
    <3>1. CASE o = "submit"
      BY <2>1, <2>3, <3>1 DEF Syncing, SyncedRequests, Follows, SameApprover, Following, Statuses
    <3>2. CASE o = "lock"
      BY <2>1, <2>3, <3>2 DEF Syncing, SyncedRequests, Follows, SameApprover, Following, Statuses
    <3>3. CASE o = "unlock"
      BY <2>1, <2>3, <3>3 DEF Syncing, SyncedRequests, Follows, SameApprover, Following, Statuses
    <3>4. CASE o = "cancel"
      BY <2>1, <2>3, <3>4 DEF Syncing, SyncedRequests, Follows, SameApprover, Following, Statuses
    <3>5. CASE o = "revise"
      <4>1. task.round # 0 /\ req'.approver = NoUser
        BY <2>1, <3>5, RowFacts DEF Syncing, SyncedRequests
      <4> QED
        BY <2>1, <4>1 DEF Follows, SameApprover
    <3> QED
      BY <2>2, <3>1, <3>2, <3>3, <3>4, <3>5
  <2>5. Serving(w)'
    <3>1. CASE o = "cancel"
      <4>1. job'[w].pc = "drop_records"
        BY <1>1, <3>1, MoveFrame DEF SyncRequest, Points
      <4>2. task'.status = "CANCELLED"
        BY <2>1, <3>1 DEF Syncing
      <4> QED
        BY <2>4, <4>1, <4>2 DEF Serving, At
    <3>2. CASE o # "cancel"
      BY <1>1, <2>4, <3>2, FinishServed DEF SyncRequest
    <3> QED
      BY <3>1, <3>2
  <2> QED
    BY <2>1, <2>5, RowsStay, OneServing
<1>2. CASE DropRecords(w)
  <2>1. /\ Follows /\ OnChain /\ task' = task /\ req' = req /\ records' = <<>> /\ Finish(w)
    BY <1>2 DEF DropRecords, PageInv, Serving
  <2>2. Follows' /\ OnChain'
    BY <2>1 DEF Follows, SameApprover, OnChain
  <2>3. Indices' = {}
    BY <2>1 DEF Indices
  <2>4. RecordsBehind' /\ OwnStepOnly'
    BY <2>3 DEF RecordsBehind, OwnStepOnly
  <2>5. Serving(w)'
    BY <2>1, <2>2, FinishServed
  <2> QED
    BY <2>2, <2>4, <2>5, OneServing
<1> QED
  BY <1>1, <1>2

\* A decision on the task is made on the request too, in the first round; in
\* the later ones the request has nobody to decide on it.
LEMMA PageJudge ==
  ASSUME ByThePage, TypeOK, PageInv, NEW w \in Workers, JudgeRequest(w)
  PROVE  PageInv'
<1> DEFINE b == job[w].by
           shown == IF req.status = "SUBMITTED" THEN "UNDER_REVIEW" ELSE req.status
<1>1. /\ b \in Users /\ Outcome(job[w])
      /\ IF task.round = 0 THEN req.approver = b /\ req.status \in {"SUBMITTED", "UNDER_REVIEW"}
                           ELSE req.approver = NoUser
      /\ task' = task /\ records' = records
      /\ req' = [req EXCEPT !.status = shown]
  BY DEF JudgeRequest, PageInv, Serving
<1>2. req'.status = shown /\ req'.approver = req.approver
  BY <1>1 DEF TypeOK, RequestRow
<1>3. CASE task.round = 0
  <2>1. shown = "UNDER_REVIEW" /\ MayProcess(b)
    BY <1>1, <1>3 DEF MayProcess
  <2>2. Judged(w, job[w].op, b, job[w].ok, job[w].next)
    BY <2>1 DEF JudgeRequest
  <2>3. IsOverride(b) = FALSE
    BY DEF IsOverride, ByThePage
  <2>4. /\ job'[w].pc = "decide" /\ job'[w].by = b /\ job'[w].ok = job[w].ok
        /\ job'[w].next = job[w].next /\ job'[w].over = FALSE
    BY <2>2, <2>3 DEF Judged, TypeOK, Idle
  <2>5. req' = [status |-> "UNDER_REVIEW", approver |-> b]
    BY <1>1, <1>3, <2>1 DEF TypeOK, RequestRow
  <2>6. Outcome(job[w])'
    BY <1>1, <2>4 DEF Outcome
  <2>7. Serving(w)'
    BY <1>1, <1>3, <2>4, <2>5, <2>6 DEF Serving, At
  <2> QED
    BY <1>1, <2>7, RowsStay, OneServing
<1>4. CASE task.round # 0
  <2>1. ~MayProcess(b)
    BY <1>1, <1>4, PeopleFacts DEF MayProcess, ByThePage
  <2>2. Finish(w)
    BY <2>1 DEF JudgeRequest
  <2>3. Follows'
    BY <1>1, <1>2, <1>4 DEF Follows, SameApprover
  <2>4. Serving(w)'
    BY <2>2, <2>3, FinishServed
  <2> QED
    BY <1>1, <2>4, RowsStay, OneServing
<1> QED
  BY <1>3, <1>4

\* The request's transaction finds it as the task's decision expects it.
LEMMA PageRequestDecision ==
  ASSUME ByThePage, TypeOK, PageInv, NEW w \in Workers, DecideRequest(w)
  PROVE  PageInv'
<1> DEFINE d == job[w]
<1>1. /\ ~d.over /\ Outcome(d) /\ task.round = 0
      /\ req = [status |-> "UNDER_REVIEW", approver |-> d.by]
  BY DEF DecideRequest, PageInv, Serving
<1>2. StillMine(w)
  BY <1>1 DEF StillMine
<1>3. /\ Finish(w) /\ task' = task /\ records' = records
      /\ req' = IF ~d.ok THEN [req EXCEPT !.status = "REJECTED"]
                ELSE IF d.next = NoUser THEN [req EXCEPT !.status = "APPROVED"]
                ELSE [req EXCEPT !.approver = d.next]
  BY <1>1, <1>2 DEF DecideRequest
<1>4. d.ok \in BOOLEAN
  BY DEF TypeOK, Jobs
<1>5. Follows'
  <2>1. CASE d.ok = FALSE
    <3>1. req' = [status |-> "REJECTED", approver |-> d.by]
      BY <1>1, <1>3, <2>1
    <3> QED
      BY <1>1, <1>3, <2>1, <3>1 DEF Follows, SameApprover, Following, Outcome
  <2>2. CASE d.ok = TRUE /\ d.next = NoUser
    <3>1. req' = [status |-> "APPROVED", approver |-> d.by]
      BY <1>1, <1>3, <2>2
    <3> QED
      BY <1>1, <1>3, <2>2, <3>1 DEF Follows, SameApprover, Following, Outcome
  <2>3. CASE d.ok = TRUE /\ d.next # NoUser
    <3>1. req' = [status |-> "UNDER_REVIEW", approver |-> d.next]
      BY <1>1, <1>3, <2>3
    <3> QED
      BY <1>1, <1>3, <2>3, <3>1 DEF Follows, SameApprover, Following, Outcome
  <2> QED
    BY <1>4, <2>1, <2>2, <2>3
<1>6. Serving(w)'
  BY <1>3, <1>5, FinishServed
<1> QED
  BY <1>3, <1>6, RowsStay, OneServing

\* A page served one request at a time keeps the task at a step of its chain,
\* its records behind it, each by the approver of its step, and the request in
\* step with it.
THEOREM PageInvariant == ByThePage => (Spec => []PageInv)
<1> SUFFICES ASSUME ByThePage PROVE Spec => []PageInv
  OBVIOUS
<1>1. Init => PageInv
  <2> SUFFICES ASSUME Init PROVE PageInv
    OBVIOUS
  <2>1. /\ task = [NoRow EXCEPT !.approver = Chain[1]]
        /\ req = [status |-> "DRAFT", approver |-> Chain[1]]
        /\ records = <<>> /\ \A w \in Workers : job[w] = Idle
    BY DEF Init, ByThePage
  <2>2. /\ task.status = "DRAFT" /\ task.approver = Chain[1] /\ task.step = 0
        /\ task.round = 0 /\ task.chained = FALSE
    BY <2>1 DEF NoRow
  <2>3. Indices = {}
    BY <2>1 DEF Indices
  <2>4. OnChain /\ Follows
    BY <2>1, <2>2 DEF OnChain, Follows, SameApprover, Following
  <2>5. RecordsBehind /\ OwnStepOnly
    BY <2>3 DEF RecordsBehind, OwnStepOnly
  <2>6. \A w \in Workers : Serving(w)
    BY <2>1, <2>4 DEF Serving, At, Idle
  <2> QED
    BY <2>4, <2>5, <2>6 DEF PageInv
<1>2. TypeOK /\ Called /\ PageInv /\ [Next]_vars => PageInv'
  <2> SUFFICES ASSUME TypeOK, PageInv, [Next]_vars PROVE PageInv'
    OBVIOUS
  <2>1. CASE UNCHANGED vars
    <3>1. OnChain' /\ RecordsBehind' /\ OwnStepOnly'
      BY <2>1, RowsStay DEF vars
    <3>2. \A w \in Workers : Serving(w)'
      BY <2>1 DEF vars, PageInv, Serving, At, Follows, SameApprover, Syncing, Outcome
    <3> QED
      BY <3>1, <3>2 DEF PageInv
  <2>2. \A w \in Workers : ~Crash(w)
    BY DEF Crash, ByThePage
  <2>3. \A u \in Users : ~ReviewRequest(u) /\ ~AssignRequest(u)
    BY DEF ReviewRequest, AssignRequest, ByThePage
  <2> QED
    BY <2>1, <2>2, <2>3, PageCall, PageSave, PageSync, PageJudge, PageRequestDecision DEF Next, Step
<1> QED
  BY <1>1, <1>2, TypeCorrect, PTL DEF Spec

\* On the page, for a chain of any length and any number of rounds, every
\* decision on a step is recorded for the approver of that step: a decision
\* that its approver's request has yet to follow cannot let another one in.
THEOREM OwnStepOnlyHolds == ByThePage => (Spec => []OwnStepOnly)
<1> SUFFICES ASSUME ByThePage PROVE Spec => []OwnStepOnly
  OBVIOUS
<1>1. PageInv => OwnStepOnly
  BY DEF PageInv
<1> QED
  BY <1>1, PageInvariant, PTL

\* On the page, whenever no handler runs, the request of the first round says
\* what its task says, through every rejection, cancellation and lock.
THEOREM RequestFollowsTaskHolds == ByThePage => (Spec => []RequestFollowsTask)
<1> SUFFICES ASSUME ByThePage PROVE Spec => []RequestFollowsTask
  OBVIOUS
<1>1. TypeOK /\ PageInv => RequestFollowsTask
  <2> SUFFICES ASSUME TypeOK, PageInv, AtRest, task.round = 0
               PROVE  /\ task.status \in {"APPROVED", "LOCKED"} => req.status \in {"APPROVED", "LOCKED"}
                      /\ task.status = "UNDER_REVIEW" /\ task.step > 1
                           => req = [status |-> "UNDER_REVIEW", approver |-> task.approver]
    BY DEF RequestFollowsTask
  <2>1. Follows
    BY DEF AtRest, PageInv, Serving, ByThePage
  <2>2. req = [status |-> req.status, approver |-> req.approver]
    BY DEF TypeOK, RequestRow
  <2> QED
    BY <2>1, <2>2 DEF Follows, SameApprover, Following
<1> QED
  BY <1>1, PageInvariant, TypeCorrect, PTL

\* On the page, a task under review always has room for the decision of its
\* approver: no record of an earlier round or step takes its number.
THEOREM SlotFreeHolds == ByThePage => (Spec => []SlotFree)
<1> SUFFICES ASSUME ByThePage PROVE Spec => []SlotFree
  OBVIOUS
<1>1. TypeOK /\ PageInv => SlotFree
  <2> SUFFICES ASSUME TypeOK, PageInv, task.status = "UNDER_REVIEW", NEW i \in Indices,
                      records[i].step = task.step, records[i].round = task.round
               PROVE  FALSE
    BY DEF SlotFree, Taken
  <2>1. records[i].round < task.round \/ records[i].step < task.step
    BY DEF PageInv, RecordsBehind
  <2> QED
    BY <2>1, RowFacts
<1> QED
  BY <1>1, PageInvariant, TypeCorrect, PTL

===============================================================================
