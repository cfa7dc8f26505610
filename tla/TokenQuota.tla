------------------------------ MODULE TokenQuota ------------------------------
(***************************************************************************)
(* The monthly token account of one organisation.  Every LLM call checks   *)
(* the quota, reserves an estimate, calls the provider, and then trades    *)
(* the reservation for what was really used; what goes beyond the quota is *)
(* the month's overage.  Settlement tasks report the overage to Stripe in  *)
(* whole units, and note in the same row how much is credited.             *)
(*                                                                         *)
(* A call holds no lock between these steps, a month may end inside it,    *)
(* and a settlement task reads the row long before it writes it.  Stripe   *)
(* is modelled by what the code relies on: it keeps at most one meter      *)
(* event per identifier.                                                   *)
(***************************************************************************)
EXTENDS Integers, FiniteSets, FiniteSetsExt

CONSTANTS
  Calls,     \* the LLM calls, each made once
  Settlers,  \* concurrent settlement tasks
  Sizes,     \* tokens a call may estimate, or turn out to use
  Quota,     \* monthly_token_quota of the plan, which does not change
  Metered,   \* whether the plan has an overage price; a free plan blocks
  Unit,      \* tokens in one unit of a meter event
  Months,    \* bound: months explored
  Dispatch   \* who starts settlement tasks: the monthly "batch", a "cancel"

ASSUME QuotaAssumption ==
  /\ Sizes \subseteq Nat
  /\ Quota \in Nat
  /\ Metered \in BOOLEAN
  /\ Unit \in Nat \ {0}
  /\ Months \in Nat \ {0}
  /\ Dispatch \subseteq {"batch", "cancel"}

VARIABLES
  month,     \* the calendar month it is
  usage,     \* usage[m]: the row of month m
  call,      \* call[c]: where call c is, with its estimate and its month
  settle,    \* settle[s]: what settlement task s has read
  meter      \* the meter events Stripe has accepted

vars == <<month, usage, call, settle, meter>>

Month == 1 .. Months

UsageRow == [used : Nat, reserved : Int, overage : Nat, reported : Nat]

\* "lost" is a call whose worker died, "twice" one that gave its reservation
\* back a second time.
CallPoints == {"new", "admitted", "provider", "log", "done", "lost", "twice"}

CallState == [pc : CallPoints, est : Nat, month : Month]

Event == [month : Month, credited : Nat, units : Nat]

SettleState == [pc : {"idle", "send", "mark"}, event : Event]

TypeOK ==
  /\ month \in Month
  /\ usage \in [Month -> UsageRow]
  /\ call \in [Calls -> CallState]
  /\ settle \in [Settlers -> SettleState]
  /\ meter \subseteq Event

NoEvent == [month |-> 1, credited |-> 0, units |-> 0]

NoTask == [pc |-> "idle", event |-> NoEvent]

Init ==
  /\ month = 1
  /\ usage = [m \in Month |-> [used |-> 0, reserved |-> 0, overage |-> 0, reported |-> 0]]
  /\ call = [c \in Calls |-> [pc |-> "new", est |-> 0, month |-> 1]]
  /\ settle = [s \in Settlers |-> NoTask]
  /\ meter = {}

CallAt(c, p) == call[c].pc = p

GotoCall(c, p) == call' = [call EXCEPT ![c].pc = p]

-------------------------------------------------------------------------------
(* call_llm.                                                               *)

\* check_quota_or_402: nothing is written.  A refused call is not made.
CheckQuota(c, n) ==
  /\ CallAt(c, "new")
  /\ Metered \/ usage[month].used + usage[month].reserved + n <= Quota
  /\ call' = [call EXCEPT ![c] = [pc |-> "admitted", est |-> n, month |-> month]]
  /\ UNCHANGED <<month, usage, settle, meter>>

\* reserve_quota, in the month of its own clock reading.
Reserve(c) ==
  /\ CallAt(c, "admitted")
  /\ usage' = [usage EXCEPT ![month].reserved = @ + call[c].est]
  /\ call' = [call EXCEPT ![c].pc = "provider", ![c].month = month]
  /\ UNCHANGED <<month, settle, meter>>

\* The reservation a call has to its name, removed from a row.
Returned(row, c) == [row EXCEPT !.reserved = @ - call[c].est]

\* Mutants: the whole excess is added again; the quota left over is deducted;
\* the current month pays.
CommittedAgain(row, c, n) ==
  LET now == row.used + n IN
  [Returned(row, c) EXCEPT
     !.used = now,
     !.overage = @ + IF now > Quota THEN now - Quota ELSE 0]

CommittedSigned(row, c, n) ==
  LET now == row.used + n IN
  [Returned(row, c) EXCEPT !.used = now, !.overage = now - Quota]

ChargedMonthNow(c) == month

\* commit_quota: the row is locked, so what was used before is exact.
Committed(row, c, n) ==
  LET now  == row.used + n
      base == IF row.used > Quota THEN row.used ELSE Quota
  IN
  [Returned(row, c) EXCEPT
     !.used = now,
     !.overage = @ + IF now > Quota THEN now - base ELSE 0]

\* The month a call settles in is the one its reservation was made in.
ChargedMonth(c) == call[c].month

Commit(c, n) ==
  /\ CallAt(c, "provider")
  /\ usage' = [usage EXCEPT ![ChargedMonth(c)] = Committed(@, c, n)]
  /\ GotoCall(c, "log")
  /\ UNCHANGED <<month, settle, meter>>

\* release_quota when the provider fails.
Release(c) ==
  /\ CallAt(c, "provider")
  /\ usage' = [usage EXCEPT ![ChargedMonth(c)] = Returned(@, c)]
  /\ GotoCall(c, "done")
  /\ UNCHANGED <<month, settle, meter>>

\* The cost log row is written ...
LogCost(c) ==
  /\ CallAt(c, "log")
  /\ GotoCall(c, "done")
  /\ UNCHANGED <<month, usage, settle, meter>>

\* ... or it is not, and the handler of every exception releases the
\* reservation that commit_quota has already taken back.
LogCostFails(c) ==
  /\ CallAt(c, "log")
  /\ usage' = [usage EXCEPT ![ChargedMonth(c)] = Returned(@, c)]
  /\ GotoCall(c, "twice")
  /\ UNCHANGED <<month, settle, meter>>

\* The worker dies while the provider is working.
LoseCall(c) ==
  /\ CallAt(c, "provider")
  /\ GotoCall(c, "lost")
  /\ UNCHANGED <<month, usage, settle, meter>>

-------------------------------------------------------------------------------
(* settle_overage_for_org.                                                 *)

\* The batch runs an hour after a month has ended, for that month, and no call
\* takes that long; a cancellation settles the month it falls in.
Settled(d) ==
  IF d = "cancel" THEN {month}
  ELSE {m \in Month : m + 1 = month /\ ~\E c \in Calls : CallAt(c, "provider") /\ call[c].month = m}

\* Mutant: a whole number of units is rounded up as well.
UnitsOneMore(tokens) == tokens \div Unit + 1

\* Whole units, rounded up.
UnitsFor(tokens) == (tokens + Unit - 1) \div Unit

\* The event a task is going to send, from the row as read now.
EventFor(s, m) ==
  [month |-> m, credited |-> usage[m].reported,
   units |-> UnitsFor(usage[m].overage - usage[m].reported)]

ReadUsage(s, m) ==
  /\ settle[s].pc = "idle"
  /\ usage[m].overage > usage[m].reported
  /\ settle' = [settle EXCEPT ![s] = [pc |-> "send", event |-> EventFor(s, m)]]
  /\ UNCHANGED <<month, usage, call, meter>>

\* The identifier of an event: organisation, month and credited tokens.
SameEvent(e, f) == e.month = f.month /\ e.credited = f.credited

\* Stripe's side of MeterEvent.create.
Accepted(e) == IF \E f \in meter : SameEvent(e, f) THEN meter ELSE meter \cup {e}

\* The event is sent.  An answer, be it "already exists", lets the task go on;
\* a lost answer, another error, or a dead worker ends it, and no one knows
\* whether Stripe has the event.
SendEvent(s) ==
  /\ settle[s].pc = "send"
  /\ \/ /\ meter' = Accepted(settle[s].event)
        /\ settle' = [settle EXCEPT ![s].pc = "mark"]
     \/ /\ meter' = Accepted(settle[s].event)
        /\ settle' = [settle EXCEPT ![s] = NoTask]
     \/ /\ settle' = [settle EXCEPT ![s] = NoTask]
        /\ UNCHANGED meter
  /\ UNCHANGED <<month, usage, call>>

\* Mutant: the credit is added to what the row says by now.
MarkReportedAdds(s) ==
  LET e == settle[s].event IN
  /\ settle[s].pc = "mark"
  /\ usage' = [usage EXCEPT ![e.month].reported = @ + e.units * Unit]
  /\ settle' = [settle EXCEPT ![s] = NoTask]
  /\ UNCHANGED <<month, call, meter>>

\* _mark_reported: credited_before plus the units, as they were read.
MarkReported(s) ==
  LET e == settle[s].event IN
  /\ settle[s].pc = "mark"
  /\ usage' = [usage EXCEPT ![e.month].reported = e.credited + e.units * Unit]
  /\ settle' = [settle EXCEPT ![s] = NoTask]
  /\ UNCHANGED <<month, call, meter>>

-------------------------------------------------------------------------------

Midnight ==
  /\ month < Months
  /\ month' = month + 1
  /\ UNCHANGED <<usage, call, settle, meter>>

CallStep(c) ==
  \/ \E n \in Sizes : CheckQuota(c, n) \/ Commit(c, n)
  \/ Reserve(c) \/ Release(c) \/ LogCost(c) \/ LogCostFails(c) \/ LoseCall(c)

SettleStep(s) ==
  \/ \E d \in Dispatch : \E m \in Settled(d) : ReadUsage(s, m)
  \/ SendEvent(s)
  \/ MarkReported(s)

Next ==
  \/ \E c \in Calls : CallStep(c)
  \/ \E s \in Settlers : SettleStep(s)
  \/ Midnight

Spec == Init /\ [][Next]_vars

-------------------------------------------------------------------------------
(* Properties.                                                             *)

\* However the commits of a month follow one another, its overage is what was
\* used beyond the quota: no token of it is charged twice, and none is missed.
OverageExact ==
  \A m \in Month :
    usage[m].overage = IF usage[m].used > Quota THEN usage[m].used - Quota ELSE 0

\* The calls at some points that are charged to month m, and their estimates.
CallsOf(m, points) == {c \in Calls : call[c].month = m /\ call[c].pc \in points}

Estimates(m, points) == SumFunctionOnSet([c \in Calls |-> call[c].est], CallsOf(m, points))

\* The reservations of a month are those of its calls, also of one that ends in
\* the next month.  Only two things put them out: a worker that dies, whose
\* reservation stays for good, and a cost log that fails, which returns one twice.
ReservedAccounted ==
  \A m \in Month :
    usage[m].reserved = Estimates(m, {"provider", "lost"}) - Estimates(m, {"twice"})

EventsOf(m) == {e \in meter : e.month = m}

Billed(m) == SumFunctionOnSet([e \in meter |-> e.units], EventsOf(m))

\* Whatever is lost on the way to Stripe and back, and however often settlement
\* is repeated, a month is billed less than one unit over its overage.
NeverOverbilled ==
  \A m \in Month : Unit * Billed(m) < usage[m].overage + Unit

\* Tokens are only noted as credited when Stripe has been told of them.
NothingDropped ==
  \A m \in Month : usage[m].reported <= Unit * Billed(m)

-------------------------------------------------------------------------------
(* Why they hold.                                                          *)

\* Only calls that have started can hold a reservation, and they are finitely
\* many, so that the sums of ReservedAccounted are of finite sets.
StartedFinite == IsFiniteSet({c \in Calls : ~CallAt(c, "new")})

\* Settlement is only ever started by the monthly batch.
BatchOnly == "cancel" \notin Dispatch

\* Month m has ended, and no call will be charged to it any more.
Closed(m) == m < month /\ ~\E c \in Calls : CallAt(c, "provider") /\ call[c].month = m

\* The one event a closed month can give rise to: all of its overage.
WholeOverage(e) ==
  /\ Closed(e.month)
  /\ usage[e.month].overage > 0
  /\ e = [month |-> e.month, credited |-> 0, units |-> UnitsFor(usage[e.month].overage)]

\* A settlement task holds such an event, which Stripe has before it is marked.
TaskWhole(s) ==
  settle[s].pc # "idle" =>
    /\ WholeOverage(settle[s].event)
    /\ settle[s].pc = "mark" => settle[s].event \in meter

BillingInv ==
  /\ \A e \in meter : WholeOverage(e)
  /\ \A s \in Settlers : TaskWhole(s)
  /\ \A m \in Month :
       usage[m].reported # 0 =>
         \E e \in meter : e.month = m /\ usage[m].reported = e.units * Unit

===============================================================================
