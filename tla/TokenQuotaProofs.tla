--------------------------- MODULE TokenQuotaProofs ---------------------------
(***************************************************************************)
(* The token account of TokenQuota, for any number of calls, settlement    *)
(* tasks and months.                                                       *)
(*                                                                         *)
(* The overage of a month is exactly what was used beyond the quota: with  *)
(* the row types that is already inductive, because commit_quota computes  *)
(* the overage from a row it has locked.  What a month has reserved is the *)
(* sum of its calls' estimates, which takes facts about sums.  And while   *)
(* only the batch settles, a month is billed by at most one event, for all *)
(* of an overage that no call can add to any more (BillingInv).            *)
(***************************************************************************)
EXTENDS TokenQuota, FiniteSetTheorems, WellFoundedInduction, TLAPS

-------------------------------------------------------------------------------
(* Sums over finite sets.  The library's induction theorems are stated for *)
(* a predicate; here the set of the naturals that satisfy it stands for it.*)

\* Induction over the naturals, for a set in place of a predicate.
LEMMA NatSetInduction ==
  ASSUME NEW S \in SUBSET Nat, 0 \in S, \A n \in S : n + 1 \in S
  PROVE  S = Nat
<1> DEFINE R == {ss \in Nat \X Nat : ss[1] < ss[2]}
           T == Nat \ S
<1>1. IsWellFoundedOn(R, Nat)
  BY NatLessThanWellFounded DEF OpToRel
<1>2. SUFFICES ASSUME T # {} PROVE FALSE
  OBVIOUS
<1>3. T \subseteq Nat
  OBVIOUS
<1> HIDE DEF R, T
<1>4. PICK x \in T : \A y \in T : ~(<<y, x>> \in R)
  BY <1>1, <1>2, <1>3, WFMin
<1>5. x \in Nat /\ x # 0 /\ x - 1 \in Nat
  BY DEF T
<1>6. x - 1 \in S
  <2>1. <<x - 1, x>> \in R
    BY <1>5 DEF R
  <2>2. QED
    BY <2>1, <1>4, <1>5 DEF T
<1>7. QED
  BY <1>5, <1>6 DEF T

\* The element a fold over s takes out first.
Some(s) == CHOOSE x \in s : TRUE

\* What SumFunctionOnSet says of the sums g over the subsets of a set, at s.
SumStep(f, g, s) == IF s = {} THEN 0 ELSE f[Some(s)] + g[s \ {Some(s)}]

Sums(f, S, g) == g = [s \in SUBSET S |-> SumStep(f, g, s)]

\* The recursion behind SumFunctionOnSet has a solution on a finite set.
LEMMA SumExists ==
  ASSUME NEW S, IsFiniteSet(S), NEW f
  PROVE  \E g : Sums(f, S, g)
<1> DEFINE Upto(g, n) ==
             /\ g = [s \in SUBSET S |-> g[s]]
             /\ \A s \in SUBSET S : Cardinality(s) < n => g[s] = SumStep(f, g, s)
           N == {n \in Nat : \E g : Upto(g, n)}
<1>1. \A s \in SUBSET S : /\ IsFiniteSet(s) /\ Cardinality(s) \in Nat
                          /\ Cardinality(s) <= Cardinality(S)
  BY FS_Subset, FS_CardinalityType
<1>2. 0 \in N
  <2> DEFINE g == [s \in SUBSET S |-> 0]
  <2>1. Upto(g, 0)
    BY <1>1
  <2>2. QED
    BY <2>1
<1>3. ASSUME NEW n \in N PROVE n + 1 \in N
  <2>1. PICK g : Upto(g, n)
    OBVIOUS
  <2> DEFINE h == [s \in SUBSET S |-> SumStep(f, g, s)]
  <2>2. ASSUME NEW s \in SUBSET S, Cardinality(s) < n + 1
        PROVE  h[s] = SumStep(f, h, s)
    <3>1. CASE s = {}
      BY <3>1 DEF SumStep
    <3>2. CASE s # {}
      <4>1. Some(s) \in s
        BY <3>2 DEF Some
      <4>2. s \ {Some(s)} \in SUBSET S /\ Cardinality(s \ {Some(s)}) < n
        BY <4>1, <2>2, <1>1, FS_RemoveElement
      <4>3. g[s \ {Some(s)}] = h[s \ {Some(s)}]
        BY <4>2, <2>1
      <4>4. QED
        BY <3>2, <4>3 DEF SumStep
    <3>3. QED
      BY <3>1, <3>2
  <2>3. Upto(h, n + 1)
    BY <2>2
  <2>4. n + 1 \in Nat
    OBVIOUS
  <2> HIDE DEF Upto, h
  <2>5. QED
    BY <2>3, <2>4
<1> HIDE DEF Upto
<1>4. N = Nat
  <2>1. N \in SUBSET Nat
    OBVIOUS
  <2> HIDE DEF N
  <2>2. QED
    BY <1>2, <1>3, <2>1, NatSetInduction
<1>5. PICK g : Upto(g, Cardinality(S) + 1)
  BY <1>1, <1>4
<1>6. \A s \in SUBSET S : g[s] = SumStep(f, g, s)
  <2>1. Cardinality(S) \in Nat
    BY <1>1
  <2>2. \A s \in SUBSET S : Cardinality(s) < Cardinality(S) + 1
    BY <1>1, <2>1
  <2>3. QED
    BY <1>5, <2>2 DEF Upto
<1>7. g = [s \in SUBSET S |-> g[s]]
  BY <1>5 DEF Upto
<1>8. Sums(f, S, g)
  BY <1>6, <1>7 DEF Sums
<1>9. QED
  BY <1>8

\* SumFunctionOnSet is such a solution.
LEMMA SumUnfold ==
  ASSUME NEW S, IsFiniteSet(S), NEW f
  PROVE  \E g : Sums(f, S, g) /\ SumFunctionOnSet(f, S) = g[S]
<1> DEFINE g == CHOOSE g : Sums(f, S, g)
<1>1. Sums(f, S, g)
  BY SumExists
<1>2. SumFunctionOnSet(f, S) = g[S]
  BY DEF SumStep, SumFunctionOnSet, FoldFunctionOnSet, MapThenFoldSet, Some, Sums
<1>3. QED
  BY <1>1, <1>2

\* Two solutions, for functions that agree on U and over sets that contain it,
\* agree at U.
LEMMA SumAgree ==
  ASSUME NEW S, IsFiniteSet(S), NEW T, IsFiniteSet(T), NEW f, NEW e, NEW g, NEW h,
         Sums(f, S, g), Sums(e, T, h), NEW U \in SUBSET S, U \in SUBSET T,
         \A x \in U : f[x] = e[x]
  PROVE  g[U] = h[U]
<1> DEFINE N == {n \in Nat : \A s \in SUBSET U : Cardinality(s) < n => g[s] = h[s]}
<1>1. \A s \in SUBSET U : /\ IsFiniteSet(s) /\ Cardinality(s) \in Nat
                          /\ Cardinality(s) <= Cardinality(U)
  BY FS_Subset, FS_CardinalityType
<1>2. 0 \in N
  BY <1>1
<1>3. ASSUME NEW n \in N PROVE n + 1 \in N
  <2>1. ASSUME NEW s \in SUBSET U, Cardinality(s) < n + 1
        PROVE  g[s] = h[s]
    <3>0. g[s] = SumStep(f, g, s) /\ h[s] = SumStep(e, h, s)
      <4>1. s \in SUBSET S /\ s \in SUBSET T
        OBVIOUS
      <4>2. QED
        BY <4>1 DEF Sums
    <3>1. CASE s = {}
      BY <3>0, <3>1 DEF SumStep
    <3>2. CASE s # {}
      <4>1. Some(s) \in s
        BY <3>2 DEF Some
      <4>2. s \ {Some(s)} \in SUBSET U /\ Cardinality(s \ {Some(s)}) < n
        BY <4>1, <2>1, <1>1, FS_RemoveElement
      <4>3. g[s \ {Some(s)}] = h[s \ {Some(s)}]
        BY <4>2
      <4>4. f[Some(s)] = e[Some(s)]
        BY <4>1
      <4>5. QED
        BY <3>0, <3>2, <4>3, <4>4 DEF SumStep
    <3>3. QED
      BY <3>1, <3>2
  <2>2. n + 1 \in Nat
    OBVIOUS
  <2>3. QED
    BY <2>1, <2>2
<1>4. N = Nat
  <2>1. N \in SUBSET Nat
    OBVIOUS
  <2> HIDE DEF N
  <2>2. QED
    BY <1>2, <1>3, <2>1, NatSetInduction
<1>5. Cardinality(U) + 1 \in N
  BY <1>1, <1>4
<1>6. QED
  BY <1>1, <1>5

\* One step of the recursion, for SumFunctionOnSet itself.
LEMMA SumNext ==
  ASSUME NEW S, IsFiniteSet(S), NEW f
  PROVE  SumFunctionOnSet(f, S) = IF S = {} THEN 0 ELSE f[Some(S)] + SumFunctionOnSet(f, S \ {Some(S)})
<1>1. PICK g : Sums(f, S, g) /\ SumFunctionOnSet(f, S) = g[S]
  BY SumUnfold
<1>2. g[S] = SumStep(f, g, S)
  BY <1>1 DEF Sums
<1>3. CASE S # {}
  <2> DEFINE T == S \ {Some(S)}
  <2>1. IsFiniteSet(T) /\ T \in SUBSET S
    BY FS_Subset
  <2>2. PICK h : Sums(f, T, h) /\ SumFunctionOnSet(f, T) = h[T]
    BY <2>1, SumUnfold
  <2>3. g[T] = h[T]
    BY <1>1, <2>1, <2>2, SumAgree
  <2>4. QED
    BY <1>1, <1>2, <1>3, <2>2, <2>3 DEF SumStep
<1>4. QED
  BY <1>1, <1>2, <1>3 DEF SumStep

\* A sum depends on the values of the function in the set alone.
LEMMA SumCong ==
  ASSUME NEW S, IsFiniteSet(S), NEW f, NEW e, \A x \in S : f[x] = e[x]
  PROVE  SumFunctionOnSet(f, S) = SumFunctionOnSet(e, S)
<1>1. PICK g : Sums(f, S, g) /\ SumFunctionOnSet(f, S) = g[S]
  BY SumUnfold
<1>2. PICK h : Sums(e, S, h) /\ SumFunctionOnSet(e, S) = h[S]
  BY SumUnfold
<1>3. g[S] = h[S]
  BY <1>1, <1>2, SumAgree
<1>4. QED
  BY <1>1, <1>2, <1>3

\* A sum of integers is an integer, and any element may be taken out of it.
LEMMA SumRemove ==
  ASSUME NEW S, IsFiniteSet(S), NEW f, \A x \in S : f[x] \in Int
  PROVE  /\ SumFunctionOnSet(f, S) \in Int
         /\ \A x \in S : SumFunctionOnSet(f, S) = f[x] + SumFunctionOnSet(f, S \ {x})
<1> DEFINE Fine(s) == /\ SumFunctionOnSet(f, s) \in Int
                      /\ \A x \in s : SumFunctionOnSet(f, s) = f[x] + SumFunctionOnSet(f, s \ {x})
           N == {n \in Nat : \A s \in SUBSET S : Cardinality(s) < n => Fine(s)}
<1>1. \A s \in SUBSET S : /\ IsFiniteSet(s) /\ Cardinality(s) \in Nat
                          /\ \A x \in s : Cardinality(s \ {x}) = Cardinality(s) - 1
  BY FS_Subset, FS_CardinalityType, FS_RemoveElement
<1>2. 0 \in N
  BY <1>1
<1>3. ASSUME NEW n \in N PROVE n + 1 \in N
  <2>1. ASSUME NEW s \in SUBSET S, Cardinality(s) < n + 1
        PROVE  Fine(s)
    <3>1. SumFunctionOnSet(f, s) = IF s = {} THEN 0 ELSE f[Some(s)] + SumFunctionOnSet(f, s \ {Some(s)})
      BY <1>1, SumNext
    <3>2. CASE s = {}
      BY <3>1, <3>2
    <3>3. CASE s # {}
      <4> DEFINE c == Some(s)
      <4>1. c \in s
        BY <3>3 DEF Some
      <4> HIDE DEF c
      <4>2. \A x \in s : s \ {x} \in SUBSET S /\ Cardinality(s \ {x}) < n
        BY <2>1, <1>1
      <4>3. \A x \in s : Fine(s \ {x})
        BY <4>2
      <4>4. SumFunctionOnSet(f, s) = f[c] + SumFunctionOnSet(f, s \ {c})
        BY <3>1, <3>3 DEF c
      <4>5. SumFunctionOnSet(f, s) \in Int
        BY <4>1, <4>3, <4>4
      <4>6. ASSUME NEW x \in s, x # c
            PROVE  SumFunctionOnSet(f, s) = f[x] + SumFunctionOnSet(f, s \ {x})
        <5> DEFINE r == (s \ {c}) \ {x}
        <5>1. SumFunctionOnSet(f, s \ {c}) = f[x] + SumFunctionOnSet(f, r)
          BY <4>1, <4>3, <4>6
        <5>2. (s \ {x}) \ {c} = r
          OBVIOUS
        <5>3. SumFunctionOnSet(f, s \ {x}) = f[c] + SumFunctionOnSet(f, r)
          <6>1. c \in s \ {x}
            BY <4>1, <4>6
          <6>2. SumFunctionOnSet(f, s \ {x}) = f[c] + SumFunctionOnSet(f, (s \ {x}) \ {c})
            BY <4>3, <6>1
          <6>3. QED
            BY <5>2, <6>2
        <5>4. SumFunctionOnSet(f, r) \in Int
          <6>1. Cardinality(s \ {c}) < n /\ Cardinality(s \ {c}) \in Nat /\ x \in s \ {c}
            BY <4>1, <4>2, <4>6, <1>1
          <6>2. Cardinality(r) = Cardinality(s \ {c}) - 1 /\ r \in SUBSET S /\ Cardinality(r) \in Nat
            BY <6>1, <1>1
          <6>3. QED
            BY <6>1, <6>2
        <5>5. QED
          BY <4>1, <4>4, <4>6, <5>1, <5>3, <5>4
      <4>7. QED
        BY <4>4, <4>5, <4>6
    <3>4. QED
      BY <3>2, <3>3
  <2>2. n + 1 \in Nat
    OBVIOUS
  <2>3. QED
    BY <2>1, <2>2
<1>4. N = Nat
  <2>1. N \in SUBSET Nat
    OBVIOUS
  <2> HIDE DEF N
  <2>2. QED
    BY <1>2, <1>3, <2>1, NatSetInduction
<1>5. Cardinality(S) + 1 \in N /\ Cardinality(S) < Cardinality(S) + 1
  <2>1. Cardinality(S) \in Nat
    BY <1>1
  <2>2. QED
    BY <2>1, <1>4
<1>6. QED
  BY <1>5

-------------------------------------------------------------------------------
(* The rows and the overage.                                               *)

\* Rounding up to units yields a number of units.
LEMMA UnitsAreNat ==
  ASSUME NEW tokens \in Nat, tokens > 0
  PROVE  UnitsFor(tokens) \in Nat
<1>1. Unit \in Nat /\ Unit > 0
  BY QuotaAssumption
<1>2. tokens + Unit - 1 \in Nat
  BY <1>1
<1>3. QED
  BY <1>1, <1>2 DEF UnitsFor

\* The rows start out empty.
LEMMA AccountInit == Init => TypeOK /\ OverageExact
  BY QuotaAssumption
  DEF Init, TypeOK, OverageExact, Month, UsageRow, CallState, CallPoints, SettleState, Event,
      NoTask, NoEvent

\* A call writes one row, and only Commit touches what was used and the overage.
LEMMA CallKeeps ==
  ASSUME TypeOK, OverageExact, NEW c \in Calls, CallStep(c)
  PROVE  TypeOK' /\ OverageExact'
<1> USE QuotaAssumption
<1>1. ASSUME NEW n \in Sizes, CheckQuota(c, n) PROVE TypeOK' /\ OverageExact'
  <2>1. n \in Nat /\ [pc |-> "admitted", est |-> n, month |-> month] \in CallState
    BY DEF TypeOK, CallState, CallPoints
  <2>2. QED
    BY <1>1, <2>1 DEF CheckQuota, TypeOK, OverageExact
<1>2. ASSUME NEW n \in Sizes, Commit(c, n) PROVE TypeOK' /\ OverageExact'
  <2> DEFINE m == call[c].month
             row == usage[m]
             total == row.used + n
  <2>1. /\ m \in Month /\ row \in UsageRow /\ n \in Nat /\ call[c].est \in Nat
        /\ row.overage = IF row.used > Quota THEN row.used - Quota ELSE 0
    BY DEF TypeOK, CallState, OverageExact
  <2>2. usage' = [usage EXCEPT ![m] = Committed(row, c, n)]
    BY <1>2 DEF Commit, ChargedMonth
  <2>3. Committed(row, c, n) \in UsageRow
    <3>1. /\ row.used + n \in Nat /\ row.reserved - call[c].est \in Int
          /\ (IF row.used + n > Quota THEN row.used + n - Quota ELSE 0) \in Nat
      BY <2>1 DEF UsageRow
    <3> DEFINE back == Returned(row, c)
               now  == row.used + n
               over == back.overage + IF now > Quota
                         THEN now - (IF row.used > Quota THEN row.used ELSE Quota) ELSE 0
    <3>2. back \in UsageRow /\ back.overage = row.overage
      BY <2>1 DEF Returned, UsageRow
    <3>3. now \in Nat /\ over \in Nat
      BY <2>1, <3>1, <3>2 DEF UsageRow
    <3>4. Committed(row, c, n) = [back EXCEPT !.used = now, !.overage = over]
      BY DEF Committed
    <3> HIDE DEF back, now, over
    <3>5. QED
      BY <3>2, <3>3, <3>4 DEF UsageRow
  <2>4. Committed(row, c, n).used = total
    BY <2>1 DEF Committed, Returned, UsageRow
  <2>5. Committed(row, c, n).overage = IF total > Quota THEN total - Quota ELSE 0
    BY <2>1 DEF Committed, Returned, UsageRow
  <2>6. call' \in [Calls -> CallState]
    BY <1>2 DEF Commit, GotoCall, TypeOK, CallState, CallPoints
  <2>7. OverageExact'
    <3> HIDE DEF row, total
    <3> SUFFICES ASSUME NEW k \in Month
                 PROVE  usage'[k].overage = IF usage'[k].used > Quota THEN usage'[k].used - Quota ELSE 0
      BY DEF OverageExact
    <3>1. CASE k = m
      <4>1. usage'[k] = Committed(row, c, n)
        BY <2>1, <2>2, <3>1 DEF TypeOK
      <4>2. usage'[k].used = total
        BY <2>4, <4>1
      <4>3. usage'[k].overage = IF total > Quota THEN total - Quota ELSE 0
        BY <2>5, <4>1
      <4>4. QED
        BY <4>2, <4>3
    <3>2. CASE k # m
      BY <2>2, <3>2 DEF OverageExact, TypeOK
    <3>3. QED
      BY <3>1, <3>2
  <2>8. TypeOK'
    BY <1>2, <2>1, <2>2, <2>3, <2>6 DEF Commit, TypeOK
  <2>9. QED
    BY <2>7, <2>8
<1>3. CASE Reserve(c)
  <2>1. month \in Month /\ usage[month] \in UsageRow /\ call[c] \in CallState
    BY DEF TypeOK
  <2>2. [usage[month] EXCEPT !.reserved = @ + call[c].est] \in UsageRow
    BY <2>1 DEF UsageRow, CallState
  <2>3. usage' \in [Month -> UsageRow] /\ OverageExact'
    BY <1>3, <2>1, <2>2 DEF Reserve, TypeOK, OverageExact, UsageRow
  <2>4. call' \in [Calls -> CallState]
    BY <1>3, <2>1 DEF Reserve, TypeOK, CallState, CallPoints
  <2>5. QED
    BY <1>3, <2>3, <2>4 DEF Reserve, TypeOK
<1>4. CASE Release(c) \/ LogCostFails(c)
  <2> DEFINE m == call[c].month
  <2>1. m \in Month /\ usage[m] \in UsageRow /\ call[c].est \in Nat
    BY DEF TypeOK, CallState
  <2>2. usage' = [usage EXCEPT ![m] = Returned(usage[m], c)]
    BY <1>4 DEF Release, LogCostFails, ChargedMonth
  <2>3. /\ Returned(usage[m], c) \in UsageRow
        /\ Returned(usage[m], c).used = usage[m].used
        /\ Returned(usage[m], c).overage = usage[m].overage
    BY <2>1 DEF Returned, UsageRow
  <2>4. OverageExact'
    BY <2>1, <2>2, <2>3 DEF OverageExact, TypeOK
  <2>5. call' \in [Calls -> CallState]
    BY <1>4 DEF Release, LogCostFails, GotoCall, TypeOK, CallState, CallPoints
  <2>6. QED
    BY <1>4, <2>1, <2>2, <2>3, <2>4, <2>5 DEF Release, LogCostFails, TypeOK
<1>5. CASE LogCost(c) \/ LoseCall(c)
  BY <1>5 DEF LogCost, LoseCall, GotoCall, TypeOK, CallState, CallPoints, OverageExact
<1>6. QED
  BY <1>1, <1>2, <1>3, <1>4, <1>5 DEF CallStep

\* A settlement task writes what is reported, never what was used.
LEMMA SettlementKeeps ==
  ASSUME TypeOK, OverageExact, NEW s \in Settlers, SettleStep(s)
  PROVE  TypeOK' /\ OverageExact'
<1> USE QuotaAssumption
<1>1. ASSUME NEW m \in Month, ReadUsage(s, m) PROVE TypeOK' /\ OverageExact'
  <2>1. /\ usage[m].overage \in Nat /\ usage[m].reported \in Nat
        /\ usage[m].overage - usage[m].reported > 0
    BY <1>1 DEF ReadUsage, TypeOK, UsageRow
  <2>2. UnitsFor(usage[m].overage - usage[m].reported) \in Nat
    BY <2>1, UnitsAreNat
  <2>3. [pc |-> "send", event |-> EventFor(s, m)] \in SettleState
    BY <2>1, <2>2 DEF EventFor, SettleState, Event
  <2>4. QED
    BY <1>1, <2>3 DEF ReadUsage, TypeOK, OverageExact
<1>2. CASE SendEvent(s)
  <2>1. settle[s].event \in Event
    BY DEF TypeOK, SettleState
  <2>2. Accepted(settle[s].event) \subseteq Event
    BY <2>1 DEF Accepted, TypeOK
  <2>3. NoTask \in SettleState
    BY DEF NoTask, NoEvent, SettleState, Event, Month
  <2>4. settle' \in [Settlers -> SettleState]
    BY <1>2, <2>3 DEF SendEvent, TypeOK, SettleState
  <2>5. QED
    BY <1>2, <2>2, <2>4 DEF SendEvent, TypeOK, OverageExact
<1>3. CASE MarkReported(s)
  <2> DEFINE e == settle[s].event
             n == e.credited + e.units * Unit
  <2>1. e.month \in Month /\ e.credited \in Nat /\ e.units \in Nat /\ usage[e.month] \in UsageRow
    BY DEF TypeOK, SettleState, Event
  <2>2. n \in Nat
    BY <2>1
  <2>3. usage' = [usage EXCEPT ![e.month].reported = n]
    BY <1>3 DEF MarkReported
  <2> HIDE DEF n
  <2>4. [usage[e.month] EXCEPT !.reported = n] \in UsageRow
    BY <2>1, <2>2 DEF UsageRow
  <2>5. usage' \in [Month -> UsageRow] /\ OverageExact'
    BY <2>1, <2>3, <2>4 DEF TypeOK, OverageExact, UsageRow
  <2>6. NoTask \in SettleState
    BY DEF NoTask, NoEvent, SettleState, Event, Month
  <2>7. QED
    BY <1>3, <2>5, <2>6 DEF MarkReported, TypeOK
<1>4. \A d \in Dispatch : Settled(d) \subseteq Month
  BY DEF Settled, TypeOK
<1>5. QED
  BY <1>1, <1>2, <1>3, <1>4 DEF SettleStep

\* Whatever calls and settlements do, and in whatever order, every month's
\* overage is exactly its usage beyond the quota (commit_quota).
THEOREM OverageIsExact == Spec => [](TypeOK /\ OverageExact)
<1>1. TypeOK /\ OverageExact /\ [Next]_vars => (TypeOK /\ OverageExact)'
  <2> SUFFICES ASSUME TypeOK, OverageExact, [Next]_vars
               PROVE  TypeOK' /\ OverageExact'
    OBVIOUS
  <2>1. CASE Midnight
    BY <2>1, QuotaAssumption DEF Midnight, TypeOK, OverageExact, Month
  <2>2. CASE UNCHANGED vars
    BY <2>2 DEF vars, TypeOK, OverageExact
  <2>3. QED
    BY <2>1, <2>2, CallKeeps, SettlementKeeps DEF Next
<1>2. QED
  BY AccountInit, <1>1, PTL DEF Spec

\* The rows of llm_usage and the tasks of settlement keep their types.
THEOREM TypeCorrect == Spec => []TypeOK
BY OverageIsExact, PTL

-------------------------------------------------------------------------------
(* What a month is billed, when only the batch settles.                    *)

\* Rounding up to units covers the tokens, by less than one unit more.
LEMMA UnitsCover ==
  ASSUME NEW tokens \in Nat, tokens > 0
  PROVE  /\ UnitsFor(tokens) \in Nat \ {0}
         /\ tokens <= Unit * UnitsFor(tokens)
         /\ Unit * UnitsFor(tokens) < tokens + Unit
<1> DEFINE up == tokens + Unit - 1
<1>1. Unit \in Nat /\ Unit > 0
  BY QuotaAssumption
<1>2. up \in Nat /\ up >= Unit
  BY <1>1
<1> HIDE DEF up
<1>3. Unit * (up \div Unit) <= up /\ up < Unit * (up \div Unit) + Unit
  BY <1>1, <1>2
<1>4. up \div Unit \in Nat
  BY <1>1, <1>2
<1>5. QED
  BY <1>1, <1>2, <1>3, <1>4 DEF UnitsFor, up

\* A closed month stays closed, and what it owes no longer changes.
LEMMA ClosedStays ==
  ASSUME TypeOK, NEW m \in Month, Closed(m), Next
  PROVE  Closed(m)' /\ usage'[m].overage = usage[m].overage
<1> USE DEF Closed, CallAt
<1>0. m < month /\ m \in Int /\ month \in Int
  BY QuotaAssumption DEF TypeOK, Month
<1>1. ASSUME NEW c \in Calls, NEW n \in Sizes, CheckQuota(c, n)
      PROVE  Closed(m)' /\ usage'[m].overage = usage[m].overage
  BY <1>1 DEF CheckQuota, TypeOK
<1>2. ASSUME NEW c \in Calls, NEW n \in Sizes, Commit(c, n)
      PROVE  Closed(m)' /\ usage'[m].overage = usage[m].overage
  <2>1. call[c].month # m
    BY <1>2 DEF Commit
  <2>2. usage'[m] = usage[m]
    BY <1>2, <2>1 DEF Commit, ChargedMonth, TypeOK
  <2>3. QED
    BY <1>2, <2>2 DEF Commit, GotoCall, TypeOK
<1>3. ASSUME NEW c \in Calls, Reserve(c)
      PROVE  Closed(m)' /\ usage'[m].overage = usage[m].overage
  <2>1. usage'[m] = usage[m]
    BY <1>0, <1>3 DEF Reserve, TypeOK
  <2>2. QED
    BY <1>0, <1>3, <2>1 DEF Reserve, TypeOK
<1>4. ASSUME NEW c \in Calls, Release(c) \/ LogCostFails(c)
      PROVE  Closed(m)' /\ usage'[m].overage = usage[m].overage
  <2>1. /\ usage[call[c].month] \in UsageRow
        /\ usage' = [usage EXCEPT ![call[c].month] = Returned(usage[call[c].month], c)]
    BY <1>4 DEF Release, LogCostFails, ChargedMonth, TypeOK, CallState
  <2>2. Returned(usage[call[c].month], c).overage = usage[call[c].month].overage
    BY <2>1 DEF Returned, UsageRow
  <2>3. usage'[m].overage = usage[m].overage
    BY <2>1, <2>2 DEF TypeOK
  <2>4. month' = month /\ \E p \in {"done", "twice"} : call' = [call EXCEPT ![c].pc = p]
    BY <1>4 DEF Release, LogCostFails, GotoCall
  <2>5. QED
    BY <2>3, <2>4 DEF TypeOK
<1>5. ASSUME NEW c \in Calls, LogCost(c) \/ LoseCall(c)
      PROVE  Closed(m)' /\ usage'[m].overage = usage[m].overage
  <2>1. month' = month /\ usage' = usage /\ \E p \in {"done", "lost"} : call' = [call EXCEPT ![c].pc = p]
    BY <1>5 DEF LogCost, LoseCall, GotoCall
  <2>2. QED
    BY <2>1 DEF TypeOK
<1>6. ASSUME NEW s \in Settlers, SettleStep(s)
      PROVE  Closed(m)' /\ usage'[m].overage = usage[m].overage
  <2>1. UNCHANGED <<month, call>>
    BY <1>6 DEF SettleStep, ReadUsage, SendEvent, MarkReported
  <2>2. usage'[m].overage = usage[m].overage
    BY <1>6 DEF SettleStep, ReadUsage, SendEvent, MarkReported, TypeOK, UsageRow
  <2>3. QED
    BY <2>1, <2>2
<1>7. CASE Midnight
  BY <1>0, <1>7 DEF Midnight
<1>8. QED
  BY <1>1, <1>2, <1>3, <1>4, <1>5, <1>6, <1>7 DEF Next, CallStep

\* So an event that told Stripe all of a month's overage goes on to do so.
LEMMA WholeOverageStays ==
  ASSUME TypeOK, NEW e \in Event, WholeOverage(e), Next
  PROVE  WholeOverage(e)'
<1>1. e.month \in Month
  BY DEF Event
<1>2. Closed(e.month)' /\ usage'[e.month].overage = usage[e.month].overage
  BY <1>1, ClosedStays DEF WholeOverage
<1>3. QED
  BY <1>2 DEF WholeOverage, UnitsFor

\* Calls and the calendar leave the settlement tasks, Stripe and the reported
\* tokens alone.
LEMMA CallsDoNotSettle ==
  ASSUME TypeOK, NEW m \in Month, (\E c \in Calls : CallStep(c)) \/ Midnight
  PROVE  UNCHANGED <<settle, meter>> /\ usage'[m].reported = usage[m].reported
<1>1. CASE Midnight
  BY <1>1 DEF Midnight
<1>2. ASSUME NEW c \in Calls, CallStep(c)
      PROVE  UNCHANGED <<settle, meter>> /\ usage'[m].reported = usage[m].reported
  <2>1. UNCHANGED <<settle, meter>>
    BY <1>2 DEF CallStep, CheckQuota, Reserve, Commit, Release, LogCost, LogCostFails, LoseCall
  <2> DEFINE k == call[c].month
  <2>2. k \in Month /\ usage[k] \in UsageRow /\ usage[m] \in UsageRow
    BY DEF TypeOK, CallState
  <2>3. ASSUME NEW n \in Sizes, Commit(c, n) PROVE usage'[m].reported = usage[m].reported
    <3>1. Committed(usage[k], c, n).reported = usage[k].reported
      BY <2>2 DEF Committed, Returned, UsageRow
    <3>2. usage' = [usage EXCEPT ![k] = Committed(usage[k], c, n)]
      BY <2>3 DEF Commit, ChargedMonth
    <3>3. QED
      BY <2>2, <3>1, <3>2 DEF TypeOK
  <2>4. CASE Release(c) \/ LogCostFails(c)
    <3>1. Returned(usage[k], c).reported = usage[k].reported
      BY <2>2 DEF Returned, UsageRow
    <3>2. usage' = [usage EXCEPT ![k] = Returned(usage[k], c)]
      BY <2>4 DEF Release, LogCostFails, ChargedMonth
    <3>3. usage'[m] = IF m = k THEN Returned(usage[k], c) ELSE usage[m]
      BY <2>2, <3>2 DEF TypeOK
    <3>4. QED
      BY <2>1, <3>1, <3>3
  <2>5. CASE Reserve(c)
    BY <2>1, <2>2, <2>5 DEF Reserve, TypeOK, UsageRow
  <2>6. CASE (\E n \in Sizes : CheckQuota(c, n)) \/ LogCost(c) \/ LoseCall(c)
    BY <2>1, <2>6 DEF CheckQuota, LogCost, LoseCall
  <2>7. QED
    BY <1>2, <2>1, <2>3, <2>4, <2>5, <2>6 DEF CallStep
<1>3. QED
  BY <1>1, <1>2

\* What has to hold after a step for the task of r to be as BillingInv wants it.
LEMMA TaskWholeAfter ==
  ASSUME NEW r \in Settlers, NEW f \in Event, settle'[r].event = f, WholeOverage(f)',
         settle'[r].pc = "mark" => f \in meter'
  PROVE  TaskWhole(r)'
BY DEF TaskWhole, WholeOverage, Closed, CallAt

\* When only the batch settles, every event ever made reports a closed month
\* whole: once its credit is noted nothing is left to report.
LEMMA SettlementsWhole ==
  ASSUME BatchOnly, TypeOK, BillingInv, NEW s \in Settlers, SettleStep(s), Next
  PROVE  BillingInv'
<1> DEFINE e == settle[s].event
<1>1. settle[s] \in SettleState /\ e \in Event
  BY DEF TypeOK, SettleState
<1>2. \A f \in Event : WholeOverage(f) => WholeOverage(f)'
  BY WholeOverageStays
<1>3. meter \subseteq Event
  BY DEF TypeOK
<1>4. ASSUME NEW m \in Month, m \in Settled("batch"), ReadUsage(s, m)
      PROVE  BillingInv'
  <2>1. Closed(m)
    BY <1>4, QuotaAssumption DEF Settled, Closed, Month, TypeOK
  <2>2. usage[m] \in UsageRow /\ usage[m].overage \in Nat /\ usage[m].overage > usage[m].reported
    BY <1>4 DEF ReadUsage, TypeOK, UsageRow
  <2>3. usage[m].reported = 0
    <3>1. SUFFICES ASSUME usage[m].reported # 0 PROVE FALSE
      OBVIOUS
    <3>2. PICK f \in meter : f.month = m /\ usage[m].reported = f.units * Unit
      BY <3>1 DEF BillingInv
    <3>3. f = [month |-> m, credited |-> 0, units |-> UnitsFor(usage[m].overage)] /\ usage[m].overage > 0
      BY <3>2 DEF BillingInv, WholeOverage
    <3>4. f.units = UnitsFor(usage[m].overage)
      BY <3>3
    <3>5. usage[m].overage <= Unit * f.units /\ f.units \in Nat
      BY <2>2, <3>3, <3>4, UnitsCover
    <3>6. QED
      BY <2>2, <3>2, <3>5, QuotaAssumption
  <2> DEFINE n == [pc |-> "send", event |-> EventFor(s, m)]
  <2>4. WholeOverage(EventFor(s, m))
    BY <2>1, <2>2, <2>3 DEF WholeOverage, EventFor
  <2>5. EventFor(s, m) \in Event
    BY <2>2, <2>3, UnitsCover DEF EventFor, Event, UsageRow
  <2>6. settle' = [settle EXCEPT ![s] = n] /\ UNCHANGED <<usage, meter>>
    BY <1>4 DEF ReadUsage
  <2>7. \A r \in Settlers : TaskWhole(r)'
    <3>1. TAKE r \in Settlers
    <3>2. CASE r = s
      <4>1. settle'[r] = n
        BY <2>6, <3>2 DEF TypeOK
      <4>2. settle'[r].pc = "send" /\ settle'[r].event = EventFor(s, m)
        BY <4>1
      <4>3. PICK f \in Event : f = EventFor(s, m) /\ WholeOverage(f)
        BY <2>4, <2>5
      <4>4. WholeOverage(f)' /\ settle'[r].event = f
        BY <1>2, <4>2, <4>3
      <4>5. QED
        BY <4>2, <4>4, TaskWholeAfter
    <3>3. CASE r # s
      <4>1. settle'[r] = settle[r] /\ settle[r].event \in Event
        BY <2>6, <3>3 DEF TypeOK, SettleState
      <4>2. QED
        BY <1>2, <2>6, <4>1, TaskWholeAfter DEF BillingInv, TaskWhole
    <3>4. QED
      BY <3>2, <3>3
  <2>8. \A f \in meter' : WholeOverage(f)'
    BY <1>2, <1>3, <2>6 DEF BillingInv
  <2>9. QED
    BY <2>6, <2>7, <2>8 DEF BillingInv
<1>5. CASE SendEvent(s)
  <2>1. WholeOverage(e) /\ UNCHANGED <<usage, month, call>>
    BY <1>5 DEF SendEvent, BillingInv, TaskWhole
  <2>2. meter' \in {meter, Accepted(e)} /\ \A f \in Accepted(e) : f \in meter \/ f = e
    BY <1>5 DEF SendEvent, Accepted
  <2>3. e \in Accepted(e)
    <3>1. CASE \E f \in meter : SameEvent(e, f)
      <4>1. PICK f \in meter : SameEvent(e, f)
        BY <3>1
      <4>2. WholeOverage(f)
        BY DEF BillingInv
      <4>3. f = e
        BY <2>1, <4>1, <4>2 DEF WholeOverage, SameEvent
      <4>4. QED
        BY <4>3 DEF Accepted
    <3>2. QED
      BY <3>1 DEF Accepted
  <2>4. \A f \in meter' : WholeOverage(f)'
    BY <1>1, <1>2, <1>3, <2>1, <2>2 DEF BillingInv
  <2>5. meter \subseteq meter'
    BY <2>2 DEF Accepted
  <2>6. \A r \in Settlers : TaskWhole(r)'
    <3>1. TAKE r \in Settlers
    <3>2. CASE r = s
      <4>1. \/ settle'[r].pc = "idle"
            \/ meter' = Accepted(e) /\ settle'[r].event = e
        BY <1>5, <3>2, <1>1 DEF SendEvent, TypeOK, NoTask, SettleState
      <4>2. PICK f \in Event : f = e /\ WholeOverage(f) /\ WholeOverage(f)'
        BY <1>1, <1>2, <2>1
      <4>3. CASE settle'[r].pc = "idle"
        BY <4>3 DEF TaskWhole
      <4>4. CASE settle'[r].pc # "idle"
        <5>1. meter' = Accepted(e) /\ settle'[r].event = f
          BY <4>1, <4>2, <4>4
        <5>2. f \in meter'
          BY <2>3, <4>2, <5>1
        <5>3. QED
          BY <4>2, <5>1, <5>2, TaskWholeAfter
      <4>5. QED
        BY <4>3, <4>4
    <3>3. CASE r # s
      <4>1. settle'[r] = settle[r] /\ settle[r].event \in Event
        BY <1>5, <3>3 DEF SendEvent, TypeOK, SettleState
      <4>2. QED
        BY <1>2, <2>5, <4>1, TaskWholeAfter DEF BillingInv, TaskWhole
    <3>4. QED
      BY <3>2, <3>3
  <2>7. QED
    BY <2>1, <2>4, <2>5, <2>6 DEF BillingInv
<1>6. CASE MarkReported(s)
  <2>1. WholeOverage(e) /\ e \in meter /\ UNCHANGED meter
    BY <1>6 DEF MarkReported, BillingInv, TaskWhole
  <2>2. e.credited = 0 /\ e.month \in Month /\ e.units \in Nat
    BY <1>1, <2>1 DEF WholeOverage, Event
  <2>3. usage' = [usage EXCEPT ![e.month].reported = e.credited + e.units * Unit]
    BY <1>6 DEF MarkReported
  <2>4. \A m \in Month : usage'[m].reported # 0 =>
          \E f \in meter : f.month = m /\ usage'[m].reported = f.units * Unit
    <3>1. TAKE m \in Month
    <3>2. CASE m = e.month
      <4>1. usage'[m].reported = e.credited + e.units * Unit
        BY <2>2, <2>3, <3>2 DEF TypeOK, UsageRow
      <4>2. usage'[m].reported = e.units * Unit
        BY <2>2, <4>1, QuotaAssumption
      <4>3. QED
        BY <2>1, <3>2, <4>2
    <3>3. CASE m # e.month
      BY <2>3, <3>3 DEF BillingInv, TypeOK
    <3>4. QED
      BY <3>2, <3>3
  <2>5. ASSUME NEW r \in Settlers PROVE TaskWhole(r)'
    <3>1. CASE r = s
      <4>1. settle'[r].pc = "idle"
        BY <1>6, <3>1 DEF MarkReported, TypeOK, NoTask
      <4>2. QED
        BY <4>1 DEF TaskWhole
    <3>2. CASE r # s
      <4>1. settle'[r] = settle[r] /\ settle[r].event \in Event
        BY <1>6, <3>2 DEF MarkReported, TypeOK, SettleState
      <4>2. QED
        BY <1>2, <2>1, <4>1, TaskWholeAfter DEF BillingInv, TaskWhole
    <3>3. QED
      BY <3>1, <3>2
  <2>6. \A f \in meter' : WholeOverage(f)'
    BY <1>2, <1>3, <2>1 DEF BillingInv
  <2>7. QED
    BY <2>1, <2>4, <2>5, <2>6 DEF BillingInv
<1>7. Dispatch \subseteq {"batch"}
  BY QuotaAssumption DEF BatchOnly
<1>8. Settled("batch") \subseteq Month
  BY DEF Settled
<1>9. QED
  BY <1>4, <1>5, <1>6, <1>7, <1>8 DEF SettleStep

\* The inductive step for BillingInv, whatever the system does.
LEMMA BillingStep ==
  ASSUME BatchOnly, TypeOK, BillingInv, [Next]_vars
  PROVE  BillingInv'
<1>1. CASE UNCHANGED vars
  BY <1>1 DEF vars, BillingInv, TaskWhole, WholeOverage, Closed, CallAt, UnitsFor
<1>2. CASE (\E c \in Calls : CallStep(c)) \/ Midnight
  <2>0. Next
    BY <1>2 DEF Next
  <2>1. /\ UNCHANGED <<settle, meter>>
        /\ \A m \in Month : usage'[m].reported = usage[m].reported
    <3>1. Month # {}
      BY QuotaAssumption DEF Month
    <3>2. QED
      BY <1>2, <3>1, CallsDoNotSettle
  <2>2. \A f \in Event : WholeOverage(f) => WholeOverage(f)'
    BY <2>0, WholeOverageStays
  <2>3. \A f \in meter' : WholeOverage(f)'
    BY <2>1, <2>2 DEF BillingInv, TypeOK
  <2>4. ASSUME NEW r \in Settlers PROVE TaskWhole(r)'
    <3>1. settle'[r] = settle[r] /\ settle[r].event \in Event
      BY <2>1 DEF TypeOK, SettleState
    <3>2. QED
      BY <2>1, <2>2, <3>1, TaskWholeAfter DEF BillingInv, TaskWhole
  <2>5. QED
    BY <2>1, <2>3, <2>4 DEF BillingInv
<1>3. ASSUME NEW s \in Settlers, SettleStep(s) PROVE BillingInv'
  BY <1>3, SettlementsWhole DEF Next
<1>4. QED
  BY <1>1, <1>2, <1>3 DEF Next

\* A month is billed by one event or by none.
LEMMA BilledOnce ==
  ASSUME TypeOK, BillingInv, NEW m \in Month
  PROVE  \/ EventsOf(m) = {} /\ Billed(m) = 0
         \/ \E e \in meter : /\ e.month = m /\ usage[m].overage > 0
                            /\ e.units = UnitsFor(usage[m].overage)
                            /\ Billed(m) = e.units
<1> DEFINE units == [e \in meter |-> e.units]
<1>1. Billed(m) = SumFunctionOnSet(units, EventsOf(m))
  BY DEF Billed
<1>2. CASE EventsOf(m) = {}
  <2>1. SumFunctionOnSet(units, {}) = 0
    BY SumNext, FS_EmptySet
  <2>2. QED
    BY <1>1, <1>2, <2>1
<1>3. CASE EventsOf(m) # {}
  <2>1. PICK e \in meter : e.month = m
    BY <1>3 DEF EventsOf
  <2>2. \A f \in meter : f.month = m =>
          /\ usage[m].overage > 0
          /\ f = [month |-> m, credited |-> 0, units |-> UnitsFor(usage[m].overage)]
    BY DEF BillingInv, WholeOverage
  <2>3. EventsOf(m) = {e}
    BY <2>1, <2>2 DEF EventsOf
  <2>4. units[e] \in Int
    BY <2>1 DEF TypeOK, Event
  <2>5. SumFunctionOnSet(units, {e}) = units[e] + SumFunctionOnSet(units, {e} \ {e})
    BY <2>4, SumRemove, FS_Singleton
  <2>6. {e} \ {e} = {} /\ SumFunctionOnSet(units, {}) = 0
    BY SumNext, FS_EmptySet
  <2>7. Billed(m) = e.units
    <3>1. units[e] = e.units
      BY <2>1
    <3> HIDE DEF units
    <3>2. Billed(m) = units[e] + 0
      BY <1>1, <2>3, <2>5, <2>6
    <3>3. QED
      BY <2>4, <3>1, <3>2
  <2>8. e.units = UnitsFor(usage[m].overage)
    BY <2>1, <2>2
  <2>9. QED
    BY <2>1, <2>2, <2>7, <2>8
<1>4. QED
  BY <1>2, <1>3

\* Every event the batch ever sends, or is about to send, tells Stripe all of
\* the overage of a month that no call can add to any more.
THEOREM BillingInvariant == BatchOnly => (Spec => []BillingInv)
<1> SUFFICES ASSUME BatchOnly PROVE Spec => []BillingInv
  OBVIOUS
<1>1. Init => BillingInv
  BY DEF Init, BillingInv, TaskWhole, NoTask
<1>2. TypeOK /\ BillingInv /\ [Next]_vars => BillingInv'
  BY BillingStep
<1>3. QED
  BY <1>1, <1>2, TypeCorrect, PTL DEF Spec

\* Whatever is lost on the way to Stripe and back, and however often the batch
\* is repeated, a month is billed less than one unit over its overage.
THEOREM NeverOverbilledHolds == BatchOnly => (Spec => []NeverOverbilled)
<1>1. TypeOK /\ BillingInv => NeverOverbilled
  <2>1. SUFFICES ASSUME TypeOK, BillingInv, NEW m \in Month
                 PROVE  Unit * Billed(m) < usage[m].overage + Unit
    BY DEF NeverOverbilled
  <2>2. usage[m].overage \in Nat /\ Unit \in Nat \ {0}
    BY <2>1, QuotaAssumption DEF TypeOK, UsageRow
  <2>3. CASE Billed(m) = 0
    BY <2>2, <2>3
  <2>4. CASE usage[m].overage > 0 /\ Billed(m) = UnitsFor(usage[m].overage)
    BY <2>2, <2>4, UnitsCover
  <2>5. QED
    BY <2>1, <2>3, <2>4, BilledOnce
<1>2. QED
  BY <1>1, TypeCorrect, BillingInvariant, PTL

\* Tokens are only noted as credited when Stripe has been told of them.
THEOREM NothingDroppedHolds == BatchOnly => (Spec => []NothingDropped)
<1>1. TypeOK /\ BillingInv => NothingDropped
  <2>1. SUFFICES ASSUME TypeOK, BillingInv, NEW m \in Month
                 PROVE  usage[m].reported <= Unit * Billed(m)
    BY DEF NothingDropped
  <2>2. usage[m].overage \in Nat /\ usage[m].reported \in Nat /\ Unit \in Nat \ {0}
    BY <2>1, QuotaAssumption DEF TypeOK, UsageRow
  <2>3. CASE EventsOf(m) = {} /\ Billed(m) = 0
    <3>1. usage[m].reported = 0
      BY <2>1, <2>3 DEF BillingInv, EventsOf
    <3>2. QED
      BY <2>2, <2>3, <3>1
  <2>4. ASSUME NEW e \in meter, e.month = m, usage[m].overage > 0,
               e.units = UnitsFor(usage[m].overage), Billed(m) = e.units
        PROVE  usage[m].reported <= Unit * Billed(m)
    <3>1. e.units \in Nat
      BY <2>1 DEF TypeOK, Event
    <3>2. \A f \in meter : f.month = m => f.units = e.units
      <4>1. TAKE f \in meter
      <4>2. HAVE f.month = m
      <4>3. f = [month |-> m, credited |-> 0, units |-> UnitsFor(usage[m].overage)]
        BY <2>1, <4>2 DEF BillingInv, WholeOverage
      <4>4. QED
        BY <2>4, <4>3
    <3>3. usage[m].reported = 0 \/ usage[m].reported = e.units * Unit
      BY <2>1, <3>2 DEF BillingInv
    <3>4. QED
      BY <2>2, <2>4, <3>1, <3>3
  <2>5. QED
    BY <2>1, <2>3, <2>4, BilledOnce
<1>2. QED
  BY <1>1, TypeCorrect, BillingInvariant, PTL

-------------------------------------------------------------------------------
(* The reservations of a month.                                            *)

\* The calls that hold a reservation, and those that gave one back twice.
Holding == {"provider", "lost"}

Overpaid == {"twice"}

\* A sum over started calls is an integer, and a finite one.
LEMMA EstimatesAreInt ==
  ASSUME TypeOK, StartedFinite, NEW m, NEW points, "new" \notin points
  PROVE  IsFiniteSet(CallsOf(m, points)) /\ Estimates(m, points) \in Int
<1>1. CallsOf(m, points) \in SUBSET {c \in Calls : ~CallAt(c, "new")}
  BY DEF CallsOf, CallAt
<1>2. IsFiniteSet(CallsOf(m, points))
  BY <1>1, FS_Subset DEF StartedFinite
<1>3. \A c \in CallsOf(m, points) : [d \in Calls |-> call[d].est][c] \in Int
  BY DEF CallsOf, TypeOK, CallState
<1>4. Estimates(m, points) \in Int
  BY <1>2, <1>3, SumRemove DEF Estimates
<1>5. QED
  BY <1>2, <1>4

\* The sum is the same while the same calls are in it, with the same estimates.
LEMMA EstimatesSame ==
  ASSUME TypeOK, StartedFinite, NEW m, NEW points, "new" \notin points,
         CallsOf(m, points)' = CallsOf(m, points),
         \A c \in CallsOf(m, points) : call'[c].est = call[c].est
  PROVE  Estimates(m, points)' = Estimates(m, points)
<1> DEFINE f == [c \in Calls |-> call[c].est]
           g == [c \in Calls |-> call'[c].est]
           S == CallsOf(m, points)
<1>1. IsFiniteSet(S)
  BY EstimatesAreInt
<1>2. \A c \in S : f[c] = g[c]
  BY DEF CallsOf
<1>3. Estimates(m, points) = SumFunctionOnSet(f, S)
  BY DEF Estimates
<1>4. Estimates(m, points)' = SumFunctionOnSet(g, S)
  BY DEF Estimates
<1> HIDE DEF f, g, S
<1>5. QED
  BY <1>1, <1>2, <1>3, <1>4, SumCong

\* A call that joins adds its estimate.
LEMMA EstimatesJoin ==
  ASSUME TypeOK, StartedFinite, NEW m, NEW points, "new" \notin points,
         NEW c \in Calls, c \notin CallsOf(m, points),
         CallsOf(m, points)' = CallsOf(m, points) \cup {c},
         \A d \in CallsOf(m, points)' : call'[d].est = call[d].est
  PROVE  Estimates(m, points)' = Estimates(m, points) + call[c].est
<1> DEFINE f == [d \in Calls |-> call[d].est]
           g == [d \in Calls |-> call'[d].est]
           S == CallsOf(m, points)
<1>1. IsFiniteSet(S) /\ IsFiniteSet(S \cup {c}) /\ S = (S \cup {c}) \ {c}
  BY EstimatesAreInt, FS_AddElement
<1>2. \A d \in S \cup {c} : f[d] = g[d] /\ f[d] \in Int
  BY DEF CallsOf, TypeOK, CallState
<1>3. Estimates(m, points) = SumFunctionOnSet(f, S) /\ SumFunctionOnSet(f, S) \in Int
  BY EstimatesAreInt DEF Estimates
<1>4. Estimates(m, points)' = SumFunctionOnSet(g, S \cup {c})
  BY DEF Estimates
<1>5. f[c] = call[c].est
  OBVIOUS
<1> HIDE DEF f, g, S
<1>6. SumFunctionOnSet(g, S \cup {c}) = SumFunctionOnSet(f, S \cup {c})
  BY <1>1, <1>2, SumCong
<1>7. SumFunctionOnSet(f, S \cup {c}) = f[c] + SumFunctionOnSet(f, S)
  <2>1. c \in S \cup {c}
    OBVIOUS
  <2>2. SumFunctionOnSet(f, S \cup {c}) = f[c] + SumFunctionOnSet(f, (S \cup {c}) \ {c})
    BY <1>1, <1>2, <2>1, SumRemove
  <2>3. QED
    BY <1>1, <2>2
<1>8. f[c] \in Int
  BY <1>2
<1>9. QED
  BY <1>3, <1>4, <1>5, <1>6, <1>7, <1>8

\* ... and one that leaves takes it away.
LEMMA EstimatesLeave ==
  ASSUME TypeOK, StartedFinite, NEW m, NEW points, "new" \notin points,
         NEW c \in CallsOf(m, points),
         CallsOf(m, points)' = CallsOf(m, points) \ {c},
         \A d \in CallsOf(m, points) : call'[d].est = call[d].est
  PROVE  Estimates(m, points)' = Estimates(m, points) - call[c].est
<1> DEFINE f == [d \in Calls |-> call[d].est]
           g == [d \in Calls |-> call'[d].est]
           S == CallsOf(m, points)
<1>1. IsFiniteSet(S) /\ IsFiniteSet(S \ {c})
  BY EstimatesAreInt, FS_RemoveElement
<1>2. \A d \in S : f[d] = g[d] /\ f[d] \in Int
  BY DEF CallsOf, TypeOK, CallState
<1>3. Estimates(m, points) = SumFunctionOnSet(f, S)
  BY DEF Estimates
<1>4. Estimates(m, points)' = SumFunctionOnSet(g, S \ {c})
  BY DEF Estimates
<1>5. f[c] = call[c].est /\ c \in S
  BY DEF CallsOf
<1> HIDE DEF f, g, S
<1>6. SumFunctionOnSet(g, S \ {c}) = SumFunctionOnSet(f, S \ {c})
  BY <1>1, <1>2, SumCong
<1>7. SumFunctionOnSet(f, S) = f[c] + SumFunctionOnSet(f, S \ {c})
  BY <1>1, <1>2, <1>5, SumRemove
<1>8. f[c] \in Int /\ SumFunctionOnSet(f, S \ {c}) \in Int
  BY <1>1, <1>2, <1>5, SumRemove
<1>9. QED
  BY <1>3, <1>4, <1>5, <1>6, <1>7, <1>8

\* How the estimates move when call c goes on from where it is, to point p, with
\* the month it has.
LEMMA CallMoves ==
  ASSUME TypeOK, StartedFinite, NEW m \in Month, NEW c \in Calls, NEW p \in CallPoints,
         ~CallAt(c, "new"), p # "new", GotoCall(c, p),
         NEW points, "new" \notin points
  PROVE  Estimates(m, points)' = Estimates(m, points)
           + (IF call[c].month = m /\ p \in points THEN call[c].est ELSE 0)
           - (IF call[c].month = m /\ call[c].pc \in points THEN call[c].est ELSE 0)
<1> DEFINE S == CallsOf(m, points)
<1>1. /\ call'[c].est = call[c].est /\ call'[c].month = call[c].month /\ call'[c].pc = p
      /\ \A d \in Calls : d # c => call'[d] = call[d]
      /\ call[c].est \in Nat
  BY DEF GotoCall, TypeOK, CallState
<1>2. \A d \in Calls : call'[d].est = call[d].est
  BY <1>1
<1>3. S' = {d \in Calls : call'[d].month = m /\ call'[d].pc \in points}
  BY DEF CallsOf
<1>4. Estimates(m, points) \in Int
  BY EstimatesAreInt
<1>5. CASE (call[c].month = m /\ p \in points) <=> (call[c].month = m /\ call[c].pc \in points)
  <2>1. S' = S
    BY <1>1, <1>3, <1>5 DEF CallsOf
  <2>2. Estimates(m, points)' = Estimates(m, points)
    BY <1>2, <2>1, EstimatesSame DEF CallsOf
  <2>3. QED
    BY <1>1, <1>4, <1>5, <2>2
<1>6. CASE call[c].month = m /\ p \in points /\ call[c].pc \notin points
  <2>1. S' = S \cup {c} /\ c \notin S
    BY <1>1, <1>3, <1>6 DEF CallsOf
  <2>2. Estimates(m, points)' = Estimates(m, points) + call[c].est
    BY <1>2, <2>1, EstimatesJoin DEF CallsOf
  <2>3. QED
    BY <1>1, <1>4, <1>6, <2>2
<1>7. CASE call[c].month = m /\ p \notin points /\ call[c].pc \in points
  <2>1. S' = S \ {c} /\ c \in S
    BY <1>1, <1>3, <1>7 DEF CallsOf
  <2>2. Estimates(m, points)' = Estimates(m, points) - call[c].est
    BY <1>2, <2>1, EstimatesLeave DEF CallsOf
  <2>3. QED
    BY <1>1, <1>4, <1>7, <2>2
<1>8. QED
  BY <1>5, <1>6, <1>7

\* What a row holds reserved for the calls of month m.
Balance(m) == usage[m].reserved = Estimates(m, Holding) - Estimates(m, Overpaid)

\* A call that goes on to point p leaves every balance right, provided the row of
\* its month loses what the call's move takes out of the sums.
LEMMA BalanceKept ==
  ASSUME TypeOK, StartedFinite, ReservedAccounted, NEW c \in Calls, NEW p \in CallPoints,
         ~CallAt(c, "new"), p # "new", GotoCall(c, p), NEW lost \in Int,
         \A m \in Month : usage'[m].reserved = usage[m].reserved -
                          (IF m = call[c].month THEN lost ELSE 0),
         lost = (IF call[c].pc \in Holding THEN call[c].est ELSE 0)
                - (IF p \in Holding THEN call[c].est ELSE 0)
                + (IF p \in Overpaid THEN call[c].est ELSE 0)
                - (IF call[c].pc \in Overpaid THEN call[c].est ELSE 0)
  PROVE  ReservedAccounted'
<1>1. "new" \notin Holding /\ "new" \notin Overpaid
  BY DEF Holding, Overpaid
<1>2. call[c].est \in Nat
  BY DEF TypeOK, CallState
<1>3. ASSUME NEW m \in Month PROVE Balance(m)'
  <2>1. Balance(m) /\ usage[m].reserved \in Int
    BY DEF ReservedAccounted, Balance, Holding, Overpaid, TypeOK, UsageRow
  <2>2. Estimates(m, Holding) \in Int /\ Estimates(m, Overpaid) \in Int
    BY <1>1, EstimatesAreInt
  <2>3. /\ Estimates(m, Holding)' = Estimates(m, Holding)
             + (IF call[c].month = m /\ p \in Holding THEN call[c].est ELSE 0)
             - (IF call[c].month = m /\ call[c].pc \in Holding THEN call[c].est ELSE 0)
        /\ Estimates(m, Overpaid)' = Estimates(m, Overpaid)
             + (IF call[c].month = m /\ p \in Overpaid THEN call[c].est ELSE 0)
             - (IF call[c].month = m /\ call[c].pc \in Overpaid THEN call[c].est ELSE 0)
    BY <1>1, CallMoves
  <2>4. usage'[m].reserved = Estimates(m, Holding)' - Estimates(m, Overpaid)'
    BY <1>2, <2>1, <2>2, <2>3 DEF Balance
  <2>5. QED
    BY <2>4 DEF Balance, Holding, Overpaid
<1>4. QED
  BY <1>3 DEF ReservedAccounted, Balance, Holding, Overpaid

\* Every step keeps the reservations of a month in step with its calls.
LEMMA ReservedStep ==
  ASSUME TypeOK, StartedFinite, ReservedAccounted, [Next]_vars
  PROVE  ReservedAccounted'
<1>0. "new" \notin Holding /\ "new" \notin Overpaid
  BY DEF Holding, Overpaid
<1>1. ASSUME UNCHANGED call, \A m \in Month : usage'[m].reserved = usage[m].reserved
      PROVE  ReservedAccounted'
  BY <1>1 DEF ReservedAccounted, Estimates, CallsOf
<1>2. CASE UNCHANGED vars \/ Midnight
  BY <1>1, <1>2 DEF vars, Midnight
<1>3. ASSUME NEW s \in Settlers, SettleStep(s) PROVE ReservedAccounted'
  <2>1. UNCHANGED call
    BY <1>3 DEF SettleStep, ReadUsage, SendEvent, MarkReported
  <2>2. \A m \in Month : usage'[m].reserved = usage[m].reserved
    BY <1>3 DEF SettleStep, ReadUsage, SendEvent, MarkReported, TypeOK, UsageRow
  <2>3. QED
    BY <1>1, <2>1, <2>2
<1>4. ASSUME NEW c \in Calls, NEW n \in Sizes, CheckQuota(c, n) PROVE ReservedAccounted'
  <2>1. /\ call' = [call EXCEPT ![c] = [pc |-> "admitted", est |-> n, month |-> month]]
        /\ call[c].pc = "new" /\ UNCHANGED usage
    BY <1>4 DEF CheckQuota, CallAt
  <2>2. ASSUME NEW m \in Month, NEW points, "new" \notin points, "admitted" \notin points
        PROVE  Estimates(m, points)' = Estimates(m, points)
    <3>1. /\ CallsOf(m, points)' = CallsOf(m, points)
          /\ \A d \in CallsOf(m, points) : call'[d].est = call[d].est
      BY <2>1, <2>2 DEF CallsOf, TypeOK
    <3>2. QED
      BY <2>2, <3>1, EstimatesSame
  <2>3. \A m \in Month : /\ Estimates(m, Holding)' = Estimates(m, Holding)
                         /\ Estimates(m, Overpaid)' = Estimates(m, Overpaid)
    BY <2>2 DEF Holding, Overpaid
  <2>4. QED
    BY <2>1, <2>3 DEF ReservedAccounted, Holding, Overpaid
<1>5. ASSUME NEW c \in Calls, Reserve(c) PROVE ReservedAccounted'
  <2>1. /\ call' = [call EXCEPT ![c].pc = "provider", ![c].month = month]
        /\ call[c].pc = "admitted" /\ call[c] \in CallState /\ call[c].est \in Nat
        /\ month \in Month
    BY <1>5 DEF Reserve, CallAt, TypeOK, CallState
  <2>2. /\ call'[c].pc = "provider" /\ call'[c].month = month /\ call'[c].est = call[c].est
        /\ \A d \in Calls : d # c => call'[d] = call[d]
    BY <2>1 DEF TypeOK, CallState
  <2>3. \A m \in Month : usage'[m].reserved =
          usage[m].reserved + (IF m = month THEN call[c].est ELSE 0)
    BY <1>5, <2>1 DEF Reserve, TypeOK, UsageRow
  <2>4. ASSUME NEW m \in Month PROVE Balance(m)'
    <3>1. Balance(m) /\ usage[m].reserved \in Int
      BY DEF ReservedAccounted, Balance, Holding, Overpaid, TypeOK, UsageRow
    <3>2. Estimates(m, Holding) \in Int /\ Estimates(m, Overpaid) \in Int
      BY <1>0, EstimatesAreInt
    <3>3. Estimates(m, Overpaid)' = Estimates(m, Overpaid)
      <4>1. CallsOf(m, Overpaid)' = CallsOf(m, Overpaid)
        BY <2>1, <2>2 DEF CallsOf, Overpaid
      <4>2. QED
        BY <1>0, <2>2, <4>1, EstimatesSame DEF CallsOf
    <3>4. CASE m = month
      <4>1. CallsOf(m, Holding)' = CallsOf(m, Holding) \cup {c} /\ c \notin CallsOf(m, Holding)
        BY <2>1, <2>2, <3>4 DEF CallsOf, Holding
      <4>2. \A d \in CallsOf(m, Holding)' : call'[d].est = call[d].est
        BY <2>2 DEF CallsOf
      <4>3. Estimates(m, Holding)' = Estimates(m, Holding) + call[c].est
        BY <1>0, <4>1, <4>2, EstimatesJoin
      <4>4. usage'[m].reserved = Estimates(m, Holding)' - Estimates(m, Overpaid)'
        BY <2>1, <2>3, <3>1, <3>2, <3>3, <3>4, <4>3 DEF Balance
      <4>5. QED
        BY <4>4 DEF Balance, Holding, Overpaid
    <3>5. CASE m # month
      <4>1. CallsOf(m, Holding)' = CallsOf(m, Holding)
        BY <2>1, <2>2, <3>5 DEF CallsOf, Holding
      <4>2. Estimates(m, Holding)' = Estimates(m, Holding)
        BY <1>0, <2>2, <4>1, EstimatesSame DEF CallsOf
      <4>3. usage'[m].reserved = Estimates(m, Holding)' - Estimates(m, Overpaid)'
        BY <2>1, <2>3, <3>1, <3>2, <3>3, <3>5, <4>2 DEF Balance
      <4>4. QED
        BY <4>3 DEF Balance, Holding, Overpaid
    <3>6. QED
      BY <3>4, <3>5
  <2>5. QED
    BY <2>4 DEF ReservedAccounted, Balance, Holding, Overpaid
<1>6. ASSUME NEW c \in Calls, NEW row,
             usage' = [usage EXCEPT ![call[c].month] = row],
             row.reserved = usage[call[c].month].reserved - call[c].est
      PROVE  \A m \in Month : usage'[m].reserved =
               usage[m].reserved - (IF m = call[c].month THEN call[c].est ELSE 0)
  BY <1>6 DEF TypeOK, UsageRow
<1>7. ASSUME NEW c \in Calls, NEW n \in Sizes, Commit(c, n) PROVE ReservedAccounted'
  <2> DEFINE row == Committed(usage[call[c].month], c, n)
  <2>1. usage' = [usage EXCEPT ![call[c].month] = row] /\ GotoCall(c, "log") /\ CallAt(c, "provider")
    BY <1>7 DEF Commit, ChargedMonth
  <2>2. usage[call[c].month] \in UsageRow /\ call[c].est \in Nat
    BY DEF TypeOK, CallState
  <2>3. row.reserved = usage[call[c].month].reserved - call[c].est
    BY <2>2 DEF Committed, Returned, UsageRow
  <2>4. \A m \in Month : usage'[m].reserved =
               usage[m].reserved - (IF m = call[c].month THEN call[c].est ELSE 0)
    BY <1>6, <2>1, <2>3
  <2>5. QED
    BY <2>1, <2>2, <2>4, BalanceKept DEF CallAt, CallPoints, Holding, Overpaid
<1>8. ASSUME NEW c \in Calls, Release(c) \/ LogCostFails(c) PROVE ReservedAccounted'
  <2> DEFINE row == Returned(usage[call[c].month], c)
  <2>1. usage' = [usage EXCEPT ![call[c].month] = row]
    BY <1>8 DEF Release, LogCostFails, ChargedMonth
  <2>2. usage[call[c].month] \in UsageRow /\ call[c].est \in Nat
    BY DEF TypeOK, CallState
  <2>3. row.reserved = usage[call[c].month].reserved - call[c].est
    BY <2>2 DEF Returned, UsageRow
  <2>4. \A m \in Month : usage'[m].reserved =
               usage[m].reserved - (IF m = call[c].month THEN call[c].est ELSE 0)
    BY <1>6, <2>1, <2>3
  <2>5. CASE Release(c)
    <3>1. GotoCall(c, "done") /\ CallAt(c, "provider")
      BY <2>5 DEF Release
    <3>2. QED
      BY <2>2, <2>4, <3>1, BalanceKept DEF CallAt, CallPoints, Holding, Overpaid
  <2>6. CASE LogCostFails(c)
    <3>1. GotoCall(c, "twice") /\ CallAt(c, "log")
      BY <2>6 DEF LogCostFails
    <3>2. QED
      BY <2>2, <2>4, <3>1, BalanceKept DEF CallAt, CallPoints, Holding, Overpaid
  <2>7. QED
    BY <1>8, <2>5, <2>6
<1>9. ASSUME NEW c \in Calls, LogCost(c) \/ LoseCall(c) PROVE ReservedAccounted'
  <2>1. call[c].est \in Nat /\ UNCHANGED usage
    BY <1>9 DEF TypeOK, CallState, LogCost, LoseCall
  <2>2. \A m \in Month : usage'[m].reserved =
               usage[m].reserved - (IF m = call[c].month THEN 0 ELSE 0)
    BY <2>1 DEF TypeOK, UsageRow
  <2>3. CASE LogCost(c)
    <3>1. GotoCall(c, "done") /\ CallAt(c, "log")
      BY <2>3 DEF LogCost
    <3>2. QED
      BY <2>1, <2>2, <3>1, BalanceKept DEF CallAt, CallPoints, Holding, Overpaid
  <2>4. CASE LoseCall(c)
    <3>1. GotoCall(c, "lost") /\ CallAt(c, "provider")
      BY <2>4 DEF LoseCall
    <3>2. QED
      BY <2>1, <2>2, <3>1, BalanceKept DEF CallAt, CallPoints, Holding, Overpaid
  <2>5. QED
    BY <1>9, <2>3, <2>4
<1>10. QED
  BY <1>2, <1>3, <1>4, <1>5, <1>7, <1>8, <1>9 DEF Next, CallStep

\* Only one call starts at a time.
LEMMA StartedStaysFinite ==
  ASSUME TypeOK, StartedFinite, [Next]_vars
  PROVE  StartedFinite'
<1> DEFINE S == {c \in Calls : ~CallAt(c, "new")}
<1>1. \E x : S' \subseteq S \cup {x}
  <2>1. CASE \E c \in Calls : CallStep(c)
    <3>1. PICK c \in Calls : CallStep(c)
      BY <2>1
    <3>2. \A d \in Calls : d # c => call'[d] = call[d]
      BY <3>1 DEF CallStep, CheckQuota, Reserve, Commit, Release, LogCost, LogCostFails, LoseCall,
           GotoCall, TypeOK
    <3>3. S' \subseteq S \cup {c}
      BY <3>2 DEF CallAt
    <3>4. QED
      BY <3>3
  <2>2. CASE UNCHANGED call
    BY <2>2 DEF CallAt
  <2>3. QED
    BY <2>1, <2>2 DEF Next, Midnight, SettleStep, ReadUsage, SendEvent, MarkReported, vars
<1>2. PICK x : S' \subseteq S \cup {x}
  BY <1>1
<1>3. IsFiniteSet(S \cup {x})
  BY FS_AddElement DEF StartedFinite
<1>4. IsFiniteSet(S')
  BY <1>2, <1>3, FS_Subset
<1>5. QED
  BY <1>4 DEF StartedFinite

\* For any number of calls, of any size and over any number of months, what a
\* month has reserved is what its running and its dead calls estimated, less
\* what calls with a failed cost log gave back a second time.
THEOREM ReservedAccountedHolds == Spec => []ReservedAccounted
<1>1. Init => StartedFinite /\ ReservedAccounted
  <2> SUFFICES ASSUME Init PROVE StartedFinite /\ ReservedAccounted
    OBVIOUS
  <2>1. {c \in Calls : ~CallAt(c, "new")} = {}
    BY DEF Init, CallAt
  <2>2. \A m \in Month : CallsOf(m, Holding) = {} /\ CallsOf(m, Overpaid) = {}
    BY DEF Init, CallsOf, Holding, Overpaid
  <2>3. \A m \in Month : Estimates(m, Holding) = 0 /\ Estimates(m, Overpaid) = 0
    BY <2>2, SumNext, FS_EmptySet DEF Estimates
  <2>4. \A m \in Month : usage[m].reserved = 0
    BY DEF Init
  <2>5. QED
    BY <2>1, <2>3, <2>4, FS_EmptySet DEF StartedFinite, ReservedAccounted, Holding, Overpaid
<1>2. TypeOK /\ StartedFinite /\ ReservedAccounted /\ [Next]_vars
        => (StartedFinite /\ ReservedAccounted)'
  BY ReservedStep, StartedStaysFinite
<1>3. QED
  BY <1>1, <1>2, TypeCorrect, PTL DEF Spec

===============================================================================
