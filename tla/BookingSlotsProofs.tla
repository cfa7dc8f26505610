--------------------------- MODULE BookingSlotsProofs ---------------------------
(***************************************************************************)
(* Proofs about BookingSlots, for any accounts, calendars, links, rules,   *)
(* requests and sessions; links may be edited and deleted at will.         *)
(***************************************************************************)
EXTENDS BookingSlots, TLAPS

-------------------------------------------------------------------------------
(* Types, and what a request knows at each of its points.                  *)

\* Where a booking can be; where it holds its calendars, and the link.
BookPoints == {"peek", "user", "calendars", "link", "existing", "replace", "check", "write"}
HeldPoints == {"link", "existing", "replace", "check", "write"}
OwnPoints  == {"existing", "replace", "check", "write"}

\* What is replaced or edited is there, and what will be written is in wants.
JobOK(r) ==
  /\ job[r].old \in 0 .. Len(bookings)
  /\ job[r].pc \in {"replace", "cancel", "delete", "move"} => job[r].old # None
  /\ job[r].pc \in {"new", "peek", "user", "calendars", "link", "existing"} => job[r].old = None
  /\ job[r].pc \in BookPoints \cup {"move"} => job[r].start \in Times
  /\ job[r].pc \in BookPoints => /\ job[r].link \in Links
                                 /\ job[r].cal \in Calendars
                                 /\ job[r].cal \in job[r].wants
  /\ job[r].pc = "user" => HasDiary(job[r].link, job[r].guest)
  /\ job[r].pc \in HeldPoints \cup {"calendars"} /\ HasDiary(job[r].link, job[r].guest)
       => Diary[job[r].guest] \in job[r].wants

Typed == TypeOK /\ \A r \in Requests : JobOK(r)

\* A request that ends gives up what it has locked and keeps nothing.
LEMMA FinishTyped ==
  ASSUME TypeOK, NEW r \in Requests, Finish(r)
  PROVE  /\ job' \in [Requests -> Job]
         /\ calLock' \in [Calendars -> Requests \cup {Free}]
         /\ userLock' \in [Users -> Requests \cup {Free}]
         /\ linkLock' \in [Links -> Requests \cup {Free}]
         /\ job'[r] = [NoJob EXCEPT !.pc = "done"]
         /\ \A q \in Requests \ {r} : job'[q] = job[q]
<1>1. [NoJob EXCEPT !.pc = "done"] \in Job
  BY DEF NoJob, Job, Points, None, Guests
<1>2. QED
  BY <1>1 DEF TypeOK, Finish, Unlocked

\* A request that has ended needs nothing.
LEMMA DoneOK ==
  ASSUME NEW r \in Requests, bookings' \in Seq(Booking), job'[r] = [NoJob EXCEPT !.pc = "done"]
  PROVE  JobOK(r)'
<1>1. Len(bookings') \in Nat
  OBVIOUS
<1>2. QED
  BY <1>1 DEF JobOK, NoJob, None, BookPoints, HeldPoints

\* The jobs of others.
LEMMA OthersOK ==
  ASSUME NEW r \in Requests, JobOK(r), bookings \in Seq(Booking), bookings' \in Seq(Booking),
         Len(bookings) <= Len(bookings'), job'[r] = job[r]
  PROVE  JobOK(r)'
BY DEF JobOK, HasDiary

\* No request has come yet.
LEMMA TypedInit == ASSUME Init PROVE Typed
<1>1. TypeOK
  <2>1. NoJob \in Job
    BY DEF NoJob, Job, Points, None, Guests
  <2>2. bookings \in Seq(Booking) /\ Len(bookings) = 0
    BY DEF Init
  <2>3. link \in [Links -> LinkRow]
    <3>1. 1 \in Slugs
      BY BookingAssumption DEF Slugs
    <3>2. \A x \in [cal : Calendars, active : {TRUE}, slug : {1}] : x \in LinkRow
      BY <3>1 DEF LinkRow
    <3>3. QED
      BY <3>2 DEF Init
  <2>4. edits \in Nat /\ faults \in Nat /\ session \in Sessions
    BY BookingAssumption DEF Init, Session
  <2>5. QED
    BY <2>1, <2>2, <2>3, <2>4, BookingAssumption DEF Init, TypeOK, None
<1>2. \A r \in Requests : JobOK(r)
  BY DEF Init, JobOK, NoJob, None, BookPoints, HeldPoints
<1>3. QED
  BY <1>1, <1>2 DEF Typed

\* Only one request moves in a step.
LEMMA JobsStep ==
  ASSUME Typed, NEW r \in Requests, job' \in [Requests -> Job],
         \A q \in Requests \ {r} : job'[q] = job[q],
         bookings' \in Seq(Booking), Len(bookings) <= Len(bookings'), JobOK(r)'
  PROVE  \A q \in Requests : JobOK(q)'
<1>1. \A q \in Requests \ {r} : JobOK(q)'
  BY OthersOK DEF Typed, TypeOK
<1>2. QED
  BY <1>1

\* A request goes on, and nothing is written.
LEMMA OnlyJob ==
  ASSUME Typed, NEW r \in Requests, job' \in [Requests -> Job],
         \A q \in Requests \ {r} : job'[q] = job[q], JobOK(r)', UNCHANGED <<link, bookings, invite>>,
         calLock' \in [Calendars -> Requests \cup {Free}],
         userLock' \in [Users -> Requests \cup {Free}],
         linkLock' \in [Links -> Requests \cup {Free}],
         edits' \in Nat, faults' \in Nat, session' = session
  PROVE  Typed'
<1>1. bookings' \in Seq(Booking) /\ Len(bookings) <= Len(bookings')
  BY DEF Typed, TypeOK
<1>2. \A q \in Requests : JobOK(q)'
  BY <1>1, JobsStep
<1>3. QED
  BY <1>2 DEF Typed, TypeOK

LEMMA FinishOnly ==
  ASSUME Typed, NEW r \in Requests, Finish(r), UNCHANGED <<link, bookings, invite>>,
         edits' \in Nat, faults' \in Nat, session' = session
  PROVE  Typed'
<1>1. bookings' \in Seq(Booking)
  BY DEF Typed, TypeOK
<1>2. TypeOK
  BY DEF Typed
<1>3. JobOK(r)'
  BY <1>1, <1>2, FinishTyped, DoneOK
<1>4. QED
  BY <1>2, <1>3, FinishTyped, OnlyJob

\* A number of a booking names a booking.
LEMMA BookingAt == ASSUME Typed, NEW b \in DOMAIN bookings PROVE bookings[b] \in Booking
<1>1. bookings \in Seq(Booking)
  BY DEF Typed, TypeOK
<1>2. QED
  BY <1>1

\* The requests, action by action: what is kept of the types.
LEMMA BookTyped ==
  ASSUME Typed, NEW r \in Requests, Book(r)
  PROVE  Typed'
<1>1. PICK l \in Links, g \in session.guests, s \in Times :
        job' = [job EXCEPT ![r] = [@ EXCEPT !.pc = "peek", !.link = l, !.guest = g, !.start = s,
                                            !.cal = link[l].cal, !.wants = {link[l].cal}]]
  BY DEF Book
<1> DEFINE j == [job[r] EXCEPT !.pc = "peek", !.link = l, !.guest = g, !.start = s,
                               !.cal = link[l].cal, !.wants = {link[l].cal}]
<1>2. g \in Guests
  BY BookingAssumption DEF Session, Typed, TypeOK
<1>3. link[l].cal \in Calendars /\ job[r] \in Job /\ s \in Nat
  BY BookingAssumption DEF LinkRow, Typed, TypeOK
<1>4. j \in Job
  BY <1>2, <1>3 DEF Job, Points
<1>5. /\ job'[r] = j
      /\ \A q \in Requests \ {r} : job'[q] = job[q]
      /\ job' \in [Requests -> Job]
  BY <1>1, <1>4 DEF Typed, TypeOK
<1>6. JobOK(r)'
  <2>1. job[r].old \in 0 .. Len(bookings) /\ job[r].old = None /\ bookings' = bookings
    BY DEF Typed, JobOK, Book, Arrives, At
  <2>2. /\ j.old = job[r].old /\ j.pc = "peek" /\ j.start = s /\ j.link = l
        /\ j.cal = link[l].cal /\ j.wants = {link[l].cal}
    BY <1>3 DEF Job
  <2> HIDE DEF j
  <2>3. QED
    BY <1>3, <1>5, <2>1, <2>2 DEF JobOK, BookPoints, HeldPoints
<1>7. QED
  BY <1>5, <1>6, OnlyJob DEF Book, locks, meter, Typed, TypeOK

LEMMA PeekTyped ==
  ASSUME Typed, NEW r \in Requests, Peek(r)
  PROVE  Typed'
<1>1. PICK old \in Existing(job[r].link, job[r].guest) :
        job' = [job EXCEPT ![r].pc = IF HasDiary(job[r].link, job[r].guest) THEN "user" ELSE "calendars",
                           ![r].wants = IF old = None THEN @ ELSE @ \cup {bookings[old].cal}]
  BY DEF Peek
<1> DEFINE j == job'[r]
<1>2. old = None \/ (old \in DOMAIN bookings /\ old # None)
  BY DEF Existing, Upcoming, Typed, TypeOK, None
<1>3. job[r] \in Job /\ JobOK(r) /\ job[r].pc = "peek"
  BY DEF Typed, TypeOK, Peek, At
<1>4. old # None => bookings[old].cal \in Calendars
  BY <1>2, BookingAt DEF Booking
<1>5. /\ j = [job[r] EXCEPT !.pc = IF HasDiary(job[r].link, job[r].guest) THEN "user" ELSE "calendars",
                            !.wants = IF old = None THEN @ ELSE @ \cup {bookings[old].cal}]
      /\ \A q \in Requests \ {r} : job'[q] = job[q]
  BY <1>1 DEF Typed, TypeOK
<1>6. j \in Job
  <2> DEFINE p == IF HasDiary(job[r].link, job[r].guest) THEN "user" ELSE "calendars"
             w == IF old = None THEN job[r].wants ELSE job[r].wants \cup {bookings[old].cal}
  <2>1. p \in Points
    BY DEF Points
  <2>2. w \in SUBSET Calendars
    BY <1>3, <1>4 DEF Job
  <2>3. j = [job[r] EXCEPT !.pc = p, !.wants = w]
    BY <1>5
  <2> HIDE DEF j, p, w
  <2>4. QED
    BY <1>3, <2>1, <2>2, <2>3 DEF Job
<1>7. job' \in [Requests -> Job]
  BY <1>1, <1>6 DEF Typed, TypeOK
<1>8. JobOK(r)'
  <2>1. /\ j.old = job[r].old /\ j.pc \in {"user", "calendars"} /\ j.start = job[r].start
        /\ j.pc = "user" <=> HasDiary(job[r].link, job[r].guest)
        /\ j.link = job[r].link /\ j.guest = job[r].guest
        /\ j.cal = job[r].cal /\ job[r].wants \subseteq j.wants
    BY <1>3, <1>5 DEF Job
  <2>2. bookings' = bookings
    BY DEF Peek
  <2>3. QED
    BY <1>3, <2>1, <2>2 DEF JobOK, BookPoints, HeldPoints, HasDiary
<1>9. QED
  BY <1>5, <1>7, <1>8, OnlyJob DEF Peek, locks, meter, Typed, TypeOK

LEMMA LockUserTyped ==
  ASSUME Typed, NEW r \in Requests, LockUser(r)
  PROVE  Typed'
<1> DEFINE j == [job[r] EXCEPT !.pc = "calendars", !.wants = @ \cup {Diary[job[r].guest]}]
<1>1. job[r] \in Job /\ JobOK(r) /\ job[r].pc = "user"
  BY DEF Typed, TypeOK, LockUser, At
<1>2. job[r].guest \in Users /\ Diary[job[r].guest] \in Calendars
  BY <1>1, BookingAssumption DEF JobOK, HasDiary
<1>3. j \in Job
  BY <1>1, <1>2 DEF Job, Points
<1>4. job'[r] = j /\ (\A q \in Requests \ {r} : job'[q] = job[q]) /\ job' \in [Requests -> Job]
  BY <1>3 DEF LockUser, Typed, TypeOK
<1>5. JobOK(r)'
  <2>1. /\ j.old = job[r].old /\ j.pc = "calendars" /\ j.start = job[r].start
        /\ j.link = job[r].link /\ j.guest = job[r].guest
        /\ j.cal = job[r].cal /\ j.wants = job[r].wants \cup {Diary[job[r].guest]}
    BY <1>1 DEF Job
  <2>2. bookings' = bookings
    BY DEF LockUser
  <2> HIDE DEF j
  <2>3. QED
    BY <1>1, <1>4, <2>1, <2>2 DEF JobOK, BookPoints, HeldPoints, HasDiary
<1>6. userLock' \in [Users -> Requests \cup {Free}]
  BY DEF LockUser, Typed, TypeOK
<1>7. QED
  BY <1>4, <1>5, <1>6, OnlyJob DEF LockUser, meter, Typed, TypeOK

\* From the calendars on, a request only changes its point.
LEMMA GotoOK ==
  ASSUME Typed, NEW r \in Requests, NEW p \in HeldPoints \ {"replace"}, Goto(r, p),
         job[r].pc \in HeldPoints \cup {"calendars"}, bookings' = bookings,
         p \in {"link", "existing"} => job[r].pc \in {"calendars", "link"}
  PROVE  /\ job' \in [Requests -> Job]
         /\ job'[r] = [job[r] EXCEPT !.pc = p]
         /\ \A q \in Requests \ {r} : job'[q] = job[q]
         /\ JobOK(r)'
<1>1. job[r] \in Job /\ JobOK(r) /\ p \in Points
  BY DEF Typed, TypeOK, HeldPoints, Points
<1>2. [job[r] EXCEPT !.pc = p] \in Job
  BY <1>1 DEF Job
<1>3. /\ job' \in [Requests -> Job]
      /\ job'[r] = [job[r] EXCEPT !.pc = p]
      /\ \A q \in Requests \ {r} : job'[q] = job[q]
  BY <1>2 DEF Goto, Typed, TypeOK
<1>4. JobOK(r)'
  <2>1. /\ job'[r].pc = p /\ job'[r].old = job[r].old /\ job'[r].start = job[r].start
        /\ job'[r].link = job[r].link /\ job'[r].guest = job[r].guest
        /\ job'[r].cal = job[r].cal /\ job'[r].wants = job[r].wants
    BY <1>1, <1>3 DEF Job
  <2>2. p \notin {"replace", "cancel", "delete", "move", "user"} /\ p \in BookPoints
          /\ job[r].pc \in BookPoints
    BY DEF HeldPoints, BookPoints
  <2>3. p \in {"new", "peek", "user", "calendars", "link", "existing"} => job[r].old = None
    BY <1>1 DEF HeldPoints, JobOK
  <2>4. /\ job[r].old \in 0 .. Len(bookings)
        /\ job[r].start \in Times /\ job[r].link \in Links /\ job[r].cal \in Calendars
        /\ job[r].cal \in job[r].wants
        /\ HasDiary(job[r].link, job[r].guest) => Diary[job[r].guest] \in job[r].wants
    BY <1>1, <2>2 DEF JobOK
  <2>5. QED
    BY <2>1, <2>2, <2>3, <2>4 DEF JobOK, HasDiary
<1>5. QED
  BY <1>3, <1>4

LEMMA LockCalendarTyped ==
  ASSUME Typed, NEW r \in Requests, LockCalendar(r)
  PROVE  Typed'
<1>1. job[r].pc = "calendars" /\ bookings' = bookings
  BY DEF LockCalendar, At
<1>2. calLock' \in [Calendars -> Requests \cup {Free}]
  BY DEF LockCalendar, Typed, TypeOK
<1>3. CASE Goto(r, "link")
  BY <1>1, <1>2, <1>3, GotoOK, OnlyJob DEF LockCalendar, HeldPoints, meter, Typed, TypeOK
<1>4. CASE UNCHANGED job
  <2>1. JobOK(r)'
    BY <1>1, <1>4 DEF Typed, JobOK, HasDiary
  <2>2. QED
    BY <1>2, <1>4, <2>1, OnlyJob DEF LockCalendar, meter, Typed, TypeOK
<1>5. QED
  BY <1>3, <1>4 DEF LockCalendar

LEMMA LockLinkTyped ==
  ASSUME Typed, NEW r \in Requests, LockLink(r)
  PROVE  Typed'
<1>1. job[r].pc = "link" /\ bookings' = bookings
  BY DEF LockLink, At
<1>2. CASE Finish(r)
  BY <1>2, FinishOnly DEF LockLink, meter, Typed, TypeOK
<1>3. CASE linkLock' = [linkLock EXCEPT ![job[r].link] = r] /\ Goto(r, "existing")
              /\ UNCHANGED <<calLock, userLock>>
  <2>1. linkLock' \in [Links -> Requests \cup {Free}]
    BY <1>3 DEF Typed, TypeOK
  <2>2. QED
    BY <1>1, <1>3, <2>1, GotoOK, OnlyJob DEF LockLink, HeldPoints, meter, Typed, TypeOK
<1>4. QED
  BY <1>2, <1>3 DEF LockLink

LEMMA ReadExistingTyped ==
  ASSUME Typed, NEW r \in Requests, ReadExisting(r)
  PROVE  Typed'
<1>1. job[r].pc = "existing" /\ bookings' = bookings
  BY DEF ReadExisting, At
<1>2. CASE Finish(r)
  BY <1>2, FinishOnly DEF ReadExisting, meter, Typed, TypeOK
<1>3. CASE Goto(r, "check") /\ UNCHANGED locks
  BY <1>1, <1>3, GotoOK, OnlyJob DEF ReadExisting, HeldPoints, locks, meter, Typed, TypeOK
<1>4. ASSUME NEW old \in Existing(job[r].link, job[r].guest), old # None,
             job' = [job EXCEPT ![r].pc = "replace", ![r].old = old], UNCHANGED locks
      PROVE  Typed'
  <2> DEFINE j == [job[r] EXCEPT !.pc = "replace", !.old = old]
  <2>1. job[r] \in Job /\ JobOK(r)
    BY DEF Typed, TypeOK
  <2>2. old \in DOMAIN bookings /\ old \in 1 .. Len(bookings) /\ old \in Nat
    BY <1>4 DEF Existing, Upcoming, Typed, TypeOK, None
  <2>3. j \in Job
    BY <2>1, <2>2 DEF Job, Points
  <2>4. job'[r] = j /\ (\A q \in Requests \ {r} : job'[q] = job[q]) /\ job' \in [Requests -> Job]
    BY <1>4, <2>3 DEF Typed, TypeOK
  <2>5. JobOK(r)'
    <3>1. /\ j.pc = "replace" /\ j.old = old /\ j.start = job[r].start
          /\ j.link = job[r].link /\ j.guest = job[r].guest
          /\ j.cal = job[r].cal /\ j.wants = job[r].wants
      BY <2>1 DEF Job
    <3> HIDE DEF j
    <3>2. QED
      BY <1>1, <1>4, <2>1, <2>2, <2>4, <3>1 DEF JobOK, HasDiary, BookPoints, HeldPoints
  <2>6. QED
    BY <1>1, <1>4, <2>4, <2>5, OnlyJob DEF ReadExisting, locks, meter, Typed, TypeOK
<1>5. QED
  BY <1>2, <1>3, <1>4 DEF ReadExisting

LEMMA ReplaceTyped ==
  ASSUME Typed, NEW r \in Requests, Replace(r)
  PROVE  Typed'
<1>1. job[r].pc = "replace" /\ bookings' = bookings /\ Goto(r, "check")
  BY DEF Replace, At
<1>2. calLock' \in [Calendars -> Requests \cup {Free}]
  BY DEF Replace, Typed, TypeOK
<1>3. QED
  BY <1>1, <1>2, GotoOK, OnlyJob DEF Replace, HeldPoints, meter, Typed, TypeOK

LEMMA CheckTyped ==
  ASSUME Typed, NEW r \in Requests, Check(r)
  PROVE  Typed'
<1>1. job[r].pc = "check" /\ bookings' = bookings
  BY DEF Check, At
<1>2. CASE Finish(r)
  BY <1>2, FinishOnly DEF Check, meter, Typed, TypeOK
<1>3. CASE Goto(r, "write") /\ UNCHANGED locks
  BY <1>1, <1>3, GotoOK, OnlyJob DEF Check, HeldPoints, locks, meter, Typed, TypeOK
<1>4. QED
  BY <1>2, <1>3 DEF Check

LEMMA AbortTyped ==
  ASSUME Typed, NEW r \in Requests, Abort(r)
  PROVE  Typed'
<1>1. faults' \in Nat
  BY DEF Abort, Typed, TypeOK
<1>2. QED
  BY <1>1, FinishOnly DEF Abort, Typed, TypeOK

LEMMA CancelTyped ==
  ASSUME Typed, NEW r \in Requests, Cancel(r)
  PROVE  Typed'
<1>1. PICK b \in DOMAIN bookings : job' = [job EXCEPT ![r] = [@ EXCEPT !.pc = "cancel", !.old = b]]
  BY DEF Cancel
<1> DEFINE j == [job[r] EXCEPT !.pc = "cancel", !.old = b]
<1>2. job[r] \in Job /\ b \in 1 .. Len(bookings) /\ b \in Nat
  BY DEF Typed, TypeOK
<1>3. j \in Job
  BY <1>2 DEF Job, Points
<1>4. job'[r] = j /\ (\A q \in Requests \ {r} : job'[q] = job[q]) /\ job' \in [Requests -> Job]
  BY <1>1, <1>3 DEF Typed, TypeOK
<1>5. JobOK(r)'
  <2>1. j.pc = "cancel" /\ j.old = b /\ bookings' = bookings
    BY <1>2 DEF Job, Cancel
  <2> HIDE DEF j
  <2>2. QED
    BY <1>2, <1>4, <2>1 DEF JobOK, BookPoints, HeldPoints, None
<1>6. QED
  BY <1>4, <1>5, OnlyJob DEF Cancel, locks, meter, Typed, TypeOK

LEMMA EditTyped ==
  ASSUME Typed, NEW r \in Requests, Edit(r)
  PROVE  Typed'
<1>1. PICK k \in {"delete", "move"}, b \in DOMAIN bookings, row \in {"host", "copy"}, s \in Times :
        job' = [job EXCEPT ![r] = [@ EXCEPT !.pc = k, !.old = b, !.row = row, !.start = s]]
  BY DEF Edit
<1> DEFINE j == [job[r] EXCEPT !.pc = k, !.old = b, !.row = row, !.start = s]
<1>2. job[r] \in Job /\ b \in 1 .. Len(bookings) /\ b \in Nat /\ s \in Nat
  BY BookingAssumption DEF Typed, TypeOK
<1>3. j \in Job
  BY <1>2 DEF Job, Points
<1>4. job'[r] = j /\ (\A q \in Requests \ {r} : job'[q] = job[q]) /\ job' \in [Requests -> Job]
  BY <1>1, <1>3 DEF Typed, TypeOK
<1>5. JobOK(r)'
  <2>1. j.pc = k /\ j.old = b /\ j.start = s /\ bookings' = bookings
    BY <1>2 DEF Job, Edit
  <2> HIDE DEF j
  <2>2. QED
    BY <1>2, <1>4, <2>1 DEF JobOK, BookPoints, HeldPoints, None
<1>6. QED
  BY <1>4, <1>5, OnlyJob DEF Edit, locks, meter, Typed, TypeOK

\* What never changes in a booking, and what never comes back.
Ages(a, b) ==
  /\ b.link = a.link /\ b.guest = a.guest /\ b.cal = a.cal /\ b.copy = a.copy
  /\ b.up => a.up
  /\ b.copyUp => a.copyUp
  /\ b.start = a.start \/ b.moved
  /\ a.moved => b.moved
  /\ a.halved => b.halved
  /\ a.unfound => b.unfound
  /\ a.up /\ ~b.up => ~b.copyUp \/ b.halved

InPlace(bs) ==
  /\ bs \in Seq(Booking)
  /\ Len(bs) = Len(bookings)
  /\ \A i \in DOMAIN bookings : Ages(bookings[i], bs[i])

\* The bookings as they are.
LEMMA AsItIs == ASSUME Typed PROVE InPlace(bookings)
<1>1. bookings \in Seq(Booking)
  BY DEF Typed, TypeOK
<1>2. QED
  BY <1>1 DEF InPlace, Ages

\* One booking ages.
LEMMA OneAges ==
  ASSUME Typed, NEW b \in DOMAIN bookings, NEW x \in Booking, Ages(bookings[b], x)
  PROVE  InPlace([bookings EXCEPT ![b] = x])
<1>1. bookings \in Seq(Booking)
  BY DEF Typed, TypeOK
<1>2. [bookings EXCEPT ![b] = x] \in Seq(Booking) /\ Len([bookings EXCEPT ![b] = x]) = Len(bookings)
  BY <1>1
<1>3. \A i \in DOMAIN bookings : Ages(bookings[i], [bookings EXCEPT ![b] = x][i])
  BY <1>1 DEF Ages
<1>4. QED
  BY <1>2, <1>3 DEF InPlace

\* Calling a booking off.
LEMMA EndedAges ==
  ASSUME Typed, NEW b \in DOMAIN bookings, NEW n \in Nat
  PROVE  /\ InPlace(Ended(b, n))
         /\ ~Ended(b, n)[b].up /\ ~Ended(b, n)[b].copyUp
         /\ \A a \in DOMAIN bookings \ {b} : Ended(b, n)[a] = bookings[a]
<1> DEFINE x == [bookings[b] EXCEPT !.up = FALSE, !.copyUp = FALSE, !.notices = @ + n]
<1>1. bookings[b] \in Booking /\ bookings \in Seq(Booking)
  BY BookingAt DEF Typed, TypeOK
<1>2. x \in Booking /\ Ages(bookings[b], x) /\ ~x.up /\ ~x.copyUp
  <2>1. bookings[b].notices + n \in Nat
    BY <1>1 DEF Booking
  <2>2. x = [bookings[b] EXCEPT !.up = FALSE, !.copyUp = FALSE, !.notices = bookings[b].notices + n]
    OBVIOUS
  <2>3. x \in Booking
    BY <1>1, <2>1, <2>2 DEF Booking
  <2>4. /\ x.link = bookings[b].link /\ x.guest = bookings[b].guest /\ x.cal = bookings[b].cal
        /\ x.copy = bookings[b].copy /\ x.start = bookings[b].start
        /\ x.moved = bookings[b].moved /\ x.halved = bookings[b].halved
        /\ x.unfound = bookings[b].unfound /\ ~x.up /\ ~x.copyUp
    BY <1>1, <2>2 DEF Booking
  <2>5. QED
    BY <2>3, <2>4 DEF Ages
<1>3. Ended(b, n) = [bookings EXCEPT ![b] = x]
  BY DEF Ended
<1> HIDE DEF x
<1>4. QED
  BY <1>1, <1>2, <1>3, OneAges

\* The host does.
LEMMA EndedByHostAges ==
  ASSUME Typed, NEW b \in DOMAIN bookings, NEW n \in Nat
  PROVE  /\ InPlace(EndedByHost(b, n))
         /\ ~EndedByHost(b, n)[b].up /\ ~EndedByHost(b, n)[b].copyUp
         /\ Unfound(b) => EndedByHost(b, n)[b].unfound
         /\ \A a \in DOMAIN bookings \ {b} : EndedByHost(b, n)[a] = bookings[a]
<1> DEFINE e == Ended(b, n)
           x == [e[b] EXCEPT !.unfound = e[b].unfound \/ Unfound(b)]
<1>1. /\ e \in Seq(Booking) /\ Len(e) = Len(bookings) /\ ~e[b].up /\ ~e[b].copyUp
      /\ \A a \in DOMAIN bookings \ {b} : e[a] = bookings[a]
      /\ Ages(bookings[b], e[b])
  BY EndedAges DEF InPlace
<1>2. DOMAIN e = DOMAIN bookings
  BY <1>1 DEF Typed, TypeOK
<1>3. EndedByHost(b, n) = [e EXCEPT ![b] = x]
  BY DEF EndedByHost
<1> HIDE DEF e
<1>4. e[b] \in Booking
  BY <1>1, <1>2
<1>5. Unfound(b) \in BOOLEAN
  BY DEF Unfound
<1>6. x \in Booking
  BY <1>4, <1>5 DEF Booking
<1>7. /\ x.link = e[b].link /\ x.guest = e[b].guest /\ x.cal = e[b].cal /\ x.copy = e[b].copy
      /\ x.start = e[b].start /\ x.moved = e[b].moved /\ x.halved = e[b].halved
      /\ x.up = e[b].up /\ x.copyUp = e[b].copyUp
      /\ x.unfound = (e[b].unfound \/ Unfound(b))
  BY <1>4 DEF Booking
<1>8. Ages(bookings[b], x) /\ ~x.up /\ ~x.copyUp /\ (Unfound(b) => x.unfound)
  BY <1>1, <1>7 DEF Ages
<1> HIDE DEF x
<1>9. [e EXCEPT ![b] = x] \in Seq(Booking) /\ Len([e EXCEPT ![b] = x]) = Len(bookings)
  BY <1>1, <1>6
<1>10. \A i \in DOMAIN bookings : Ages(bookings[i], [e EXCEPT ![b] = x][i])
  <2> SUFFICES ASSUME NEW i \in DOMAIN bookings PROVE Ages(bookings[i], [e EXCEPT ![b] = x][i])
    OBVIOUS
  <2>1. CASE i = b
    BY <1>1, <1>2, <1>8, <2>1
  <2>2. CASE i # b
    <3>1. [e EXCEPT ![b] = x][i] = bookings[i]
      BY <1>1, <1>2, <2>2
    <3>2. QED
      BY <3>1 DEF Ages
  <2>3. QED
    BY <2>1, <2>2
<1>11. QED
  BY <1>1, <1>2, <1>3, <1>8, <1>9, <1>10 DEF InPlace

\* An invitation names a booking or none.
LEMMA MarkedTyped ==
  ASSUME Typed, NEW l \in Links, NEW g \in Guests, NEW m \in Nat, Len(bookings) <= m,
         NEW b \in 0 .. m, Marked(l, g, b)
  PROVE  invite' \in [Users -> [Links -> 0 .. m]]
<1>1. invite \in [Users -> [Links -> 0 .. Len(bookings)]] /\ Len(bookings) \in Nat
  BY DEF Typed, TypeOK
<1>2. 0 .. Len(bookings) \subseteq 0 .. m
  BY <1>1
<1>3. invite \in [Users -> [Links -> 0 .. m]]
  BY <1>1, <1>2
<1>4. QED
  BY <1>3 DEF Marked

\* A request writes, and ends.
LEMMA WriterTyped ==
  ASSUME Typed, NEW r \in Requests, Finish(r), bookings' \in Seq(Booking),
         Len(bookings) <= Len(bookings'), invite' \in [Users -> [Links -> 0 .. Len(bookings')]],
         UNCHANGED <<link, meter>>
  PROVE  Typed'
<1>1. TypeOK
  BY DEF Typed
<1>2. JobOK(r)'
  BY <1>1, FinishTyped, DoneOK
<1>3. \A q \in Requests : JobOK(q)'
  BY <1>1, <1>2, FinishTyped, JobsStep
<1>4. TypeOK'
  BY <1>1, FinishTyped DEF TypeOK, meter
<1>5. QED
  BY <1>3, <1>4 DEF Typed

\* The invitations as they are.
LEMMA InviteAsItIs ==
  ASSUME Typed, bookings' \in Seq(Booking), Len(bookings') = Len(bookings), UNCHANGED invite
  PROVE  invite' \in [Users -> [Links -> 0 .. Len(bookings')]]
BY DEF Typed, TypeOK

\* What Write does to the bookings.
Added(r) ==
  /\ bookings' \in Seq(Booking)
  /\ Len(bookings') = Len(bookings) + 1
  /\ \A i \in DOMAIN bookings : Ages(bookings[i], bookings'[i])
  /\ bookings'[Len(bookings) + 1] = Written(r)
  /\ job[r].old # None => ~bookings'[job[r].old].up /\ ~bookings'[job[r].old].copyUp
  /\ \A i \in DOMAIN bookings \ {job[r].old} : bookings'[i] = bookings[i]

\* What is written is a booking.
LEMMA WrittenTyped ==
  ASSUME Typed, NEW r \in Requests, job[r].pc = "write"
  PROVE  Written(r) \in Booking
<1>1. job[r] \in Job /\ JobOK(r)
  BY DEF Typed, TypeOK
<1>2. job[r].link \in Links /\ job[r].cal \in Calendars /\ job[r].start \in Times
  BY <1>1 DEF JobOK, BookPoints
<1>3. job[r].guest \in Guests
  BY <1>1 DEF Job
<1>4. HasDiary(job[r].link, job[r].guest) => Diary[job[r].guest] \in Calendars
  BY BookingAssumption DEF HasDiary
<1> DEFINE copied == HasDiary(job[r].link, job[r].guest) /\ Diary[job[r].guest] # job[r].cal
<1>5. copied \in BOOLEAN /\ (IF copied THEN Diary[job[r].guest] ELSE None) \in Calendars \cup {None}
  BY <1>4 DEF HasDiary
<1>6. Written(r) = [link |-> job[r].link, slug |-> link[job[r].link].slug, guest |-> job[r].guest, cal |-> job[r].cal,
                    copy |-> IF copied THEN Diary[job[r].guest] ELSE None, start |-> job[r].start,
                    up |-> TRUE, copyUp |-> copied, notices |-> 0, moved |-> FALSE, halved |-> FALSE,
                    unfound |-> FALSE]
  BY DEF Written
<1> HIDE DEF copied
<1>7. link[job[r].link].slug \in Slugs \cup {None}
  BY <1>2 DEF Typed, TypeOK, LinkRow
<1>8. QED
  BY <1>2, <1>3, <1>5, <1>6, <1>7 DEF Booking

\* Write adds one booking and ends the one it replaces.
LEMMA WriteAdds ==
  ASSUME Typed, NEW r \in Requests, Write(r)
  PROVE  Added(r)
<1> DEFINE bs == IF job[r].old = None THEN bookings ELSE Ended(job[r].old, 1)
<1>1. job[r].pc = "write" /\ bookings' = Append(bs, Written(r))
  BY DEF Write, At
<1>2. Written(r) \in Booking
  BY <1>1, WrittenTyped
<1>3. /\ InPlace(bs)
      /\ job[r].old # None => ~bs[job[r].old].up /\ ~bs[job[r].old].copyUp
      /\ \A i \in DOMAIN bookings \ {job[r].old} : bs[i] = bookings[i]
  <2>1. CASE job[r].old = None
    BY <2>1, AsItIs
  <2>2. CASE job[r].old # None
    <3>1. job[r].old \in DOMAIN bookings
      BY <2>2 DEF Typed, TypeOK, JobOK, None
    <3>2. QED
      BY <2>2, <3>1, EndedAges
  <2>3. QED
    BY <2>1, <2>2
<1> HIDE DEF bs
<1>4. bs \in Seq(Booking) /\ Len(bs) = Len(bookings) /\ DOMAIN bs = DOMAIN bookings
      /\ DOMAIN bookings = 1 .. Len(bookings) /\ Len(bookings) \in Nat
  BY <1>3 DEF InPlace, Typed, TypeOK
<1>5. /\ bookings' \in Seq(Booking) /\ Len(bookings') = Len(bookings) + 1
      /\ bookings'[Len(bookings) + 1] = Written(r)
      /\ \A i \in DOMAIN bookings : bookings'[i] = bs[i]
  BY <1>1, <1>2, <1>4
<1>6. job[r].old # None => job[r].old \in DOMAIN bookings
  BY DEF Typed, TypeOK, JobOK, None
<1>7. QED
  BY <1>3, <1>5, <1>6 DEF Added, InPlace

\* Write keeps the types.
LEMMA WriteTyped ==
  ASSUME Typed, NEW r \in Requests, Write(r)
  PROVE  Typed'
<1>1. Added(r)
  BY WriteAdds
<1>2. Len(bookings) \in Nat /\ job[r] \in Job /\ job[r].link \in Links
  BY DEF Typed, TypeOK, JobOK, Write, At, BookPoints
<1>3. job[r].guest \in Guests
  BY <1>2 DEF Job
<1>4. invite' \in [Users -> [Links -> 0 .. Len(bookings')]]
  <2>1. Len(bookings') \in Nat /\ Len(bookings) <= Len(bookings') /\ Len(bookings) + 1 \in 0 .. Len(bookings')
    BY <1>1, <1>2 DEF Added
  <2>2. Marked(job[r].link, job[r].guest, Len(bookings) + 1)
    BY DEF Write
  <2>3. QED
    BY <1>2, <1>3, <2>1, <2>2, MarkedTyped
<1>5. bookings' \in Seq(Booking) /\ Len(bookings) <= Len(bookings')
  BY <1>1, <1>2 DEF Added
<1>6. QED
  BY <1>4, <1>5, WriterTyped DEF Write

\* What is called off or moved is there.
LEMMA Named ==
  ASSUME Typed, NEW r \in Requests, job[r].pc \in {"cancel", "delete", "move"}
  PROVE  /\ job[r].old \in DOMAIN bookings
         /\ bookings[job[r].old] \in Booking
         /\ bookings[job[r].old].link \in Links /\ bookings[job[r].old].guest \in Guests
<1>1. job[r].old \in DOMAIN bookings
  BY DEF Typed, TypeOK, JobOK, None
<1>2. QED
  BY <1>1, BookingAt DEF Booking

\* The other writers leave the bookings in place.
LEMMA CancelByGuestKeeps ==
  ASSUME Typed, NEW r \in Requests, CancelByGuest(r)
  PROVE  InPlace(bookings')
BY Named, EndedAges DEF CancelByGuest, At

LEMMA DestroyKeeps ==
  ASSUME Typed, NEW r \in Requests, Destroy(r)
  PROVE  InPlace(bookings')
<1>1. CASE RowUp(job[r].old, job[r].row)
  BY <1>1, Named, EndedByHostAges DEF Destroy, At
<1>2. CASE ~RowUp(job[r].old, job[r].row)
  BY <1>2, AsItIs DEF Destroy
<1>3. QED
  BY <1>1, <1>2

LEMMA MoveKeeps ==
  ASSUME Typed, NEW r \in Requests, Move(r)
  PROVE  InPlace(bookings')
<1> DEFINE b == job[r].old
           x == [bookings[b] EXCEPT !.start = job[r].start, !.moved = TRUE]
<1>1. CASE RowUp(b, job[r].row)
  <2>1. bookings[b] \in Booking /\ b \in DOMAIN bookings /\ job[r].start \in Times
    BY Named DEF Move, At, Typed, JobOK
  <2>2. x \in Booking
    BY <2>1 DEF Booking
  <2>3. Ages(bookings[b], x)
    BY <2>1 DEF Booking, Ages
  <2>4. bookings' = [bookings EXCEPT ![b] = x]
    BY <1>1 DEF Move
  <2> HIDE DEF x, b
  <2>5. QED
    BY <2>1, <2>2, <2>3, <2>4, OneAges
<1>2. CASE ~RowUp(b, job[r].row)
  BY <1>2, AsItIs DEF Move
<1>3. QED
  BY <1>1, <1>2

LEMMA GoogleKeeps ==
  ASSUME Typed, NEW b \in DOMAIN bookings, NEW row \in {"host", "copy"}, GoogleDeletes(b, row)
  PROVE  InPlace(bookings')
<1> DEFINE x == [bookings[b] EXCEPT !.up = FALSE, !.halved = TRUE]
           y == [bookings[b] EXCEPT !.copyUp = FALSE, !.halved = TRUE]
<1>1. bookings[b] \in Booking
  BY BookingAt
<1>2. x \in Booking /\ y \in Booking
  BY <1>1 DEF Booking
<1>3. Ages(bookings[b], x) /\ Ages(bookings[b], y)
  BY <1>1 DEF Booking, Ages
<1>4. \/ bookings' = [bookings EXCEPT ![b] = x]
      \/ bookings' = [bookings EXCEPT ![b] = y]
  BY DEF GoogleDeletes
<1> HIDE DEF x, y
<1>5. QED
  BY <1>2, <1>3, <1>4, OneAges

\* A writer that leaves the bookings in place keeps the types.
LEMMA InPlaceWriter ==
  ASSUME Typed, NEW r \in Requests, Finish(r), InPlace(bookings'), UNCHANGED <<link, meter>>,
         \/ UNCHANGED invite
         \/ \E l \in Links, g \in Guests : Marked(l, g, None)
  PROVE  Typed'
<1>1. Len(bookings) \in Nat /\ bookings' \in Seq(Booking) /\ Len(bookings') = Len(bookings)
  BY DEF InPlace, Typed, TypeOK
<1>2. CASE UNCHANGED invite
  BY <1>1, <1>2, InviteAsItIs, WriterTyped
<1>3. ASSUME NEW l \in Links, NEW g \in Guests, Marked(l, g, None)
      PROVE  Typed'
  <2>1. None \in 0 .. Len(bookings')
    BY <1>1 DEF None
  <2>2. invite' \in [Users -> [Links -> 0 .. Len(bookings')]]
    BY <1>1, <1>3, <2>1, MarkedTyped
  <2>3. QED
    BY <1>1, <2>2, WriterTyped
<1>4. QED
  BY <1>2, <1>3

LEMMA CancelByGuestTyped ==
  ASSUME Typed, NEW r \in Requests, CancelByGuest(r)
  PROVE  Typed'
<1>1. \/ UNCHANGED invite
      \/ Marked(bookings[job[r].old].link, bookings[job[r].old].guest, None)
  BY DEF CancelByGuest
<1>2. job[r].pc = "cancel" /\ Finish(r) /\ UNCHANGED <<link, meter>>
  BY DEF CancelByGuest, At
<1>3. QED
  BY <1>1, <1>2, Named, CancelByGuestKeeps, InPlaceWriter

LEMMA DestroyTyped ==
  ASSUME Typed, NEW r \in Requests, Destroy(r)
  PROVE  Typed'
<1>1. \/ UNCHANGED invite
      \/ Marked(bookings[job[r].old].link, bookings[job[r].old].guest, None)
  BY DEF Destroy
<1>2. job[r].pc = "delete" /\ Finish(r) /\ UNCHANGED <<link, meter>>
  BY DEF Destroy, At
<1>3. QED
  BY <1>1, <1>2, Named, DestroyKeeps, InPlaceWriter

LEMMA MoveTyped ==
  ASSUME Typed, NEW r \in Requests, Move(r)
  PROVE  Typed'
<1>1. Finish(r) /\ UNCHANGED <<link, invite, meter>>
  BY DEF Move
<1>2. QED
  BY <1>1, MoveKeeps, InPlaceWriter

\* Hosts and Google touch no request.
LEMMA OutsideTyped ==
  ASSUME Typed, InPlace(bookings'), UNCHANGED <<invite, job, locks, session>>,
         link' \in [Links -> LinkRow], edits' \in Nat, faults' \in Nat
  PROVE  Typed'
<1>1. bookings' \in Seq(Booking) /\ Len(bookings') = Len(bookings)
  BY DEF InPlace
<1>2. TypeOK'
  BY <1>1, InviteAsItIs DEF locks, Typed, TypeOK
<1>3. \A q \in Requests : JobOK(q)'
  BY <1>1, OthersOK DEF Typed, TypeOK
<1>4. QED
  BY <1>2, <1>3 DEF Typed

LEMMA EditLinkTyped ==
  ASSUME Typed, NEW l \in Links, EditLink(l)
  PROVE  Typed'
<1>1. PICK row \in LinkRow : link' = [link EXCEPT ![l] = row]
  BY DEF EditLink
<1>3. link' \in [Links -> LinkRow]
  BY <1>1 DEF Typed, TypeOK
<1>4. edits' \in Nat
  BY DEF EditLink, Typed, TypeOK
<1>5. InPlace(bookings')
  BY AsItIs DEF EditLink
<1>6. QED
  BY <1>3, <1>4, <1>5, OutsideTyped DEF EditLink, Typed, TypeOK

LEMMA GoogleTyped ==
  ASSUME Typed, NEW b \in DOMAIN bookings, NEW row \in {"host", "copy"}, GoogleDeletes(b, row)
  PROVE  Typed'
<1>1. faults' \in Nat
  BY DEF GoogleDeletes, Typed, TypeOK
<1>2. QED
  BY <1>1, GoogleKeeps, OutsideTyped DEF GoogleDeletes, Typed, TypeOK

\* Nothing happens.
LEMMA StutterTyped == ASSUME Typed, UNCHANGED vars PROVE Typed'
<1>1. InPlace(bookings')
  BY AsItIs DEF vars
<1>2. QED
  BY <1>1, OutsideTyped DEF vars, meter, Typed, TypeOK

\* All steps keep the types.
LEMMA TypedStep == ASSUME Typed, [Next]_vars PROVE Typed'
<1>1. CASE UNCHANGED vars
  BY <1>1, StutterTyped
<1>2. ASSUME NEW r \in Requests, Arrive(r) PROVE Typed'
  BY <1>2, BookTyped, CancelTyped, EditTyped DEF Arrive
<1>3. ASSUME NEW r \in Requests, Step(r) PROVE Typed'
  BY <1>3, PeekTyped, LockUserTyped, LockCalendarTyped, LockLinkTyped, ReadExistingTyped, ReplaceTyped,
     CheckTyped, WriteTyped, CancelByGuestTyped, DestroyTyped, MoveTyped DEF Step
<1>4. ASSUME NEW r \in Requests, Abort(r) PROVE Typed'
  BY <1>4, AbortTyped
<1>5. ASSUME NEW l \in Links, EditLink(l) PROVE Typed'
  BY <1>5, EditLinkTyped
<1>6. ASSUME NEW b \in DOMAIN bookings, NEW row \in {"host", "copy"}, GoogleDeletes(b, row) PROVE Typed'
  BY <1>6, GoogleTyped
<1>7. QED
  BY <1>1, <1>2, <1>3, <1>4, <1>5, <1>6 DEF Next

\* The variables of the model keep their types: what is written by create_booking_events
\* is a booking, and invitations name bookings that exist.
THEOREM TypeCorrect == Spec => []TypeOK
<1>1. Init => Typed
  BY TypedInit
<1>2. Typed /\ [Next]_vars => Typed'
  BY TypedStep
<1>3. Typed => TypeOK
  BY DEF Typed
<1>4. QED
  BY <1>1, <1>2, <1>3, PTL DEF Spec

-------------------------------------------------------------------------------
\* A request is the same but for its point and what it replaces.
SameRequest(r) ==
  /\ job'[r].link = job[r].link /\ job'[r].guest = job[r].guest /\ job'[r].start = job[r].start
  /\ job'[r].cal = job[r].cal /\ job'[r].wants = job[r].wants

\* What it has locked stays locked.
KeepsLocks(r) ==
  /\ \A c \in Calendars : calLock[c] = r => calLock'[c] = r
  /\ \A l \in Links : linkLock[l] = r => linkLock'[l] = r

\* What a request is about to find under the lock of its link.
Ready(q) ==
  /\ link[job[q].link].active
  /\ link[job[q].link].cal = job[q].cal
  /\ job[q].guest # Host[job[q].link]

\* It is the turn of request q.
Turn(q) ==
  /\ \A r \in Requests \ {q} : job'[r] = job[r] /\ KeepsLocks(r)
  /\ job'[q].pc # "done" => KeepsLocks(q)
  /\ job'[q].pc \in HeldPoints =>
       /\ SameRequest(q)
       /\ job[q].pc \in HeldPoints \/ \A c \in job[q].wants : calLock'[c] = q
  /\ job'[q].pc \in OwnPoints => job[q].pc \in OwnPoints \/ (linkLock'[job[q].link] = q /\ Ready(q))
  /\ job'[q].pc = "write" => SlotFree(q) /\ job[q].pc = "check" /\ job'[q].old = job[q].old
  /\ job'[q].pc \in {"replace", "check", "write"} =>
       /\ bookings' = bookings
       /\ \/ job'[q].old = job[q].old /\ job[q].pc \in {"replace", "check"}
          \/ job'[q].old \in Existing(job[q].link, job[q].guest)

\* The turn of a request that ends.
LEMMA Finished ==
  ASSUME Typed, NEW q \in Requests, Finish(q)
  PROVE  Turn(q)
<1>1. \A r \in Requests \ {q} : job'[r] = job[r]
  BY FinishTyped DEF Typed
<1>2. \A r \in Requests \ {q} : KeepsLocks(r)
  BY DEF Finish, Unlocked, KeepsLocks, Typed, TypeOK
<1>3. job'[q].pc = "done"
  BY FinishTyped DEF Typed, NoJob
<1>4. QED
  BY <1>1, <1>2, <1>3 DEF Turn, HeldPoints, OwnPoints

\* No lock changes hands.
LEMMA LocksAlone == ASSUME UNCHANGED locks PROVE \A r \in Requests : KeepsLocks(r)
BY DEF locks, KeepsLocks

\* What it is given was free.
LEMMA Given ==
  ASSUME Typed, NEW q \in Requests,
         \/ UNCHANGED calLock
         \/ \E c \in Calendars : calLock[c] \in {Free, q} /\ calLock' = [calLock EXCEPT ![c] = q],
         \/ UNCHANGED linkLock
         \/ \E l \in Links : linkLock[l] = Free /\ linkLock' = [linkLock EXCEPT ![l] = q]
  PROVE  \A r \in Requests : KeepsLocks(r)
BY BookingAssumption DEF KeepsLocks, Typed, TypeOK

\* Before its calendars are locked a request claims nothing.
LEMMA Early ==
  ASSUME Typed, NEW q \in Requests, job'[q].pc \in {"peek", "user", "calendars", "cancel", "delete", "move"},
         \A r \in Requests \ {q} : job'[r] = job[r], \A r \in Requests : KeepsLocks(r)
  PROVE  Turn(q)
BY DEF Turn, HeldPoints, OwnPoints

\* A new point and nothing else.
LEMMA OnGoto ==
  ASSUME Typed, NEW q \in Requests, NEW p \in Points, Goto(q, p)
  PROVE  /\ job'[q].pc = p /\ job'[q].old = job[q].old /\ SameRequest(q)
         /\ \A r \in Requests \ {q} : job'[r] = job[r]
<1>1. job[q] \in Job
  BY DEF Typed, TypeOK
<1>2. job'[q] = [job[q] EXCEPT !.pc = p] /\ \A r \in Requests \ {q} : job'[r] = job[r]
  BY DEF Goto, Typed, TypeOK
<1>3. QED
  BY <1>1, <1>2 DEF Job, SameRequest

\* The turns, action by action.
LEMMA ArriveTurn ==
  ASSUME Typed, NEW q \in Requests, Arrive(q)
  PROVE  Turn(q)
<1>1. job[q] \in Job
  BY DEF Typed, TypeOK
<1>2. UNCHANGED locks
  BY DEF Arrive, Book, Cancel, Edit
<1>3. CASE Book(q)
  <2>1. PICK l \in Links, g \in session.guests, s \in Times :
          job' = [job EXCEPT ![q] = [@ EXCEPT !.pc = "peek", !.link = l, !.guest = g, !.start = s,
                                              !.cal = link[l].cal, !.wants = {link[l].cal}]]
    BY <1>3 DEF Book
  <2>2. job'[q].pc = "peek" /\ \A r \in Requests \ {q} : job'[r] = job[r]
    BY <1>1, <2>1 DEF Typed, TypeOK, Job
  <2>3. QED
    BY <1>2, <2>2, LocksAlone, Early
<1>4. CASE Cancel(q)
  <2>1. job'[q].pc = "cancel" /\ \A r \in Requests \ {q} : job'[r] = job[r]
    BY <1>1, <1>4 DEF Cancel, Typed, TypeOK, Job
  <2>2. QED
    BY <1>2, <2>1, LocksAlone, Early
<1>5. CASE Edit(q)
  <2>1. PICK k \in {"delete", "move"}, b \in DOMAIN bookings, row \in {"host", "copy"}, s \in Times :
          job' = [job EXCEPT ![q] = [@ EXCEPT !.pc = k, !.old = b, !.row = row, !.start = s]]
    BY <1>5 DEF Edit
  <2>2. job'[q].pc = k /\ \A r \in Requests \ {q} : job'[r] = job[r]
    BY <1>1, <2>1 DEF Typed, TypeOK, Job
  <2>3. QED
    BY <1>2, <2>2, LocksAlone, Early
<1>6. QED
  BY <1>3, <1>4, <1>5 DEF Arrive

LEMMA PeekTurn ==
  ASSUME Typed, NEW q \in Requests, Peek(q)
  PROVE  Turn(q)
<1>1. PICK old \in Existing(job[q].link, job[q].guest) :
        job' = [job EXCEPT ![q].pc = IF HasDiary(job[q].link, job[q].guest) THEN "user" ELSE "calendars",
                           ![q].wants = IF old = None THEN @ ELSE @ \cup {bookings[old].cal}]
  BY DEF Peek
<1>2. job[q] \in Job
  BY DEF Typed, TypeOK
<1>3. job'[q] = [job[q] EXCEPT !.pc = IF HasDiary(job[q].link, job[q].guest) THEN "user" ELSE "calendars",
                               !.wants = IF old = None THEN @ ELSE @ \cup {bookings[old].cal}]
  BY <1>1 DEF Typed, TypeOK
<1>4. job'[q].pc \in {"user", "calendars"}
  BY <1>2, <1>3 DEF Job
<1>5. \A r \in Requests \ {q} : job'[r] = job[r]
  BY <1>1 DEF Typed, TypeOK
<1>6. QED
  BY <1>4, <1>5, LocksAlone, Early DEF Peek

LEMMA LockUserTurn ==
  ASSUME Typed, NEW q \in Requests, LockUser(q)
  PROVE  Turn(q)
<1>1. job[q] \in Job
  BY DEF Typed, TypeOK
<1>2. job' = [job EXCEPT ![q].pc = "calendars", ![q].wants = @ \cup {Diary[job[q].guest]}]
  BY DEF LockUser
<1>3. job'[q] = [job[q] EXCEPT !.pc = "calendars", !.wants = @ \cup {Diary[job[q].guest]}]
      /\ \A r \in Requests \ {q} : job'[r] = job[r]
  BY <1>2 DEF Typed, TypeOK
<1>4. job'[q].pc = "calendars"
  BY <1>1, <1>3 DEF Job
<1>5. \A r \in Requests : KeepsLocks(r)
  BY DEF LockUser, KeepsLocks
<1>6. QED
  BY <1>3, <1>4, <1>5, Early

LEMMA LockCalendarTurn ==
  ASSUME Typed, NEW q \in Requests, LockCalendar(q)
  PROVE  Turn(q)
<1>1. PICK c \in ToLock(q) :
        /\ calLock[c] = Free
        /\ calLock' = [calLock EXCEPT ![c] = q]
        /\ IF ToLock(q) = {c} THEN Goto(q, "link") ELSE UNCHANGED job
  BY DEF LockCalendar
<1>2. c \in Calendars /\ job[q].wants \subseteq Calendars
  BY DEF ToLock, Typed, TypeOK, Job
<1>3. \A r \in Requests : KeepsLocks(r)
  BY <1>1, <1>2, Given DEF LockCalendar
<1>4. CASE ToLock(q) = {c} /\ Goto(q, "link")
  <2>1. \A d \in job[q].wants : calLock'[d] = q
    BY <1>1, <1>2, <1>4 DEF ToLock, Typed, TypeOK
  <2>2. /\ job'[q].pc = "link" /\ SameRequest(q)
        /\ \A r \in Requests \ {q} : job'[r] = job[r]
    BY <1>4, OnGoto DEF Points
  <2>3. QED
    BY <1>3, <2>1, <2>2 DEF Turn, HeldPoints, OwnPoints
<1>5. CASE UNCHANGED job
  BY <1>3, <1>5, Early DEF LockCalendar, At
<1>6. QED
  BY <1>1, <1>4, <1>5

LEMMA LockLinkTurn ==
  ASSUME Typed, NEW q \in Requests, LockLink(q)
  PROVE  Turn(q)
<1>1. CASE Finish(q)
  BY <1>1, Finished
<1>2. CASE Ready(q) /\ linkLock' = [linkLock EXCEPT ![job[q].link] = q] /\ Goto(q, "existing")
              /\ UNCHANGED <<calLock, userLock>>
  <2>1. job[q].pc = "link" /\ job[q].link \in Links /\ linkLock[job[q].link] = Free
    BY DEF LockLink, At, Typed, JobOK, BookPoints
  <2>2. linkLock'[job[q].link] = q
    BY <1>2, <2>1 DEF Typed, TypeOK
  <2>3. \A r \in Requests : KeepsLocks(r)
    BY <1>2, <2>1, Given
  <2>4. /\ job'[q].pc = "existing" /\ SameRequest(q)
        /\ \A r \in Requests \ {q} : job'[r] = job[r]
    BY <1>2, OnGoto DEF Points
  <2>5. QED
    BY <1>2, <2>1, <2>2, <2>3, <2>4 DEF Turn, HeldPoints, OwnPoints
<1>3. QED
  BY <1>1, <1>2 DEF LockLink, Ready

LEMMA ReadExistingTurn ==
  ASSUME Typed, NEW q \in Requests, ReadExisting(q)
  PROVE  Turn(q)
<1>1. job[q].pc = "existing" /\ bookings' = bookings
  BY DEF ReadExisting, At
<1>2. PICK old \in Existing(job[q].link, job[q].guest) :
        IF old = None
         THEN Goto(q, "check") /\ UNCHANGED locks
         ELSE IF bookings[old].start = job[q].start
           THEN Finish(q)
           ELSE /\ job' = [job EXCEPT ![q].pc = "replace", ![q].old = old]
                /\ UNCHANGED locks
  BY DEF ReadExisting
<1>3. CASE Finish(q)
  BY <1>3, Finished
<1>4. CASE old = None /\ Goto(q, "check") /\ UNCHANGED locks
  <2>1. job[q].old = None
    BY <1>1 DEF Typed, JobOK
  <2>2. /\ job'[q].pc = "check" /\ job'[q].old = old /\ SameRequest(q)
        /\ \A r \in Requests \ {q} : job'[r] = job[r]
    BY <1>4, <2>1, OnGoto DEF Points
  <2>3. QED
    BY <1>1, <1>2, <1>4, <2>2, LocksAlone DEF Turn, HeldPoints, OwnPoints
<1>5. CASE job' = [job EXCEPT ![q].pc = "replace", ![q].old = old] /\ UNCHANGED locks
  <2>1. job[q] \in Job
    BY DEF Typed, TypeOK
  <2>2. job'[q] = [job[q] EXCEPT !.pc = "replace", !.old = old]
        /\ \A r \in Requests \ {q} : job'[r] = job[r]
    BY <1>5 DEF Typed, TypeOK
  <2>3. job'[q].pc = "replace" /\ job'[q].old = old /\ SameRequest(q)
    BY <2>1, <2>2 DEF Job, SameRequest
  <2>4. QED
    BY <1>1, <1>2, <1>5, <2>2, <2>3, LocksAlone DEF Turn, HeldPoints, OwnPoints
<1>6. QED
  BY <1>2, <1>3, <1>4, <1>5

LEMMA ReplaceTurn ==
  ASSUME Typed, NEW q \in Requests, Replace(q)
  PROVE  Turn(q)
<1>1. job[q].pc = "replace" /\ bookings' = bookings /\ Goto(q, "check")
  BY DEF Replace, At
<1>2. bookings[job[q].old].cal \in Calendars
  <2>1. job[q].old \in DOMAIN bookings
    BY <1>1 DEF Typed, TypeOK, JobOK, None
  <2>2. QED
    BY <2>1, BookingAt DEF Booking
<1>3. \A r \in Requests : KeepsLocks(r)
  BY <1>2, Given DEF Replace
<1>4. /\ job'[q].pc = "check" /\ job'[q].old = job[q].old /\ SameRequest(q)
      /\ \A r \in Requests \ {q} : job'[r] = job[r]
  BY <1>1, OnGoto DEF Points
<1>5. QED
  BY <1>1, <1>3, <1>4 DEF Turn, HeldPoints, OwnPoints

LEMMA CheckTurn ==
  ASSUME Typed, NEW q \in Requests, Check(q)
  PROVE  Turn(q)
<1>1. job[q].pc = "check" /\ bookings' = bookings
  BY DEF Check, At
<1>2. CASE Finish(q)
  BY <1>2, Finished
<1>3. CASE SlotFree(q) /\ Goto(q, "write") /\ UNCHANGED locks
  <2>1. /\ job'[q].pc = "write" /\ job'[q].old = job[q].old /\ SameRequest(q)
        /\ \A r \in Requests \ {q} : job'[r] = job[r]
    BY <1>3, OnGoto DEF Points
  <2>2. QED
    BY <1>1, <1>3, <2>1, LocksAlone DEF Turn, HeldPoints, OwnPoints
<1>4. QED
  BY <1>2, <1>3 DEF Check

\* Every step is somebody's turn, or touches neither requests nor their locks.
LEMMA Turns ==
  ASSUME Typed, [Next]_vars
  PROVE  (\E q \in Requests : Turn(q)) \/ UNCHANGED <<job, locks>>
<1>1. CASE UNCHANGED vars
  BY <1>1 DEF vars
<1>2. ASSUME NEW r \in Requests, Arrive(r) PROVE Turn(r)
  BY <1>2, ArriveTurn
<1>3. ASSUME NEW r \in Requests, Step(r) PROVE Turn(r)
  <2>1. CASE Write(r) \/ CancelByGuest(r) \/ Destroy(r) \/ Move(r)
    BY <2>1, Finished DEF Write, CancelByGuest, Destroy, Move
  <2>2. QED
    BY <1>3, <2>1, PeekTurn, LockUserTurn, LockCalendarTurn, LockLinkTurn, ReadExistingTurn, ReplaceTurn,
       CheckTurn DEF Step
<1>4. ASSUME NEW r \in Requests, Abort(r) PROVE Turn(r)
  BY <1>4, Finished DEF Abort
<1>5. ASSUME NEW l \in Links, EditLink(l) PROVE UNCHANGED <<job, locks>>
  BY <1>5 DEF EditLink
<1>6. ASSUME NEW b \in DOMAIN bookings, NEW row \in {"host", "copy"}, GoogleDeletes(b, row)
      PROVE  UNCHANGED <<job, locks>>
  BY <1>6 DEF GoogleDeletes
<1>7. QED
  BY <1>1, <1>2, <1>3, <1>4, <1>5, <1>6 DEF Next

\* Every step is a Write, or leaves the bookings in place.
LEMMA Bookings ==
  ASSUME Typed, [Next]_vars
  PROVE  InPlace(bookings') \/ \E q \in Requests : Write(q)
<1>1. CASE UNCHANGED bookings
  BY <1>1, AsItIs
<1>2. ASSUME NEW r \in Requests, Step(r), ~Write(r) PROVE InPlace(bookings')
  <2>1. CASE CancelByGuest(r) \/ Destroy(r) \/ Move(r)
    BY <2>1, CancelByGuestKeeps, DestroyKeeps, MoveKeeps
  <2>2. ASSUME \/ Peek(r) \/ LockUser(r) \/ LockCalendar(r) \/ LockLink(r) \/ ReadExisting(r)
               \/ Replace(r) \/ Check(r)
        PROVE  InPlace(bookings')
    <3>1. UNCHANGED bookings
      BY <2>2 DEF Peek, LockUser, LockCalendar, LockLink, ReadExisting, Replace, Check
    <3>2. QED
      BY <3>1, AsItIs
  <2>3. QED
    BY <1>2, <2>1, <2>2, Zenon DEF Step
<1>3. ASSUME NEW r \in Requests, Arrive(r) \/ Abort(r) PROVE UNCHANGED bookings
  BY <1>3 DEF Arrive, Book, Cancel, Edit, Abort
<1>4. ASSUME NEW l \in Links, EditLink(l) PROVE UNCHANGED bookings
  BY <1>4 DEF EditLink
<1>5. ASSUME NEW b \in DOMAIN bookings, NEW row \in {"host", "copy"}, GoogleDeletes(b, row)
      PROVE  InPlace(bookings')
  BY <1>5, GoogleKeeps
<1>6. QED
  BY <1>1, <1>2, <1>3, <1>4, <1>5 DEF Next, vars

-------------------------------------------------------------------------------
\* What a request holds.
Held ==
  \A r \in Requests :
    /\ job[r].pc \in HeldPoints => \A c \in job[r].wants : calLock[c] = r
    /\ job[r].pc \in OwnPoints => linkLock[job[r].link] = r

\* Nobody holds anything at first.
LEMMA HeldInit == ASSUME Init PROVE Held
BY DEF Init, Held, NoJob, HeldPoints, OwnPoints

\* Nobody else takes or frees what a request holds.
LEMMA HeldStep == ASSUME Typed, Held, [Next]_vars PROVE Held'
<1>1. CASE UNCHANGED <<job, locks>>
  BY <1>1 DEF Held, locks
<1>2. ASSUME NEW q \in Requests, Turn(q), NEW r \in Requests
      PROVE  /\ job'[r].pc \in HeldPoints => \A c \in job'[r].wants : calLock'[c] = r
             /\ job'[r].pc \in OwnPoints => linkLock'[job'[r].link] = r
  <2>1. job[r].wants \subseteq Calendars
    BY DEF Typed, TypeOK, Job
  <2>2. job[r].pc \in HeldPoints => job[r].link \in Links
    BY DEF Typed, JobOK, HeldPoints, BookPoints
  <2>3. job[r].pc \in OwnPoints => job[r].pc \in HeldPoints
    BY DEF OwnPoints, HeldPoints
  <2>4. CASE r # q
    <3>1. job'[r] = job[r] /\ KeepsLocks(r)
      BY <1>2, <2>4 DEF Turn
    <3>2. QED
      BY <2>1, <2>2, <2>3, <3>1 DEF Held, KeepsLocks
  <2>5. CASE r = q
    <3>1. ASSUME job'[q].pc \in HeldPoints PROVE KeepsLocks(q) /\ SameRequest(q)
      BY <1>2, <3>1 DEF Turn, HeldPoints
    <3>2. ASSUME job'[q].pc \in HeldPoints PROVE \A c \in job'[q].wants : calLock'[c] = q
      <4>1. CASE job[q].pc \in HeldPoints
        BY <2>1, <2>5, <3>1, <3>2, <4>1 DEF Held, KeepsLocks, SameRequest
      <4>2. CASE \A c \in job[q].wants : calLock'[c] = q
        BY <3>1, <3>2, <4>2 DEF SameRequest
      <4>3. QED
        BY <1>2, <3>2, <4>1, <4>2 DEF Turn
    <3>3. ASSUME job'[q].pc \in OwnPoints PROVE linkLock'[job'[q].link] = q
      <4>1. job'[q].pc \in HeldPoints
        BY <3>3 DEF OwnPoints, HeldPoints
      <4>2. CASE job[q].pc \in OwnPoints
        BY <2>2, <2>3, <2>5, <3>1, <4>1, <4>2 DEF Held, KeepsLocks, SameRequest
      <4>3. CASE linkLock'[job[q].link] = q
        BY <3>1, <4>1, <4>3 DEF SameRequest
      <4>4. QED
        BY <1>2, <3>3, <4>2, <4>3 DEF Turn
    <3>4. QED
      BY <2>5, <3>2, <3>3
  <2>6. QED
    BY <2>4, <2>5
<1>3. QED
  BY <1>1, <1>2, Turns DEF Held

-------------------------------------------------------------------------------
\* BusyOn and ClearOf, for any sequence of bookings.
BusyIn(bs, c) ==
  {b \in DOMAIN bs : (bs[b].up /\ bs[b].cal = c) \/ (bs[b].copyUp /\ bs[b].copy = c)}

ClearIn(bs, l, s, b) ==
  \/ bs[b].start + Rules[bs[b].link].duration + Rules[l].before <= s
  \/ s + Rules[l].duration + Rules[l].after <= bs[b].start

\* A slot that was found free stays free until it is taken.
SlotKept ==
  \A r \in Requests : job[r].pc = "write" =>
    \A b \in BusyIn(bookings, job[r].cal) \ {job[r].old} :
      bookings[b].moved \/ ClearIn(bookings, job[r].link, job[r].start, b)

\* What is on a calendar after the bookings have aged was on it before.
LEMMA BusyBefore ==
  ASSUME NEW bs, NEW as, NEW c, NEW b \in DOMAIN as,
         Ages(as[b], bs[b]), b \in BusyIn(bs, c)
  PROVE  b \in BusyIn(as, c)
BY DEF Ages, BusyIn

\* Distance is kept by what is not moved.
LEMMA ClearAfter ==
  ASSUME NEW bs, NEW as, NEW l, NEW s, NEW b, Ages(as[b], bs[b]), ClearIn(as, l, s, b), ~bs[b].moved
  PROVE  ClearIn(bs, l, s, b)
<1>1. bs[b].link = as[b].link /\ bs[b].start = as[b].start
  BY DEF Ages
<1>2. QED
  BY <1>1 DEF ClearIn

\* What is added to a calendar is added by the request that has locked it.
LEMMA AddedLocked ==
  ASSUME Typed, Held, NEW q \in Requests, Write(q), NEW c, Len(bookings) + 1 \in BusyIn(bookings', c)
  PROVE  calLock[c] = q
<1>1. bookings'[Len(bookings) + 1] = Written(q)
  BY WriteAdds DEF Added
<1>2. c = job[q].cal \/ (HasDiary(job[q].link, job[q].guest) /\ c = Diary[job[q].guest])
  <2> DEFINE w == Written(q)
  <2>1. w.cal = job[q].cal
    BY DEF Written
  <2>2. w.copyUp => /\ HasDiary(job[q].link, job[q].guest)
                    /\ w.copy = Diary[job[q].guest]
    BY DEF Written, HasDiary
  <2>3. (w.up /\ w.cal = c) \/ (w.copyUp /\ w.copy = c)
    BY <1>1 DEF BusyIn
  <2> HIDE DEF w
  <2>4. QED
    BY <2>1, <2>2, <2>3
<1>3. c \in job[q].wants
  BY <1>2 DEF Write, At, Typed, JobOK, BookPoints, HeldPoints
<1>4. QED
  BY <1>3 DEF Held, Write, At, HeldPoints

\* No slot has been found yet.
LEMMA SlotKeptInit == ASSUME Init PROVE SlotKept
BY DEF Init, SlotKept, NoJob

\* The lock on the calendar keeps others from adding to it.
LEMMA SlotKeptStep == ASSUME Typed, Held, SlotKept, [Next]_vars PROVE SlotKept'
<1> SUFFICES ASSUME NEW r \in Requests, job'[r].pc = "write",
                    NEW b \in BusyIn(bookings', job'[r].cal), b # job'[r].old
             PROVE  bookings'[b].moved \/ ClearIn(bookings', job'[r].link, job'[r].start, b)
  BY DEF SlotKept
<1>1. CASE job'[r] = job[r]
  <2>1. calLock[job[r].cal] = r
    BY <1>1 DEF Typed, JobOK, BookPoints, Held, HeldPoints
  <2>2. ASSUME b \in DOMAIN bookings, Ages(bookings[b], bookings'[b])
        PROVE  bookings'[b].moved \/ ClearIn(bookings', job'[r].link, job'[r].start, b)
    <3>1. b \in BusyIn(bookings, job[r].cal)
      BY <1>1, <2>2, BusyBefore
    <3>2. bookings[b].moved \/ ClearIn(bookings, job[r].link, job[r].start, b)
      BY <1>1, <3>1 DEF SlotKept
    <3>3. CASE bookings[b].moved
      BY <2>2, <3>3 DEF Ages
    <3>4. CASE ClearIn(bookings, job[r].link, job[r].start, b) /\ ~bookings'[b].moved
      BY <1>1, <2>2, <3>4, ClearAfter
    <3>5. QED
      BY <3>2, <3>3, <3>4
  <2>3. CASE InPlace(bookings')
    <3>1. b \in DOMAIN bookings
      BY <2>3 DEF InPlace, BusyIn, Typed, TypeOK
    <3>2. QED
      BY <2>2, <2>3, <3>1 DEF InPlace
  <2>4. ASSUME NEW q \in Requests, Write(q)
        PROVE  bookings'[b].moved \/ ClearIn(bookings', job'[r].link, job'[r].start, b)
    <3>1. Added(q)
      BY <2>4, WriteAdds
    <3>2. q # r
      <4>1. job'[q].pc = "done"
        BY <2>4, FinishTyped DEF Write, Typed, NoJob
      <4>2. QED
        BY <4>1
    <3>3. CASE b \in DOMAIN bookings
      BY <2>2, <3>1, <3>3 DEF Added
    <3>4. CASE b = Len(bookings) + 1
      <4>1. calLock[job[r].cal] = q
        BY <1>1, <2>4, <3>4, AddedLocked
      <4>2. QED
        BY <2>1, <3>2, <4>1
    <3>5. b \in DOMAIN bookings \/ b = Len(bookings) + 1
      BY <3>1 DEF Added, BusyIn, Typed, TypeOK
    <3>6. QED
      BY <3>3, <3>4, <3>5
  <2>5. QED
    BY <2>3, <2>4, Bookings
<1>2. ASSUME Turn(r) PROVE bookings'[b].moved \/ ClearIn(bookings', job'[r].link, job'[r].start, b)
  <2>1. /\ SlotFree(r) /\ bookings' = bookings /\ SameRequest(r) /\ job'[r].old = job[r].old
    BY <1>2 DEF Turn, HeldPoints
  <2>2. b \in BusyOn(job[r].cal) \ {job[r].old}
    BY <2>1 DEF BusyOn, BusyIn, SameRequest
  <2>3. ClearOf(job[r].link, job[r].start, b)
    BY <2>1, <2>2 DEF SlotFree
  <2>4. QED
    BY <2>1, <2>3 DEF ClearOf, ClearIn, SameRequest
<1>3. QED
  BY <1>1, <1>2, Turns DEF Turn

\* A booking is written into a slot that is still free.
LEMMA NoDoubleBookingStep ==
  ASSUME Typed, SlotKept, NoDoubleBooking, [Next]_vars
  PROVE  NoDoubleBooking'
<1> SUFFICES ASSUME NEW i \in DOMAIN bookings', NEW j \in DOMAIN bookings', i < j, bookings'[j].up,
                    i \in BusyIn(bookings', bookings'[j].cal), ~bookings'[i].moved, ~bookings'[j].moved
             PROVE  ClearIn(bookings', bookings'[j].link, bookings'[j].start, i)
  BY DEF NoDoubleBooking, BusyOn, BusyIn, ClearOf, ClearIn
<1>1. ASSUME i \in DOMAIN bookings, j \in DOMAIN bookings,
             Ages(bookings[i], bookings'[i]), Ages(bookings[j], bookings'[j])
      PROVE  ClearIn(bookings', bookings'[j].link, bookings'[j].start, i)
  <2>1. bookings'[j].cal = bookings[j].cal /\ bookings[j].up /\ ~bookings[i].moved /\ ~bookings[j].moved
        /\ bookings'[j].link = bookings[j].link /\ bookings'[j].start = bookings[j].start
    BY <1>1 DEF Ages
  <2>2. i \in BusyIn(bookings, bookings[j].cal)
    BY <1>1, <2>1, BusyBefore
  <2>3. ClearIn(bookings, bookings[j].link, bookings[j].start, i)
    BY <1>1, <2>1, <2>2 DEF NoDoubleBooking, BusyOn, BusyIn, ClearOf, ClearIn
  <2>4. QED
    BY <1>1, <2>1, <2>3, ClearAfter
<1>2. CASE InPlace(bookings')
  BY <1>1, <1>2 DEF InPlace, Typed, TypeOK
<1>3. ASSUME NEW q \in Requests, Write(q)
      PROVE  ClearIn(bookings', bookings'[j].link, bookings'[j].start, i)
  <2>1. Added(q) /\ Len(bookings) \in Nat /\ DOMAIN bookings = 1 .. Len(bookings)
        /\ DOMAIN bookings' = 1 .. (Len(bookings) + 1)
    BY <1>3, WriteAdds DEF Added, Typed, TypeOK
  <2>2. i \in DOMAIN bookings
    BY <2>1
  <2>3. CASE j \in DOMAIN bookings
    BY <1>1, <2>1, <2>2, <2>3 DEF Added
  <2>4. CASE j = Len(bookings) + 1
    <3>1. bookings'[j].cal = job[q].cal /\ bookings'[j].link = job[q].link
          /\ bookings'[j].start = job[q].start
      BY <2>1, <2>4 DEF Added, Written
    <3>2. job[q].pc = "write"
      BY <1>3 DEF Write, At
    <3>3. Ages(bookings[i], bookings'[i])
      BY <2>1, <2>2 DEF Added
    <3>4. i \in BusyIn(bookings, job[q].cal)
      BY <2>2, <3>1, <3>3, BusyBefore
    <3>5. i # job[q].old
      <4>1. bookings'[i].up \/ bookings'[i].copyUp
        BY DEF BusyIn
      <4>2. CASE job[q].old = None
        BY <2>1, <2>2, <4>2 DEF None
      <4>3. CASE job[q].old # None
        BY <2>1, <4>1, <4>3 DEF Added
      <4>4. QED
        BY <4>2, <4>3
    <3>6. bookings[i].moved \/ ClearIn(bookings, job[q].link, job[q].start, i)
      BY <3>2, <3>4, <3>5 DEF SlotKept
    <3>7. ~bookings[i].moved
      BY <3>3 DEF Ages
    <3>8. QED
      BY <3>1, <3>3, <3>6, <3>7, ClearAfter
  <2>5. QED
    BY <2>1, <2>3, <2>4
<1>4. QED
  BY <1>2, <1>3, Bookings

-------------------------------------------------------------------------------
\* Upcoming, for any sequence of bookings.
UpIn(bs, l, u) == {b \in DOMAIN bs : bs[b].up /\ bs[b].link = l /\ bs[b].guest = u}

\* A request under the lock of the link knows the only meeting of its guest.
Sole ==
  \A r \in Requests : job[r].pc \in {"replace", "check", "write"} =>
    /\ job[r].guest \in Users => UpIn(bookings, job[r].link, job[r].guest) \subseteq {job[r].old}
    /\ job[r].old # None => /\ bookings[job[r].old].link = job[r].link
                            /\ bookings[job[r].old].guest = job[r].guest

\* OneEach by UpIn.
One == \A l \in Links, u \in Users : \A a, b \in UpIn(bookings, l, u) : a = b

\* The same, said twice.
LEMMA OneIsOneEach == One <=> OneEach
BY DEF One, OneEach, UpIn, Upcoming

\* There is no booking at first.
LEMMA SoleInit == ASSUME Init PROVE Sole /\ One
BY DEF Init, Sole, One, NoJob, UpIn

\* What is coming up was coming up before.
LEMMA UpBefore ==
  ASSUME NEW as, NEW bs, NEW l, NEW u, NEW b \in DOMAIN as, Ages(as[b], bs[b]), b \in UpIn(bs, l, u)
  PROVE  b \in UpIn(as, l, u)
BY DEF Ages, UpIn

\* The lock on the link keeps others from booking by it.
LEMMA SoleStep == ASSUME Typed, Held, Sole, One, [Next]_vars PROVE Sole'
<1> SUFFICES ASSUME NEW r \in Requests, job'[r].pc \in {"replace", "check", "write"}
             PROVE  /\ job'[r].guest \in Users
                         => UpIn(bookings', job'[r].link, job'[r].guest) \subseteq {job'[r].old}
                    /\ job'[r].old # None => /\ bookings'[job'[r].old].link = job'[r].link
                                             /\ bookings'[job'[r].old].guest = job'[r].guest
  BY DEF Sole
<1>1. CASE job'[r] = job[r]
  <2>1. linkLock[job[r].link] = r
    BY <1>1 DEF Held, OwnPoints
  <2>2. job[r].old # None => job[r].old \in DOMAIN bookings
    BY DEF Typed, TypeOK, JobOK, None
  <2>3. CASE InPlace(bookings')
    <3>1. DOMAIN bookings' = DOMAIN bookings /\ \A i \in DOMAIN bookings : Ages(bookings[i], bookings'[i])
      BY <2>3 DEF InPlace, Typed, TypeOK
    <3>2. UpIn(bookings', job[r].link, job[r].guest) \subseteq UpIn(bookings, job[r].link, job[r].guest)
      BY <3>1, UpBefore DEF UpIn
    <3>3. QED
      BY <1>1, <2>2, <3>1, <3>2 DEF Sole, Ages
  <2>4. ASSUME NEW q \in Requests, Write(q)
        PROVE  /\ job'[r].guest \in Users
                    => UpIn(bookings', job'[r].link, job'[r].guest) \subseteq {job'[r].old}
               /\ job'[r].old # None => /\ bookings'[job'[r].old].link = job'[r].link
                                        /\ bookings'[job'[r].old].guest = job'[r].guest
    <3>1. Added(q) /\ DOMAIN bookings = 1 .. Len(bookings) /\ DOMAIN bookings' = 1 .. (Len(bookings) + 1)
      BY <2>4, WriteAdds DEF Added, Typed, TypeOK
    <3>2. q # r
      <4>1. job'[q].pc = "done"
        BY <2>4, FinishTyped DEF Write, Typed, NoJob
      <4>2. QED
        BY <4>1
    <3>3. bookings'[Len(bookings) + 1].link # job[r].link
      <4>1. linkLock[job[q].link] = q
        BY <2>4 DEF Held, OwnPoints, Write, At
      <4>2. bookings'[Len(bookings) + 1].link = job[q].link
        BY <3>1 DEF Added, Written
      <4>3. QED
        BY <2>1, <3>2, <4>1, <4>2
    <3>4. UpIn(bookings', job[r].link, job[r].guest) \subseteq UpIn(bookings, job[r].link, job[r].guest)
      <4> SUFFICES ASSUME NEW b \in UpIn(bookings', job[r].link, job[r].guest)
                   PROVE  b \in UpIn(bookings, job[r].link, job[r].guest)
        OBVIOUS
      <4>1. b \in 1 .. (Len(bookings) + 1) /\ b # Len(bookings) + 1 /\ Len(bookings) \in Nat
        BY <3>1, <3>3 DEF UpIn, Typed, TypeOK
      <4>2. b \in DOMAIN bookings
        BY <3>1, <4>1
      <4>3. QED
        BY <3>1, <4>2, UpBefore DEF Added
    <3>5. job[r].old # None => Ages(bookings[job[r].old], bookings'[job[r].old])
      BY <2>2, <3>1 DEF Added
    <3>6. job[r].old # None => /\ bookings'[job[r].old].link = job[r].link
                              /\ bookings'[job[r].old].guest = job[r].guest
      BY <1>1, <3>5 DEF Sole, Ages
    <3>7. job[r].guest \in Users => UpIn(bookings', job[r].link, job[r].guest) \subseteq {job[r].old}
      BY <1>1, <3>4 DEF Sole
    <3>8. QED
      BY <1>1, <3>6, <3>7
  <2>5. QED
    BY <2>3, <2>4, Bookings
<1>2. ASSUME Turn(r)
      PROVE  /\ job'[r].guest \in Users
                  => UpIn(bookings', job'[r].link, job'[r].guest) \subseteq {job'[r].old}
             /\ job'[r].old # None => /\ bookings'[job'[r].old].link = job'[r].link
                                      /\ bookings'[job'[r].old].guest = job'[r].guest
  <2>1. bookings' = bookings /\ SameRequest(r)
    BY <1>2 DEF Turn, HeldPoints
  <2>2. CASE job'[r].old = job[r].old /\ job[r].pc \in {"replace", "check"}
    BY <2>1, <2>2 DEF Sole, SameRequest
  <2>3. CASE job'[r].old \in Existing(job[r].link, job[r].guest)
    <3>1. job[r].link \in Links
      <4>1. job'[r].pc \in OwnPoints /\ job'[r].pc \in BookPoints
        BY DEF OwnPoints, BookPoints
      <4>2. Typed'
        BY TypedStep
      <4>3. job'[r].link \in Links
        BY <4>1, <4>2 DEF Typed, JobOK
      <4>4. QED
        BY <2>1, <4>3 DEF SameRequest
    <3>2. job[r].guest \in Users => job[r].guest # Visitor
      BY BookingAssumption
    <3>3. Upcoming(job[r].link, job[r].guest) = UpIn(bookings, job[r].link, job[r].guest)
      BY DEF Upcoming, UpIn
    <3>4. \/ job'[r].old = None /\ (job[r].guest \in Users => UpIn(bookings, job[r].link, job[r].guest) = {})
          \/ job'[r].old \in UpIn(bookings, job[r].link, job[r].guest)
      BY <2>3, <3>2, <3>3 DEF Existing
    <3>5. CASE job'[r].old = None /\ (job[r].guest \in Users => UpIn(bookings, job[r].link, job[r].guest) = {})
      BY <2>1, <3>5 DEF SameRequest
    <3>6. CASE job'[r].old \in UpIn(bookings, job[r].link, job[r].guest)
      <4>1. job[r].guest \in Users => UpIn(bookings, job[r].link, job[r].guest) \subseteq {job'[r].old}
        BY <3>1, <3>6 DEF One
      <4>2. /\ bookings[job'[r].old].link = job[r].link
            /\ bookings[job'[r].old].guest = job[r].guest
        BY <3>6 DEF UpIn
      <4>3. QED
        BY <2>1, <4>1, <4>2 DEF SameRequest
    <3>7. QED
      BY <3>4, <3>5, <3>6
  <2>4. \/ job'[r].old = job[r].old /\ job[r].pc \in {"replace", "check"}
        \/ job'[r].old \in Existing(job[r].link, job[r].guest)
    BY <1>2 DEF Turn
  <2>5. QED
    BY <2>2, <2>3, <2>4
<1>3. QED
  BY <1>1, <1>2, Turns DEF Turn

\* The only one is replaced by the new one.
LEMMA OneStep == ASSUME Typed, Sole, One, [Next]_vars PROVE One'
<1> SUFFICES ASSUME NEW l \in Links, NEW u \in Users,
                    NEW a \in UpIn(bookings', l, u), NEW b \in UpIn(bookings', l, u)
             PROVE  a = b
  BY DEF One
<1>1. CASE InPlace(bookings')
  <2>1. a \in DOMAIN bookings /\ b \in DOMAIN bookings
    BY <1>1 DEF InPlace, UpIn, Typed, TypeOK
  <2>2. a \in UpIn(bookings, l, u) /\ b \in UpIn(bookings, l, u)
    BY <1>1, <2>1, UpBefore DEF InPlace
  <2>3. QED
    BY <2>2 DEF One
<1>2. ASSUME NEW q \in Requests, Write(q) PROVE a = b
  <2>1. Added(q) /\ DOMAIN bookings = 1 .. Len(bookings) /\ DOMAIN bookings' = 1 .. (Len(bookings) + 1)
        /\ Len(bookings) \in Nat
    BY <1>2, WriteAdds DEF Added, Typed, TypeOK
  <2>2. bookings'[Len(bookings) + 1].link = job[q].link /\ bookings'[Len(bookings) + 1].guest = job[q].guest
    BY <2>1 DEF Added, Written
  <2>3. ASSUME NEW c \in UpIn(bookings', l, u), c # Len(bookings) + 1
        PROVE  /\ c \in UpIn(bookings, l, u)
               /\ l # job[q].link \/ u # job[q].guest
    <3>1. c \in DOMAIN bookings
      BY <2>1, <2>3 DEF UpIn
    <3>2. c \in UpIn(bookings, l, u)
      BY <2>1, <3>1, UpBefore DEF Added
    <3>3. ASSUME l = job[q].link, u = job[q].guest PROVE FALSE
      <4>1. c = job[q].old
        BY <1>2, <3>2, <3>3 DEF Sole, Write, At
      <4>2. c # None
        BY <2>1, <3>1 DEF None
      <4>3. bookings'[c].up
        BY DEF UpIn
      <4>4. QED
        BY <2>1, <4>1, <4>2, <4>3 DEF Added
    <3>4. QED
      BY <3>2, <3>3
  <2>4. CASE a = Len(bookings) + 1 \/ b = Len(bookings) + 1
    <3>1. l = job[q].link /\ u = job[q].guest
      BY <2>2, <2>4 DEF UpIn
    <3>2. QED
      BY <2>3, <3>1
  <2>5. CASE a # Len(bookings) + 1 /\ b # Len(bookings) + 1
    BY <2>3, <2>5 DEF One
  <2>6. QED
    BY <2>4, <2>5
<1>3. QED
  BY <1>1, <1>2, Bookings

-------------------------------------------------------------------------------
\* A copy outlives the row of the host only if Google has deleted that.
CopyAlone ==
  \A b \in DOMAIN bookings : bookings[b].copyUp => bookings[b].up \/ bookings[b].halved

\* Host and copy are ended together by everybody but Google.
LEMMA CopyAloneStep == ASSUME Typed, CopyAlone, [Next]_vars PROVE CopyAlone'
<1> SUFFICES ASSUME NEW b \in DOMAIN bookings', bookings'[b].copyUp
             PROVE  bookings'[b].up \/ bookings'[b].halved
  BY DEF CopyAlone
<1>1. ASSUME b \in DOMAIN bookings, Ages(bookings[b], bookings'[b])
      PROVE  bookings'[b].up \/ bookings'[b].halved
  BY <1>1 DEF CopyAlone, Ages
<1>2. CASE InPlace(bookings')
  BY <1>1, <1>2 DEF InPlace, Typed, TypeOK
<1>3. ASSUME NEW q \in Requests, Write(q) PROVE bookings'[b].up \/ bookings'[b].halved
  <2>1. Added(q) /\ DOMAIN bookings = 1 .. Len(bookings) /\ DOMAIN bookings' = 1 .. (Len(bookings) + 1)
        /\ Len(bookings) \in Nat
    BY <1>3, WriteAdds DEF Added, Typed, TypeOK
  <2>2. bookings'[Len(bookings) + 1].up
    BY <2>1 DEF Added, Written
  <2>3. CASE b = Len(bookings) + 1
    BY <2>2, <2>3
  <2>4. CASE b # Len(bookings) + 1
    <3>1. b \in DOMAIN bookings
      BY <2>1, <2>4
    <3>2. QED
      BY <1>1, <2>1, <3>1 DEF Added
  <2>5. QED
    BY <2>3, <2>4
<1>4. QED
  BY <1>2, <1>3, Bookings

\* What excuses the invitation.
Excused(x) == x.halved \/ x.unfound

\* InviteTrue, for one member and link.
Told(iv, bs, l, u) ==
  \/ iv[u][l] = None /\ UpIn(bs, l, u) = {}
  \/ iv[u][l] \in UpIn(bs, l, u)
  \/ \E b \in DOMAIN bs : Excused(bs[b]) /\ bs[b].link = l /\ bs[b].guest = u

\* InviteTrue by UpIn.
InviteOK == \A l \in Links, u \in Users : Told(invite, bookings, l, u)

\* The same, said twice.
LEMMA InviteOKIsTrue == InviteOK <=> InviteTrue
BY DEF InviteOK, InviteTrue, Told, Excused, UpIn, Upcoming

\* Nothing is marked, and what goes is gone in Google.
LEMMA ToldUnmarked ==
  ASSUME Typed, InPlace(bookings'), NEW l \in Links, NEW u \in Users, Told(invite, bookings, l, u),
         invite'[u][l] = invite[u][l],
         \A b \in UpIn(bookings, l, u) : bookings'[b].up \/ Excused(bookings'[b])
  PROVE  Told(invite', bookings', l, u)
<1>1. DOMAIN bookings' = DOMAIN bookings /\ \A b \in DOMAIN bookings : Ages(bookings[b], bookings'[b])
  BY DEF InPlace, Typed, TypeOK
<1>2. CASE invite[u][l] = None /\ UpIn(bookings, l, u) = {}
  <2>1. UpIn(bookings', l, u) = {}
    BY <1>1, <1>2, UpBefore DEF UpIn
  <2>2. QED
    BY <1>2, <2>1 DEF Told
<1>3. CASE invite[u][l] \in UpIn(bookings, l, u)
  <2> DEFINE b == invite[u][l]
  <2>1. b \in DOMAIN bookings /\ bookings[b].link = l /\ bookings[b].guest = u
    BY <1>3 DEF UpIn
  <2>2. bookings'[b].link = l /\ bookings'[b].guest = u
    BY <1>1, <2>1 DEF Ages
  <2>3. bookings'[b].up \/ Excused(bookings'[b])
    BY <1>3
  <2> HIDE DEF b
  <2>4. CASE bookings'[b].up
    BY <1>1, <2>1, <2>2, <2>4 DEF Told, UpIn, b
  <2>5. CASE Excused(bookings'[b])
    BY <1>1, <2>1, <2>2, <2>5 DEF Told
  <2>6. QED
    BY <2>3, <2>4, <2>5
<1>4. ASSUME NEW b \in DOMAIN bookings, Excused(bookings[b]), bookings[b].link = l, bookings[b].guest = u
      PROVE  Told(invite', bookings', l, u)
  <2>1. b \in DOMAIN bookings' /\ Excused(bookings'[b]) /\ bookings'[b].link = l /\ bookings'[b].guest = u
    BY <1>1, <1>4 DEF Ages, Excused
  <2>2. QED
    BY <2>1 DEF Told
<1>5. QED
  BY <1>2, <1>3, <1>4 DEF Told

\* Somebody calls booking b off.
LEMMA InviteEnded ==
  ASSUME Typed, One, InviteOK, NEW b \in DOMAIN bookings, InPlace(bookings'), ~bookings'[b].up,
         \A a \in DOMAIN bookings \ {b} : bookings'[a] = bookings[a],
         bookings[b].up \/ Excused(bookings[b]), Marked(bookings[b].link, bookings[b].guest, None)
  PROVE  InviteOK'
<1> SUFFICES ASSUME NEW l \in Links, NEW u \in Users PROVE Told(invite', bookings', l, u)
  BY DEF InviteOK
<1>1. /\ InPlace(bookings')
      /\ ~bookings'[b].up /\ \A a \in DOMAIN bookings \ {b} : bookings'[a] = bookings[a]
      /\ DOMAIN bookings' = DOMAIN bookings
  BY DEF InPlace, Typed, TypeOK
<1>2. bookings[b] \in Booking
  BY BookingAt
<1>3. CASE l = bookings[b].link /\ u = bookings[b].guest
  <2>1. invite'[u][l] = None
    BY <1>3 DEF Marked, Typed, TypeOK
  <2>2. CASE bookings[b].up
    <3>1. \A a \in UpIn(bookings, l, u) : a = b
      BY <1>3, <2>2 DEF One, UpIn
    <3>2. UpIn(bookings', l, u) = {}
      BY <1>1, <3>1, UpBefore DEF UpIn, InPlace
    <3>3. QED
      BY <2>1, <3>2 DEF Told
  <2>3. CASE Excused(bookings[b])
    <3>1. Excused(bookings'[b]) /\ bookings'[b].link = l /\ bookings'[b].guest = u
      BY <1>1, <1>3, <2>3 DEF InPlace, Ages, Excused
    <3>2. QED
      BY <1>1, <3>1 DEF Told
  <2>4. QED
    BY <2>2, <2>3
<1>4. CASE ~(l = bookings[b].link /\ u = bookings[b].guest)
  <2>1. invite'[u][l] = invite[u][l]
    BY <1>4 DEF Marked, Typed, TypeOK
  <2>2. \A a \in UpIn(bookings, l, u) : bookings'[a].up
    BY <1>1, <1>4 DEF UpIn
  <2>3. Told(invite, bookings, l, u)
    BY DEF InviteOK
  <2>4. QED
    BY <1>1, <2>1, <2>2, <2>3, ToldUnmarked
<1>5. QED
  BY <1>3, <1>4

\* Nothing is marked.
LEMMA InviteUnmarked ==
  ASSUME Typed, InviteOK, InPlace(bookings'), UNCHANGED invite,
         \A b \in DOMAIN bookings : bookings[b].up => bookings'[b].up \/ Excused(bookings'[b])
  PROVE  InviteOK'
BY ToldUnmarked DEF InviteOK, UpIn

\* A booking is marked as it is written.
LEMMA InviteWritten ==
  ASSUME Typed, Sole, InviteOK, NEW q \in Requests, Write(q)
  PROVE  InviteOK'
<1> SUFFICES ASSUME NEW l \in Links, NEW u \in Users PROVE Told(invite', bookings', l, u)
  BY DEF InviteOK
<1>1. Added(q) /\ DOMAIN bookings = 1 .. Len(bookings) /\ DOMAIN bookings' = 1 .. (Len(bookings) + 1)
      /\ Len(bookings) \in Nat
  BY WriteAdds DEF Added, Typed, TypeOK
<1>2. /\ bookings'[Len(bookings) + 1].link = job[q].link /\ bookings'[Len(bookings) + 1].guest = job[q].guest
      /\ bookings'[Len(bookings) + 1].up
  BY <1>1 DEF Added, Written
<1>3. Marked(job[q].link, job[q].guest, Len(bookings) + 1)
  BY DEF Write
<1>4. CASE l = job[q].link /\ u = job[q].guest
  <2>1. invite'[u][l] = Len(bookings) + 1
    BY <1>3, <1>4 DEF Marked, Typed, TypeOK
  <2>2. Len(bookings) + 1 \in UpIn(bookings', l, u)
    BY <1>1, <1>2, <1>4 DEF UpIn
  <2>3. QED
    BY <2>1, <2>2 DEF Told
<1>5. CASE ~(l = job[q].link /\ u = job[q].guest)
  <2>1. invite'[u][l] = invite[u][l]
    BY <1>3, <1>5 DEF Marked, Typed, TypeOK
  <2>2. \A b \in DOMAIN bookings : bookings[b].link = l /\ bookings[b].guest = u => b # job[q].old
    BY <1>1, <1>5 DEF Sole, Write, At, None
  <2>3. \A b \in DOMAIN bookings : bookings[b].link = l /\ bookings[b].guest = u => bookings'[b] = bookings[b]
    BY <1>1, <2>2 DEF Added
  <2>4. UpIn(bookings', l, u) = UpIn(bookings, l, u)
    <3>1. UpIn(bookings, l, u) \subseteq UpIn(bookings', l, u)
      BY <1>1, <2>3 DEF UpIn
    <3>2. ASSUME NEW b \in UpIn(bookings', l, u) PROVE b \in UpIn(bookings, l, u)
      <4>1. b # Len(bookings) + 1
        BY <1>2, <1>5 DEF UpIn
      <4>2. b \in DOMAIN bookings
        BY <1>1, <4>1 DEF UpIn
      <4>3. QED
        BY <1>1, <4>2, UpBefore DEF Added
    <3>3. QED
      BY <3>1, <3>2
  <2>5. Told(invite, bookings, l, u)
    BY DEF InviteOK
  <2>6. CASE \E b \in DOMAIN bookings : Excused(bookings[b]) /\ bookings[b].link = l /\ bookings[b].guest = u
    BY <1>1, <2>3, <2>6 DEF Told
  <2>7. QED
    BY <2>1, <2>4, <2>5, <2>6 DEF Told
<1>6. QED
  BY <1>4, <1>5

\* All steps keep the invitations true.
LEMMA InviteStep ==
  ASSUME Typed, Sole, One, CopyAlone, InviteOK, [Next]_vars
  PROVE  InviteOK'
<1>1. ASSUME UNCHANGED <<bookings, invite>> PROVE InviteOK'
  BY <1>1 DEF InviteOK
<1>2. ASSUME NEW r \in Requests, CancelByGuest(r) PROVE InviteOK'
  <2>1. job[r].old \in DOMAIN bookings
    BY <1>2, Named DEF CancelByGuest, At
  <2>2. CASE bookings[job[r].old].up
    <3>1. /\ bookings' = Ended(job[r].old, 1)
          /\ Marked(bookings[job[r].old].link, bookings[job[r].old].guest, None)
      BY <1>2, <2>2 DEF CancelByGuest
    <3>2. /\ InPlace(bookings') /\ ~bookings'[job[r].old].up
          /\ \A a \in DOMAIN bookings \ {job[r].old} : bookings'[a] = bookings[a]
      BY <2>1, <3>1, EndedAges
    <3>3. QED
      BY <2>1, <2>2, <3>1, <3>2, InviteEnded
  <2>3. CASE ~bookings[job[r].old].up
    <3>1. bookings' = Ended(job[r].old, 0) /\ UNCHANGED invite
      BY <1>2, <2>3 DEF CancelByGuest
    <3>2. /\ InPlace(bookings')
          /\ \A a \in DOMAIN bookings \ {job[r].old} : bookings'[a] = bookings[a]
      BY <2>1, <3>1, EndedAges
    <3>3. QED
      BY <2>3, <3>1, <3>2, InviteUnmarked
  <2>4. QED
    BY <2>2, <2>3
<1>3. ASSUME NEW r \in Requests, Destroy(r) PROVE InviteOK'
  <2>1. job[r].old \in DOMAIN bookings
    BY <1>3, Named DEF Destroy, At
  <2>2. CASE RowUp(job[r].old, job[r].row)
    <3>1. bookings[job[r].old].up \/ Excused(bookings[job[r].old])
      BY <2>1, <2>2 DEF RowUp, CopyAlone, Excused
    <3>2. PICK n \in Nat : bookings' = EndedByHost(job[r].old, n)
      BY <1>3, <2>2 DEF Destroy
    <3>3. /\ InPlace(bookings') /\ ~bookings'[job[r].old].up
          /\ Unfound(job[r].old) => bookings'[job[r].old].unfound
          /\ \A a \in DOMAIN bookings \ {job[r].old} : bookings'[a] = bookings[a]
      BY <2>1, <3>2, EndedByHostAges
    <3>4. CASE ~Unfound(job[r].old)
      <4>1. Marked(bookings[job[r].old].link, bookings[job[r].old].guest, None)
        BY <1>3, <2>2, <3>4 DEF Destroy
      <4>2. QED
        BY <2>1, <3>1, <3>3, <4>1, InviteEnded
    <3>5. CASE Unfound(job[r].old)
      <4>1. UNCHANGED invite
        BY <1>3, <3>5 DEF Destroy
      <4>2. Excused(bookings'[job[r].old])
        BY <3>3, <3>5 DEF Excused
      <4>3. QED
        BY <3>3, <4>1, <4>2, InviteUnmarked
    <3>6. QED
      BY <3>4, <3>5
  <2>3. CASE ~RowUp(job[r].old, job[r].row)
    BY <1>1, <1>3, <2>3 DEF Destroy
  <2>4. QED
    BY <2>2, <2>3
<1>4. ASSUME NEW r \in Requests, Move(r) PROVE InviteOK'
  <2>1. InPlace(bookings') /\ UNCHANGED invite
    BY <1>4, MoveKeeps DEF Move
  <2>2. \A b \in DOMAIN bookings : bookings'[b].up = bookings[b].up
    BY <1>4, BookingAt DEF Move, Booking, Typed, TypeOK
  <2>3. QED
    BY <2>1, <2>2, InviteUnmarked
<1>5. ASSUME NEW r \in Requests, Step(r) PROVE InviteOK'
  <2>1. CASE CancelByGuest(r) \/ Destroy(r) \/ Move(r) \/ Write(r)
    BY <1>2, <1>3, <1>4, <2>1, InviteWritten
  <2>2. ASSUME \/ Peek(r) \/ LockUser(r) \/ LockCalendar(r) \/ LockLink(r) \/ ReadExisting(r)
               \/ Replace(r) \/ Check(r)
        PROVE  InviteOK'
    BY <1>1, <2>2 DEF Peek, LockUser, LockCalendar, LockLink, ReadExisting, Replace, Check
  <2>3. QED
    BY <1>5, <2>1, <2>2, Zenon DEF Step
<1>6. ASSUME NEW r \in Requests, Arrive(r) \/ Abort(r) PROVE InviteOK'
  BY <1>1, <1>6 DEF Arrive, Book, Cancel, Edit, Abort
<1>7. ASSUME NEW l \in Links, EditLink(l) PROVE InviteOK'
  BY <1>1, <1>7 DEF EditLink
<1>8. ASSUME NEW b \in DOMAIN bookings, NEW row \in {"host", "copy"}, GoogleDeletes(b, row)
      PROVE  InviteOK'
  <2>1. InPlace(bookings') /\ UNCHANGED invite
    BY <1>8, GoogleKeeps DEF GoogleDeletes
  <2>2. bookings'[b].halved /\ \A a \in DOMAIN bookings \ {b} : bookings'[a] = bookings[a]
    BY <1>8, BookingAt DEF GoogleDeletes, Booking, Typed, TypeOK
  <2>3. QED
    BY <2>1, <2>2, InviteUnmarked DEF Excused
<1>9. CASE UNCHANGED vars
  BY <1>1, <1>9 DEF vars
<1>10. QED
  BY <1>5, <1>6, <1>7, <1>8, <1>9 DEF Next

-------------------------------------------------------------------------------
\* Where a request has got to, and what it has learnt on the way.
Onward(q) ==
  \/ /\ job[q].pc = "peek" /\ job'[q].pc \in {"user", "calendars"}
     /\ job[q].guest \in Users
          => \A b \in UpIn(bookings, job[q].link, job[q].guest) : bookings[b].cal \in job'[q].wants
  \/ job[q].pc \in {"user", "calendars"} /\ job'[q].pc \in {"calendars", "link"}
  \/ job[q].pc = "link" /\ job'[q].pc = "existing" /\ link[job[q].link].cal = job[q].cal
  \/ job[q].pc = "existing" /\ job'[q].pc = "check" /\ job'[q].old = None
  \/ /\ job[q].pc = "existing" /\ job'[q].pc = "replace"
     /\ job'[q].old \in Existing(job[q].link, job[q].guest) \ {None}
  \/ job[q].pc \in {"replace", "check"} /\ job'[q].pc \in {"check", "write"} /\ job'[q].old = job[q].old

\* It has come, or has gone on.
Learns(q) ==
  /\ \A r \in Requests \ {q} : job'[r] = job[r]
  /\ job'[q].pc \in BookPoints =>
       /\ UNCHANGED <<link, bookings>>
       /\ \/ job'[q].pc = "peek" /\ job'[q].cal = link[job'[q].link].cal
          \/ /\ job'[q].link = job[q].link /\ job'[q].guest = job[q].guest /\ job'[q].cal = job[q].cal
             /\ job[q].wants \subseteq job'[q].wants
             /\ Onward(q)

\* It has ended.
LEMMA EndedLearns == ASSUME Typed, NEW q \in Requests, Finish(q) PROVE Learns(q)
<1>1. job'[q].pc = "done" /\ \A r \in Requests \ {q} : job'[r] = job[r]
  BY FinishTyped DEF Typed, NoJob
<1>2. QED
  BY <1>1 DEF Learns, BookPoints

\* It goes on as it is.
LEMMA GotoLearns ==
  ASSUME Typed, NEW q \in Requests, NEW p \in Points, Goto(q, p), UNCHANGED <<link, bookings>>, Onward(q)
  PROVE  Learns(q)
BY OnGoto DEF Learns, SameRequest

LEMMA ArriveLearns == ASSUME Typed, NEW q \in Requests, Arrive(q) PROVE Learns(q)
<1>1. job[q] \in Job
  BY DEF Typed, TypeOK
<1>2. CASE Book(q)
  <2>1. PICK l \in Links, g \in session.guests, s \in Times :
          job' = [job EXCEPT ![q] = [@ EXCEPT !.pc = "peek", !.link = l, !.guest = g, !.start = s,
                                              !.cal = link[l].cal, !.wants = {link[l].cal}]]
    BY <1>2 DEF Book
  <2>2. /\ job'[q].pc = "peek" /\ job'[q].link = l /\ job'[q].cal = link[l].cal
        /\ \A r \in Requests \ {q} : job'[r] = job[r]
    BY <1>1, <2>1 DEF Typed, TypeOK, Job
  <2>3. UNCHANGED <<link, bookings>>
    BY <1>2 DEF Book
  <2>4. QED
    BY <2>2, <2>3 DEF Learns
<1>3. CASE Cancel(q)
  <2>1. job'[q].pc = "cancel" /\ \A r \in Requests \ {q} : job'[r] = job[r]
    BY <1>1, <1>3 DEF Cancel, Typed, TypeOK, Job
  <2>2. QED
    BY <2>1 DEF Learns, BookPoints
<1>4. CASE Edit(q)
  <2>1. PICK k \in {"delete", "move"}, b \in DOMAIN bookings, row \in {"host", "copy"}, s \in Times :
          job' = [job EXCEPT ![q] = [@ EXCEPT !.pc = k, !.old = b, !.row = row, !.start = s]]
    BY <1>4 DEF Edit
  <2>2. job'[q].pc = k /\ \A r \in Requests \ {q} : job'[r] = job[r]
    BY <1>1, <2>1 DEF Typed, TypeOK, Job
  <2>3. QED
    BY <2>2 DEF Learns, BookPoints
<1>5. QED
  BY <1>2, <1>3, <1>4 DEF Arrive

\* The meeting that its guest has already is the only one.
LEMMA PeekLearns == ASSUME Typed, One, NEW q \in Requests, Peek(q) PROVE Learns(q)
<1>1. PICK old \in Existing(job[q].link, job[q].guest) :
        job' = [job EXCEPT ![q].pc = IF HasDiary(job[q].link, job[q].guest) THEN "user" ELSE "calendars",
                           ![q].wants = IF old = None THEN @ ELSE @ \cup {bookings[old].cal}]
  BY DEF Peek
<1>2. job[q] \in Job /\ job[q].pc = "peek" /\ job[q].link \in Links
  BY DEF Typed, TypeOK, JobOK, BookPoints, Peek, At
<1>3. job'[q] = [job[q] EXCEPT !.pc = IF HasDiary(job[q].link, job[q].guest) THEN "user" ELSE "calendars",
                               !.wants = IF old = None THEN @ ELSE @ \cup {bookings[old].cal}]
      /\ \A r \in Requests \ {q} : job'[r] = job[r]
  BY <1>1 DEF Typed, TypeOK
<1>4. /\ job'[q].pc \in {"user", "calendars"}
      /\ job'[q].link = job[q].link /\ job'[q].guest = job[q].guest /\ job'[q].cal = job[q].cal
      /\ job'[q].wants = IF old = None THEN job[q].wants ELSE job[q].wants \cup {bookings[old].cal}
  BY <1>2, <1>3 DEF Job
<1>5. ASSUME job[q].guest \in Users, NEW b \in UpIn(bookings, job[q].link, job[q].guest)
      PROVE  bookings[b].cal \in job'[q].wants
  <2>1. job[q].guest # Visitor /\ Upcoming(job[q].link, job[q].guest) = UpIn(bookings, job[q].link, job[q].guest)
    BY <1>5, BookingAssumption DEF Upcoming, UpIn
  <2>2. old \in UpIn(bookings, job[q].link, job[q].guest)
    BY <1>5, <2>1 DEF Existing
  <2>3. b = old
    BY <1>2, <1>5, <2>2 DEF One
  <2>4. old # None
    BY <2>2 DEF UpIn, None, Typed, TypeOK
  <2>5. QED
    BY <1>4, <2>3, <2>4
<1>6. Onward(q)
  BY <1>2, <1>4, <1>5 DEF Onward
<1>7. QED
  BY <1>3, <1>4, <1>6 DEF Learns, Peek

LEMMA LockUserLearns == ASSUME Typed, NEW q \in Requests, LockUser(q) PROVE Learns(q)
<1>1. job[q] \in Job /\ job[q].pc = "user"
  BY DEF Typed, TypeOK, LockUser, At
<1>2. job'[q] = [job[q] EXCEPT !.pc = "calendars", !.wants = @ \cup {Diary[job[q].guest]}]
      /\ \A r \in Requests \ {q} : job'[r] = job[r]
  BY DEF LockUser, Typed, TypeOK
<1>3. /\ job'[q].pc = "calendars"
      /\ job'[q].link = job[q].link /\ job'[q].guest = job[q].guest /\ job'[q].cal = job[q].cal
      /\ job'[q].wants = job[q].wants \cup {Diary[job[q].guest]}
  BY <1>1, <1>2 DEF Job
<1>4. QED
  BY <1>1, <1>2, <1>3 DEF Learns, Onward, LockUser

LEMMA LockCalendarLearns == ASSUME Typed, NEW q \in Requests, LockCalendar(q) PROVE Learns(q)
<1>1. job[q].pc = "calendars" /\ UNCHANGED <<link, bookings>>
  BY DEF LockCalendar, At
<1>2. CASE UNCHANGED job
  BY <1>1, <1>2 DEF Learns, Onward
<1>3. CASE Goto(q, "link")
  <2>1. "link" \in Points
    BY DEF Points
  <2>2. Onward(q)
    BY <1>1, <1>3, <2>1, OnGoto DEF Onward
  <2>3. QED
    BY <1>1, <1>3, <2>1, <2>2, GotoLearns
<1>4. QED
  BY <1>2, <1>3 DEF LockCalendar

LEMMA LockLinkLearns == ASSUME Typed, NEW q \in Requests, LockLink(q) PROVE Learns(q)
<1>1. job[q].pc = "link" /\ UNCHANGED <<link, bookings>> /\ "existing" \in Points
  BY DEF LockLink, At, Points
<1>2. CASE Goto(q, "existing") /\ link[job[q].link].cal = job[q].cal
  <2>1. Onward(q)
    BY <1>1, <1>2, OnGoto DEF Onward
  <2>2. QED
    BY <1>1, <1>2, <2>1, GotoLearns
<1>3. CASE Finish(q)
  BY <1>3, EndedLearns
<1>4. QED
  BY <1>2, <1>3 DEF LockLink

LEMMA ReadExistingLearns == ASSUME Typed, NEW q \in Requests, ReadExisting(q) PROVE Learns(q)
<1>1. job[q].pc = "existing" /\ UNCHANGED <<link, bookings>> /\ "check" \in Points
  BY DEF ReadExisting, At, Points
<1>2. PICK old \in Existing(job[q].link, job[q].guest) :
        IF old = None
         THEN Goto(q, "check") /\ UNCHANGED locks
         ELSE IF bookings[old].start = job[q].start
           THEN Finish(q)
           ELSE /\ job' = [job EXCEPT ![q].pc = "replace", ![q].old = old]
                /\ UNCHANGED locks
  BY DEF ReadExisting
<1>3. CASE Finish(q)
  BY <1>3, EndedLearns
<1>4. CASE Goto(q, "check")
  <2>1. job'[q].pc = "check" /\ job'[q].old = None
    BY <1>1, <1>4, OnGoto DEF Typed, JobOK
  <2>2. QED
    BY <1>1, <1>4, <2>1, GotoLearns DEF Onward
<1>5. CASE old # None /\ job' = [job EXCEPT ![q].pc = "replace", ![q].old = old]
  <2>1. job[q] \in Job
    BY DEF Typed, TypeOK
  <2>2. job'[q] = [job[q] EXCEPT !.pc = "replace", !.old = old]
        /\ \A r \in Requests \ {q} : job'[r] = job[r]
    BY <1>5 DEF Typed, TypeOK
  <2>3. job'[q].pc = "replace" /\ job'[q].old = old /\ SameRequest(q)
    BY <2>1, <2>2 DEF Job, SameRequest
  <2>4. QED
    BY <1>1, <1>2, <1>5, <2>2, <2>3 DEF Learns, Onward, SameRequest
<1>6. QED
  BY <1>2, <1>3, <1>4, <1>5

LEMMA ReplaceLearns == ASSUME Typed, NEW q \in Requests, Replace(q) PROVE Learns(q)
<1>1. job[q].pc = "replace" /\ UNCHANGED <<link, bookings>> /\ "check" \in Points /\ Goto(q, "check")
  BY DEF Replace, At, Points
<1>2. Onward(q)
  BY <1>1, OnGoto DEF Onward
<1>3. QED
  BY <1>1, <1>2, GotoLearns

LEMMA CheckLearns == ASSUME Typed, NEW q \in Requests, Check(q) PROVE Learns(q)
<1>1. job[q].pc = "check" /\ UNCHANGED <<link, bookings>> /\ "write" \in Points
  BY DEF Check, At, Points
<1>2. CASE Finish(q)
  BY <1>2, EndedLearns
<1>3. CASE Goto(q, "write")
  <2>1. Onward(q)
    BY <1>1, <1>3, OnGoto DEF Onward
  <2>2. QED
    BY <1>1, <1>3, <2>1, GotoLearns
<1>4. QED
  BY <1>2, <1>3 DEF Check

\* In every step one request learns something, or none moves.
LEMMA Learning ==
  ASSUME Typed, One, [Next]_vars
  PROVE  (\E q \in Requests : Learns(q)) \/ UNCHANGED job
<1>1. ASSUME NEW r \in Requests, Step(r) PROVE Learns(r)
  <2>1. CASE Write(r) \/ CancelByGuest(r) \/ Destroy(r) \/ Move(r)
    BY <2>1, EndedLearns DEF Write, CancelByGuest, Destroy, Move
  <2>2. QED
    BY <1>1, <2>1, PeekLearns, LockUserLearns, LockCalendarLearns, LockLinkLearns, ReadExistingLearns,
       ReplaceLearns, CheckLearns DEF Step
<1>2. ASSUME NEW r \in Requests, Arrive(r) \/ Abort(r) PROVE Learns(r)
  BY <1>2, ArriveLearns, EndedLearns DEF Abort
<1>3. ASSUME NEW l \in Links, EditLink(l) PROVE UNCHANGED job
  BY <1>3 DEF EditLink
<1>4. ASSUME NEW b \in DOMAIN bookings, NEW row \in {"host", "copy"}, GoogleDeletes(b, row)
      PROVE  UNCHANGED job
  BY <1>4 DEF GoogleDeletes
<1>5. CASE UNCHANGED vars
  BY <1>5 DEF vars
<1>6. QED
  BY <1>1, <1>2, <1>3, <1>4, <1>5 DEF Next

\* Links change by an edit, and only when nobody is booking by them.
LEMMA LinksStep ==
  ASSUME [Next]_vars
  PROVE  /\ UNCHANGED session
         /\ UNCHANGED <<link, edits>> \/ \E l \in Links : EditLink(l)
<1>1. CASE UNCHANGED vars
  BY <1>1 DEF vars, meter
<1>2. ASSUME NEW r \in Requests, Arrive(r) PROVE UNCHANGED <<link, edits, session>>
  BY <1>2 DEF Arrive, Book, Cancel, Edit, meter
<1>3. ASSUME NEW r \in Requests, Step(r) PROVE UNCHANGED <<link, edits, session>>
  <2>1. ASSUME Peek(r) \/ LockUser(r) \/ LockCalendar(r) \/ LockLink(r) \/ ReadExisting(r) \/ Replace(r)
        PROVE  UNCHANGED <<link, edits, session>>
    BY <2>1 DEF Peek, LockUser, LockCalendar, LockLink, ReadExisting, Replace, meter
  <2>2. ASSUME Check(r) \/ Write(r) \/ CancelByGuest(r) \/ Destroy(r) \/ Move(r)
        PROVE  UNCHANGED <<link, edits, session>>
    BY <2>2 DEF Check, Write, CancelByGuest, Destroy, Move, meter
  <2>3. QED
    BY <1>3, <2>1, <2>2, Zenon DEF Step
<1>4. ASSUME NEW r \in Requests, Abort(r) PROVE UNCHANGED <<link, edits, session>>
  BY <1>4 DEF Abort
<1>5. ASSUME NEW l \in Links, EditLink(l) PROVE UNCHANGED session
  BY <1>5 DEF EditLink
<1>6. ASSUME NEW b \in DOMAIN bookings, NEW row \in {"host", "copy"}, GoogleDeletes(b, row)
      PROVE  UNCHANGED <<link, edits, session>>
  BY <1>6 DEF GoogleDeletes
<1>7. QED
  BY <1>1, <1>2, <1>3, <1>4, <1>5, <1>6 DEF Next

\* A link that is edited goes from one of its places to another, and has no lock.
LEMMA EditedLink ==
  ASSUME Typed, NEW l \in Links, EditLink(l)
  PROVE  /\ edits > 0 /\ edits' = edits - 1 /\ linkLock[l] = Free
         /\ link'[l].cal \in Places[l]
         /\ \A m \in Links \ {l} : link'[m] = link[m]
<1>1. PICK row \in LinkRow : row.cal \in Places[l] /\ link' = [link EXCEPT ![l] = row]
  BY DEF EditLink
<1>2. QED
  BY <1>1 DEF EditLink, Typed, TypeOK

\* After the only move that is left, there is none.
LEMMA LastMove ==
  ASSUME FewMoves, Typed, LinkKnown, NEW l \in Links, EditLink(l), link'[l].cal # link[l].cal
  PROVE  edits = 1 /\ edits' = 0
<1>1. /\ edits > 0 /\ edits' = edits - 1 /\ link'[l].cal \in Places[l] /\ link[l].cal \in Places[l]
  BY EditedLink DEF LinkKnown
<1>2. ~(\A m \in Links : \A c, d \in Places[m] : c = d)
  BY <1>1
<1>3. session \in Sessions /\ session.edits \in Nat /\ edits \in Nat
  BY BookingAssumption DEF Session, Typed, TypeOK
<1>4. session.edits <= 1
  BY <1>2, <1>3 DEF FewMoves
<1>5. edits <= session.edits
  BY DEF LinkKnown
<1>6. QED
  BY <1>1, <1>3, <1>4, <1>5

\* Nobody edits the link of a request that has locked it.
LEMMA LinkKept ==
  ASSUME Typed, Held, [Next]_vars, NEW r \in Requests, job[r].pc \in OwnPoints
  PROVE  link'[job[r].link] = link[job[r].link]
<1>1. linkLock[job[r].link] # Free /\ job[r].link \in Links
  BY BookingAssumption DEF Held, Typed, JobOK, OwnPoints, BookPoints
<1>2. ASSUME NEW l \in Links, EditLink(l) PROVE link'[job[r].link] = link[job[r].link]
  <2>1. l # job[r].link
    BY <1>1, <1>2, EditedLink
  <2>2. QED
    BY <1>1, <1>2, <2>1, EditedLink
<1>3. QED
  BY <1>2, LinksStep

\* At first nobody knows anything.
LEMMA LinkKnownInit == ASSUME Init PROVE LinkKnown
<1>1. session.edits \in Nat
  BY BookingAssumption DEF Init, Session
<1>2. QED
  BY <1>1 DEF Init, LinkKnown, NoJob

\* A link that has been read is where it was, or will not be moved again.
LEMMA LinkKnownStep ==
  ASSUME FewMoves, Typed, Held, One, LinkKnown, [Next]_vars
  PROVE  LinkKnown'
<1>1. edits \in Nat /\ session.edits \in Nat
  BY BookingAssumption DEF Session, Typed, TypeOK
<1>2. \A l \in Links : link'[l].cal \in Places[l]
  <2>1. ASSUME NEW l \in Links, EditLink(l), NEW m \in Links PROVE link'[m].cal \in Places[m]
    BY <2>1, EditedLink DEF LinkKnown
  <2>2. QED
    BY <2>1, LinksStep DEF LinkKnown
<1>3. edits' <= session'.edits /\ (edits = 0 => edits' = 0)
  <2>1. ASSUME NEW l \in Links, EditLink(l) PROVE edits > 0 /\ edits' = edits - 1
    BY <2>1, EditedLink
  <2>2. QED
    BY <1>1, <2>1, LinksStep DEF LinkKnown
<1>4. ASSUME NEW r \in Requests, job'[r].pc \in {"peek", "user", "calendars", "link"}
      PROVE  link'[job'[r].link].cal = job'[r].cal \/ edits' = 0
  <2>1. CASE job'[r] = job[r]
    <3>1. job[r].link \in Links
      BY <1>4, <2>1 DEF Typed, JobOK, BookPoints
    <3>2. link[job[r].link].cal = job[r].cal \/ edits = 0
      BY <1>4, <2>1 DEF LinkKnown
    <3>3. ASSUME NEW l \in Links, EditLink(l), link'[job[r].link].cal # link[job[r].link].cal
          PROVE  edits' = 0
      <4>1. l = job[r].link
        BY <3>1, <3>3, EditedLink
      <4>2. QED
        BY <3>3, <4>1, LastMove
    <3>4. QED
      BY <1>3, <2>1, <3>2, <3>3, LinksStep
  <2>2. CASE Learns(r)
    <3>1. UNCHANGED link /\ job'[r].pc \in BookPoints
      BY <1>4, <2>2 DEF Learns, BookPoints
    <3>2. CASE job'[r].pc = "peek" /\ job'[r].cal = link[job'[r].link].cal
      BY <3>1, <3>2
    <3>3. CASE job'[r].link = job[r].link /\ job'[r].cal = job[r].cal /\ Onward(r)
      <4>1. job[r].pc \in {"peek", "user", "calendars"}
        BY <1>4, <3>3 DEF Onward
      <4>2. QED
        BY <1>3, <3>1, <3>3, <4>1 DEF LinkKnown
    <3>4. QED
      BY <2>2, <3>1, <3>2, <3>3 DEF Learns
  <2>3. QED
    BY <2>1, <2>2, Learning DEF Learns
<1>5. ASSUME NEW r \in Requests, job'[r].pc \in {"existing", "replace", "check", "write"}
      PROVE  link'[job'[r].link].cal = job'[r].cal
  <2>1. CASE job'[r] = job[r]
    BY <1>5, <2>1, LinkKept DEF LinkKnown, OwnPoints
  <2>2. CASE Learns(r)
    <3>1. UNCHANGED link /\ job'[r].link = job[r].link /\ job'[r].cal = job[r].cal /\ Onward(r)
      BY <1>5, <2>2 DEF Learns, BookPoints
    <3>2. link[job[r].link].cal = job[r].cal
      BY <1>5, <3>1 DEF Onward, LinkKnown
    <3>3. QED
      BY <3>1, <3>2
  <2>3. QED
    BY <2>1, <2>2, Learning DEF Learns
<1>6. QED
  BY <1>2, <1>3, <1>4, <1>5 DEF LinkKnown

\* What is coming up by a link was, or is new and on its calendar.
LEMMA ComingUp ==
  ASSUME Typed, LinkKnown, [Next]_vars, NEW l, NEW u, NEW b \in UpIn(bookings', l, u)
  PROVE  \/ b \in UpIn(bookings, l, u) /\ bookings'[b].cal = bookings[b].cal
         \/ bookings'[b].cal = link[l].cal /\ UNCHANGED link
<1>1. ASSUME b \in DOMAIN bookings, Ages(bookings[b], bookings'[b])
      PROVE  b \in UpIn(bookings, l, u) /\ bookings'[b].cal = bookings[b].cal
  BY <1>1, UpBefore DEF Ages
<1>2. CASE InPlace(bookings')
  BY <1>1, <1>2 DEF InPlace, UpIn, Typed, TypeOK
<1>3. ASSUME NEW q \in Requests, Write(q)
      PROVE  \/ b \in UpIn(bookings, l, u) /\ bookings'[b].cal = bookings[b].cal
             \/ bookings'[b].cal = link[l].cal /\ UNCHANGED link
  <2>1. Added(q) /\ DOMAIN bookings = 1 .. Len(bookings) /\ DOMAIN bookings' = 1 .. (Len(bookings) + 1)
        /\ Len(bookings) \in Nat
    BY <1>3, WriteAdds DEF Added, Typed, TypeOK
  <2>2. CASE b \in DOMAIN bookings
    BY <1>1, <2>1, <2>2 DEF Added
  <2>3. CASE b = Len(bookings) + 1
    <3>1. bookings'[b].cal = job[q].cal /\ bookings'[b].link = job[q].link
      BY <2>1, <2>3 DEF Added, Written
    <3>2. link[job[q].link].cal = job[q].cal
      BY <1>3 DEF LinkKnown, Write, At
    <3>3. bookings'[b].link = l
      BY DEF UpIn
    <3>4. QED
      BY <1>3, <3>1, <3>2, <3>3 DEF Write
  <2>4. QED
    BY <2>1, <2>2, <2>3 DEF UpIn
<1>4. QED
  BY <1>2, <1>3, Bookings

\* What has been found is not moved to another calendar.
LEMMA SameCalendar ==
  ASSUME Typed, [Next]_vars, NEW b \in DOMAIN bookings
  PROVE  Ages(bookings[b], bookings'[b]) /\ bookings'[b].cal = bookings[b].cal
<1>1. Ages(bookings[b], bookings'[b])
  BY Bookings, WriteAdds DEF InPlace, Added
<1>2. QED
  BY <1>1 DEF Ages

\* Nobody wants anything yet.
LEMMA WantedInit == ASSUME Init PROVE Wanted
BY DEF Init, Wanted, NoJob

\* The calendar of what a request finds is among those it locks: what was booked since it
\* peeked was booked by the same link, on the calendar that this has had ever since.
LEMMA WantedStep ==
  ASSUME Typed, Held, One, LinkKnown, Wanted, [Next]_vars
  PROVE  Wanted'
<1>1. ASSUME NEW r \in Requests, job'[r].pc \in {"user", "calendars", "link", "existing"},
             link'[job'[r].link].cal = job'[r].cal, job'[r].guest \in Users,
             NEW b \in UpIn(bookings', job'[r].link, job'[r].guest)
      PROVE  bookings'[b].cal \in job'[r].wants
  <2>1. CASE job'[r] = job[r]
    <3>1. job[r].link \in Links /\ job[r].cal \in job[r].wants
      BY <1>1, <2>1 DEF Typed, JobOK, BookPoints
    <3>2. link[job[r].link].cal = job[r].cal
      <4>1. CASE job[r].pc = "existing"
        BY <4>1 DEF LinkKnown
      <4>2. CASE job[r].pc # "existing" /\ edits = 0
        <5>1. UNCHANGED link
          BY <4>2, LinksStep, EditedLink
        <5>2. QED
          BY <1>1, <2>1, <5>1
      <4>3. QED
        BY <1>1, <2>1, <4>1, <4>2 DEF LinkKnown
    <3>3. CASE bookings'[b].cal = link[job[r].link].cal
      BY <2>1, <3>1, <3>2, <3>3
    <3>4. CASE b \in UpIn(bookings, job[r].link, job[r].guest) /\ bookings'[b].cal = bookings[b].cal
      BY <1>1, <2>1, <3>2, <3>4 DEF Wanted, UpIn, Upcoming
    <3>5. QED
      BY <1>1, <2>1, <3>3, <3>4, ComingUp
  <2>2. CASE Learns(r)
    <3>1. /\ UNCHANGED <<link, bookings>> /\ job'[r].link = job[r].link /\ job'[r].guest = job[r].guest
          /\ job'[r].cal = job[r].cal /\ job[r].wants \subseteq job'[r].wants /\ Onward(r)
      BY <1>1, <2>2 DEF Learns, BookPoints
    <3>2. CASE job[r].pc = "peek"
      BY <1>1, <3>1, <3>2 DEF Onward
    <3>3. CASE job[r].pc # "peek"
      <4>1. job[r].pc \in {"user", "calendars", "link"}
        BY <1>1, <3>1, <3>3 DEF Onward
      <4>2. QED
        BY <1>1, <3>1, <4>1 DEF Wanted, UpIn, Upcoming
    <3>4. QED
      BY <3>2, <3>3
  <2>3. QED
    BY <2>1, <2>2, Learning DEF Learns
<1>2. ASSUME NEW r \in Requests, job'[r].pc \in {"replace", "check", "write"}, job'[r].old # None
      PROVE  bookings'[job'[r].old].cal \in job'[r].wants
  <2>1. CASE job'[r] = job[r]
    <3>1. job[r].old \in DOMAIN bookings
      BY <1>2, <2>1 DEF Typed, TypeOK, JobOK, None
    <3>2. QED
      BY <1>2, <2>1, <3>1, SameCalendar DEF Wanted
  <2>2. CASE Learns(r)
    <3>1. /\ UNCHANGED <<link, bookings>> /\ job[r].wants \subseteq job'[r].wants /\ Onward(r)
      BY <1>2, <2>2 DEF Learns, BookPoints
    <3>2. CASE job[r].pc = "existing" /\ job'[r].old \in Existing(job[r].link, job[r].guest)
      <4>1. job[r].guest \in Users /\ job'[r].old \in Upcoming(job[r].link, job[r].guest)
        <5>1. job[r].guest \in Guests
          BY DEF Typed, TypeOK, Job
        <5>2. QED
          BY <1>2, <3>2, <5>1 DEF Existing, Guests
      <4>2. link[job[r].link].cal = job[r].cal
        BY <3>2 DEF LinkKnown
      <4>3. QED
        BY <3>1, <3>2, <4>1, <4>2 DEF Wanted
    <3>3. CASE job[r].pc \in {"replace", "check"} /\ job'[r].old = job[r].old
      BY <1>2, <3>1, <3>3 DEF Wanted
    <3>4. QED
      BY <1>2, <3>1, <3>2, <3>3 DEF Onward
  <2>3. QED
    BY <2>1, <2>2, Learning DEF Learns
<1>3. ASSUME NEW r \in Requests, job'[r].pc \in {"user", "calendars", "link", "existing"}
      PROVE  \/ link'[job'[r].link].cal # job'[r].cal
             \/ job'[r].guest \notin Users
             \/ \A b \in Upcoming(job[r].link, job[r].guest)' : bookings'[b].cal \in job'[r].wants
  BY <1>1, <1>3 DEF Upcoming, UpIn
<1>4. QED
  BY <1>2, <1>3 DEF Wanted

\* What is wanted has been locked.
LEMMA WantedLocked == ASSUME Typed, Held, Wanted PROVE EveryDiaryLocked
<1> SUFFICES ASSUME NEW r \in Requests, At(r, "replace") PROVE calLock[bookings[job[r].old].cal] = r
  BY DEF EveryDiaryLocked
<1>1. bookings[job[r].old].cal \in job[r].wants
  BY DEF At, Typed, JobOK, Wanted
<1>2. QED
  BY <1>1 DEF At, Held, HeldPoints


-------------------------------------------------------------------------------
\* Announced, for one booking.
Fair(x) ==
  /\ x.notices <= 1
  /\ ~x.up /\ x.guest \in Users /\ ~x.halved => x.notices = 1
  /\ x.up \/ x.copyUp => x.notices = 0

\* Who can end booking b.
EndedBy(q, b) ==
  /\ job[q].old = b
  /\ Write(q) \/ ~Locked(b)

\* The notices of one booking.
LEMMA EndedNotices ==
  ASSUME Typed, NEW b \in DOMAIN bookings, NEW n \in Nat
  PROVE  /\ Ended(b, n)[b].notices = bookings[b].notices + n
         /\ Ended(b, n)[b].guest = bookings[b].guest /\ Ended(b, n)[b].halved = bookings[b].halved
         /\ EndedByHost(b, n)[b].notices = bookings[b].notices + n
         /\ EndedByHost(b, n)[b].guest = bookings[b].guest
<1> DEFINE x == [bookings[b] EXCEPT !.up = FALSE, !.copyUp = FALSE, !.notices = @ + n]
           y == [x EXCEPT !.unfound = x.unfound \/ Unfound(b)]
<1>1. bookings[b] \in Booking
  BY BookingAt
<1>2. Ended(b, n)[b] = x
  BY DEF Ended
<1>3. EndedByHost(b, n)[b] = y
  BY <1>2 DEF EndedByHost, Ended
<1>4. x.notices = bookings[b].notices + n /\ x.guest = bookings[b].guest /\ x.halved = bookings[b].halved
  BY <1>1 DEF Booking
<1>5. y.notices = x.notices /\ y.guest = x.guest
  BY <1>1 DEF Booking
<1>6. QED
  BY <1>2, <1>3, <1>4, <1>5

\* The end of a booking is announced by who ends it, and once.
LEMMA CancelFair ==
  ASSUME Typed, NEW q \in Requests, CancelByGuest(q), \A a \in DOMAIN bookings : Fair(bookings[a]),
         NEW b \in DOMAIN bookings
  PROVE  Fair(bookings'[b]) /\ (bookings'[b].notices = bookings[b].notices \/ EndedBy(q, b))
<1>1. job[q].old \in DOMAIN bookings /\ ~Locked(job[q].old)
  BY Named DEF CancelByGuest, At
<1>2. bookings' = Ended(job[q].old, IF bookings[job[q].old].up THEN 1 ELSE 0)
  BY DEF CancelByGuest
<1>3. CASE b = job[q].old
  <2>1. Fair(bookings[b]) /\ bookings[b] \in Booking
    BY BookingAt
  <2>2. /\ bookings'[b].notices = bookings[b].notices + (IF bookings[b].up THEN 1 ELSE 0)
        /\ ~bookings'[b].up /\ ~bookings'[b].copyUp
        /\ bookings'[b].guest = bookings[b].guest /\ bookings'[b].halved = bookings[b].halved
    BY <1>2, <1>3, EndedNotices, EndedAges
  <2>3. bookings[b].notices \in Nat
    BY <2>1 DEF Booking
  <2>4. QED
    BY <1>1, <1>3, <2>1, <2>2, <2>3 DEF Fair, EndedBy
<1>4. CASE b # job[q].old
  BY <1>1, <1>2, <1>4, EndedAges
<1>5. QED
  BY <1>3, <1>4

LEMMA DestroyFair ==
  ASSUME Typed, NEW q \in Requests, Destroy(q), \A a \in DOMAIN bookings : Fair(bookings[a]),
         NEW b \in DOMAIN bookings
  PROVE  Fair(bookings'[b]) /\ (bookings'[b].notices = bookings[b].notices \/ EndedBy(q, b))
<1>1. job[q].old \in DOMAIN bookings /\ ~Locked(job[q].old)
  BY Named DEF Destroy, At
<1>2. CASE ~RowUp(job[q].old, job[q].row)
  BY <1>2 DEF Destroy
<1>3. CASE RowUp(job[q].old, job[q].row)
  <2> DEFINE n == IF bookings[job[q].old].guest \in Users THEN 1 ELSE 0
  <2>1. bookings' = EndedByHost(job[q].old, n)
    BY <1>3 DEF Destroy
  <2>2. CASE b = job[q].old
    <3>1. bookings[b].up \/ bookings[b].copyUp
      BY <1>3, <2>2 DEF RowUp
    <3>2. bookings[b].notices = 0
      BY <3>1 DEF Fair
    <3>3. /\ bookings'[b].notices = n /\ bookings'[b].guest = bookings[b].guest
          /\ ~bookings'[b].up /\ ~bookings'[b].copyUp
      BY <2>1, <2>2, <3>2, EndedNotices, EndedByHostAges
    <3>4. QED
      BY <1>1, <2>2, <3>3 DEF Fair, EndedBy
  <2>3. CASE b # job[q].old
    BY <1>1, <2>1, <2>3, EndedByHostAges
  <2>4. QED
    BY <2>2, <2>3
<1>4. QED
  BY <1>2, <1>3

\* Moving ends nothing, and what Google deletes is not announced.
LEMMA MoveFair ==
  ASSUME Typed, NEW q \in Requests, Move(q), NEW b \in DOMAIN bookings, Fair(bookings[b])
  PROVE  Fair(bookings'[b]) /\ bookings'[b].notices = bookings[b].notices
<1> DEFINE x == [bookings[b] EXCEPT !.start = job[q].start, !.moved = TRUE]
<1>1. bookings[b] \in Booking
  BY BookingAt
<1>2. bookings'[b] \in {bookings[b], x}
  BY DEF Move
<1>3. /\ x.notices = bookings[b].notices /\ x.guest = bookings[b].guest /\ x.up = bookings[b].up
      /\ x.copyUp = bookings[b].copyUp /\ x.halved = bookings[b].halved
  BY <1>1 DEF Booking
<1> HIDE DEF x
<1>4. QED
  BY <1>2, <1>3 DEF Fair

LEMMA GoogleFair ==
  ASSUME Typed, NEW a \in DOMAIN bookings, NEW row \in {"host", "copy"}, GoogleDeletes(a, row),
         NEW b \in DOMAIN bookings, Fair(bookings[b])
  PROVE  Fair(bookings'[b]) /\ bookings'[b].notices = bookings[b].notices
<1> DEFINE x == [bookings[b] EXCEPT !.up = FALSE, !.halved = TRUE]
           y == [bookings[b] EXCEPT !.copyUp = FALSE, !.halved = TRUE]
<1>1. bookings[b] \in Booking
  BY BookingAt
<1>2. bookings'[b] \in {bookings[b], x, y}
  BY DEF GoogleDeletes
<1>3. /\ x.notices = bookings[b].notices /\ x.copyUp = bookings[b].copyUp /\ ~x.up /\ x.halved
      /\ y.notices = bookings[b].notices /\ y.up = bookings[b].up /\ ~y.copyUp /\ y.halved
  BY <1>1 DEF Booking
<1> HIDE DEF x, y
<1>4. QED
  BY <1>2, <1>3 DEF Fair

\* The one who is told that the meeting is another had not been told.
LEMMA WriteFair ==
  ASSUME Typed, Announced, NEW q \in Requests, Write(q), NEW b \in DOMAIN bookings, Fair(bookings[b])
  PROVE  Fair(bookings'[b]) /\ (bookings'[b].notices = bookings[b].notices \/ EndedBy(q, b))
<1>1. job[q].pc = "write" /\ Added(q)
  BY WriteAdds DEF Write, At
<1>2. CASE b # job[q].old
  BY <1>1, <1>2 DEF Added
<1>3. CASE b = job[q].old
  <2>1. job[q].old # None
    BY <1>3 DEF None, Typed, TypeOK
  <2>2. bookings[b].notices = 0
    BY <1>1, <1>3, <2>1 DEF Announced
  <2>3. InPlace(Ended(b, 1)) /\ Ended(b, 1)[b].notices = 1
    BY <2>2, EndedNotices, EndedAges
  <2>4. bookings' = Append(Ended(b, 1), Written(q))
    BY <1>3, <2>1 DEF Write
  <2>5. Ended(b, 1) \in Seq(Booking) /\ b \in 1 .. Len(Ended(b, 1))
    BY <2>3 DEF InPlace, Typed, TypeOK
  <2>6. bookings'[b].notices = 1
    BY <2>3, <2>4, <2>5
  <2>7. ~bookings'[b].up /\ ~bookings'[b].copyUp
    BY <1>1, <1>3, <2>1 DEF Added
  <2>8. QED
    BY <1>3, <2>6, <2>7 DEF Fair, EndedBy
<1>4. QED
  BY <1>2, <1>3

\* Announced says as much of every booking.
LEMMA AllFair == ASSUME Announced, NEW b \in DOMAIN bookings PROVE Fair(bookings[b])
BY DEF Announced, ToldOnce, Fair

\* Every step is fair to the bookings there are.
LEMMA FairStep ==
  ASSUME Typed, Announced, [Next]_vars, NEW b \in DOMAIN bookings
  PROVE  /\ Fair(bookings'[b])
         /\ \/ bookings'[b].notices = bookings[b].notices
            \/ \E q \in Requests : EndedBy(q, b)
<1>1. ASSUME UNCHANGED bookings
      PROVE  Fair(bookings'[b]) /\ bookings'[b].notices = bookings[b].notices
  BY <1>1, AllFair
<1>2. ASSUME NEW r \in Requests, Step(r)
      PROVE  Fair(bookings'[b]) /\ (bookings'[b].notices = bookings[b].notices \/ EndedBy(r, b))
  <2>1. CASE CancelByGuest(r) \/ Destroy(r) \/ Move(r) \/ Write(r)
    BY <2>1, AllFair, CancelFair, DestroyFair, MoveFair, WriteFair
  <2>2. ASSUME \/ Peek(r) \/ LockUser(r) \/ LockCalendar(r) \/ LockLink(r) \/ ReadExisting(r)
               \/ Replace(r) \/ Check(r)
        PROVE  UNCHANGED bookings
    BY <2>2 DEF Peek, LockUser, LockCalendar, LockLink, ReadExisting, Replace, Check
  <2>3. QED
    BY <1>1, <1>2, <2>1, <2>2, Zenon DEF Step
<1>3. ASSUME NEW r \in Requests, Arrive(r) \/ Abort(r) PROVE UNCHANGED bookings
  BY <1>3 DEF Arrive, Book, Cancel, Edit, Abort
<1>4. ASSUME NEW l \in Links, EditLink(l) PROVE UNCHANGED bookings
  BY <1>4 DEF EditLink
<1>5. ASSUME NEW a \in DOMAIN bookings, NEW row \in {"host", "copy"}, GoogleDeletes(a, row)
      PROVE  Fair(bookings'[b]) /\ bookings'[b].notices = bookings[b].notices
  BY <1>5, AllFair, GoogleFair
<1>6. CASE UNCHANGED vars
  BY <1>1, <1>6 DEF vars
<1>7. QED
  BY <1>1, <1>2, <1>3, <1>4, <1>5, <1>6 DEF Next

\* What is being replaced is ended by nobody else.
LEMMA NotByOthers ==
  ASSUME Typed, Announced, NEW r \in Requests, job[r].pc \in {"replace", "check", "write"}, job[r].old # None,
         NEW q \in Requests \ {r}
  PROVE  ~EndedBy(q, job[r].old)
<1>1. calLock[bookings[job[r].old].cal] = r /\ r # Free
  BY BookingAssumption DEF Announced
<1>2. ASSUME EndedBy(q, job[r].old), Write(q) PROVE FALSE
  BY <1>1, <1>2 DEF EndedBy, Announced, Write, At
<1>3. QED
  BY <1>1, <1>2 DEF EndedBy, Locked

\* There is nothing to announce.
LEMMA AnnouncedInit == ASSUME Init PROVE Announced
BY DEF Init, Announced, ToldOnce, NoJob

\* Whoever replaces a booking whose calendar is locked is the only one to announce its end.
LEMMA AnnouncedStep ==
  ASSUME Typed, One, Announced, EveryDiaryLocked', [Next]_vars
  PROVE  Announced'
<1>1. ASSUME NEW b \in DOMAIN bookings' PROVE Fair(bookings'[b])
  <2>1. CASE b \in DOMAIN bookings
    BY <2>1, FairStep
  <2>2. CASE InPlace(bookings')
    BY <2>1, <2>2 DEF InPlace, Typed, TypeOK
  <2>3. ASSUME NEW q \in Requests, Write(q), b \notin DOMAIN bookings PROVE Fair(bookings'[b])
    <3>1. bookings'[b] = Written(q)
      BY <2>3, WriteAdds DEF Added, Typed, TypeOK
    <3>2. Written(q).up /\ Written(q).notices = 0
      BY DEF Written
    <3>3. QED
      BY <3>1, <3>2 DEF Fair
  <2>4. QED
    BY <2>1, <2>2, <2>3, Bookings
<1>2. ASSUME NEW r \in Requests, job'[r].pc \in {"replace", "check", "write"}, job'[r].old # None
      PROVE  calLock'[bookings'[job'[r].old].cal] = r /\ bookings'[job'[r].old].notices = 0
  <2>1. Typed'
    BY TypedStep
  <2>2. CASE job'[r] = job[r]
    <3> DEFINE b == job[r].old
    <3>1. b \in DOMAIN bookings /\ bookings[b].cal \in Calendars
      <4>1. b \in DOMAIN bookings
        BY <1>2, <2>2 DEF Typed, TypeOK, JobOK, None
      <4>2. QED
        BY <4>1, BookingAt DEF Booking
    <3>2. calLock[bookings[b].cal] = r /\ bookings[b].notices = 0
      BY <1>2, <2>2 DEF Announced
    <3>3. KeepsLocks(r)
      BY <1>2, <2>2, Turns, LocksAlone DEF Turn
    <3>4. bookings'[b].cal = bookings[b].cal
      BY <3>1, SameCalendar
    <3>5. ~EndedBy(r, b)
      <4>1. ASSUME Write(r) PROVE job'[r].pc = "done"
        BY <4>1, FinishTyped DEF Write, Typed, NoJob
      <4>2. Locked(b)
        BY <3>2, BookingAssumption DEF Locked
      <4>3. QED
        BY <1>2, <4>1, <4>2 DEF EndedBy
    <3>6. bookings'[b].notices = bookings[b].notices
      BY <1>2, <2>2, <3>1, <3>5, FairStep, NotByOthers
    <3>7. QED
      BY <2>2, <3>1, <3>2, <3>3, <3>4, <3>6 DEF KeepsLocks
  <2>3. CASE Learns(r) /\ Turn(r)
    <3>1. UNCHANGED bookings /\ Onward(r) /\ KeepsLocks(r)
      BY <1>2, <2>3 DEF Learns, BookPoints, Turn
    <3>2. CASE job'[r].pc = "replace" /\ job'[r].old \in Existing(job[r].link, job[r].guest)
      <4>1. calLock'[bookings'[job'[r].old].cal] = r
        BY <3>2 DEF EveryDiaryLocked, At
      <4>2. job'[r].old \in DOMAIN bookings /\ bookings[job'[r].old].up
        BY <1>2, <3>2 DEF Existing, Upcoming
      <4>3. bookings[job'[r].old].notices = 0
        BY <4>2 DEF Announced
      <4>4. QED
        BY <3>1, <4>1, <4>3
    <3>3. CASE job[r].pc \in {"replace", "check"} /\ job'[r].old = job[r].old
      <4>1. bookings[job[r].old].cal \in Calendars
        <5>1. job[r].old \in DOMAIN bookings
          BY <1>2, <3>3 DEF Typed, TypeOK, JobOK, None
        <5>2. QED
          BY <5>1, BookingAt DEF Booking
      <4>2. calLock[bookings[job[r].old].cal] = r /\ bookings[job[r].old].notices = 0
        BY <1>2, <3>3 DEF Announced
      <4>3. QED
        BY <3>1, <3>3, <4>1, <4>2 DEF KeepsLocks
    <3>4. QED
      BY <1>2, <3>1, <3>2, <3>3 DEF Onward
  <2>4. job'[r] = job[r] \/ (Learns(r) /\ Turn(r))
    BY Learning, Turns DEF Learns, Turn
  <2>5. QED
    BY <2>2, <2>3, <2>4
<1>3. QED
  BY <1>1, <1>2 DEF Announced, ToldOnce, Fair


-------------------------------------------------------------------------------
\* All of it.
Inv == Typed /\ Held /\ SlotKept /\ NoDoubleBooking /\ Sole /\ One /\ CopyAlone /\ InviteOK

\* It is an invariant.
LEMMA Invariant == Spec => []Inv
<1>1. Init => Inv
  <2> SUFFICES ASSUME Init PROVE Inv
    OBVIOUS
  <2>1. NoDoubleBooking /\ CopyAlone
    BY DEF Init, NoDoubleBooking, CopyAlone
  <2>2. InviteOK
    <3>1. \A l \in Links, u \in Users : UpIn(bookings, l, u) = {}
      <4>1. DOMAIN bookings = {}
        BY DEF Init
      <4>2. QED
        BY <4>1 DEF UpIn
    <3>2. \A l \in Links, u \in Users : invite[u][l] = None
      BY DEF Init
    <3>3. QED
      BY <3>1, <3>2 DEF InviteOK, Told
  <2>3. QED
    BY <2>1, <2>2, TypedInit, HeldInit, SlotKeptInit, SoleInit DEF Inv
<1>2. Inv /\ [Next]_vars => Inv'
  <2> SUFFICES ASSUME Inv, [Next]_vars PROVE Inv'
    OBVIOUS
  <2>1. Typed' /\ Held' /\ SlotKept' /\ NoDoubleBooking'
    BY TypedStep, HeldStep, SlotKeptStep, NoDoubleBookingStep DEF Inv
  <2>2. Sole' /\ One' /\ CopyAlone' /\ InviteOK'
    BY SoleStep, OneStep, CopyAloneStep, InviteStep DEF Inv
  <2>3. QED
    BY <2>1, <2>2 DEF Inv
<1>3. QED
  BY <1>1, <1>2, PTL DEF Spec

\* PublicBookingCreateView never takes a slot that a booking has, whoever else books,
\* calls off, moves or edits links meanwhile: the locks on both calendars are held from
\* before the check until the commit.
THEOREM NoDoubleBookingHolds == Spec => []NoDoubleBooking
<1>1. Inv => NoDoubleBooking
  BY DEF Inv
<1>2. QED
  BY <1>1, Invariant, PTL

\* A member has at most one meeting ahead by a link: under the lock on the link the search
\* for an existing one is final.
THEOREM OneEachHolds == Spec => []OneEach
<1>1. Inv => OneEach
  BY OneIsOneEach DEF Inv
<1>2. QED
  BY <1>1, Invariant, PTL

\* The invitation of a member says what is so, but for what Google has deleted by half.
THEOREM InviteTrueHolds == Spec => []InviteTrue
<1>1. Inv => InviteTrue
  BY InviteOKIsTrue DEF Inv
<1>2. QED
  BY <1>1, Invariant, PTL

\* The end of a meeting is announced once, and to every member, whoever calls it off,
\* moves it or replaces it at the same time: as long as every diary that is written is
\* locked, which is what PublicBookingCreateView means to do.
THEOREM ToldOnceIfLocked == Spec /\ []EveryDiaryLocked => []ToldOnce
<1>1. Init => Announced
  BY AnnouncedInit
<1>2. Inv /\ Announced /\ EveryDiaryLocked' /\ [Next]_vars => Announced'
  BY AnnouncedStep DEF Inv
<1>3. Announced => ToldOnce
  BY DEF Announced
<1>4. QED
  BY <1>1, <1>2, <1>3, Invariant, PTL DEF Spec

\* Every diary is locked if no link is moved away and back: the meeting that is found under
\* the lock on the link is on a calendar that was locked before it.
THEOREM EveryDiaryIsLocked == FewMoves => (Spec => []EveryDiaryLocked)
<1> SUFFICES ASSUME FewMoves PROVE Spec => []EveryDiaryLocked
  OBVIOUS
<1>1. Init => LinkKnown /\ Wanted
  BY LinkKnownInit, WantedInit
<1>2. Inv /\ LinkKnown /\ Wanted /\ [Next]_vars => (LinkKnown /\ Wanted)'
  BY LinkKnownStep, WantedStep DEF Inv
<1>3. Inv /\ Wanted => EveryDiaryLocked
  BY WantedLocked DEF Inv
<1>4. QED
  BY <1>1, <1>2, <1>3, Invariant, PTL DEF Spec

\* So the end of a meeting is announced once if no link is moved away and back.
THEOREM ToldOnceHolds == FewMoves => (Spec => []ToldOnce)
<1> SUFFICES ASSUME FewMoves PROVE Spec => []ToldOnce
  OBVIOUS
<1>1. Spec => []EveryDiaryLocked
  BY EveryDiaryIsLocked
<1>2. QED
  BY <1>1, ToldOnceIfLocked, PTL

-------------------------------------------------------------------------------
(* Booking is atomic.  First, what a request knows at its commit beside the  *)
(* slot: the link is still as it was found under its lock.                   *)

OpenLink == \A r \in Requests : job[r].pc \in OwnPoints => Ready(r)

MembersOnly ==
  \A r \in Requests :
    job[r].pc \in {"replace", "check", "write"} /\ job[r].old # None => job[r].guest # Visitor

LEMMA OpenLinkStep == ASSUME Typed, Held, OpenLink, [Next]_vars PROVE OpenLink'
<1> SUFFICES ASSUME NEW r \in Requests, job'[r].pc \in OwnPoints PROVE Ready(r)'
  BY DEF OpenLink
<1>1. CASE job[r].pc \in OwnPoints
  <2>1. link'[job[r].link] = link[job[r].link]
    BY <1>1, LinkKept
  <2>2. SameRequest(r)
    <3>1. job'[r].pc \in HeldPoints
      BY DEF OwnPoints, HeldPoints
    <3>2. CASE job'[r] = job[r]
      BY <3>2 DEF SameRequest
    <3>3. CASE Turn(r)
      BY <3>1, <3>3 DEF Turn
    <3>4. QED
      BY <3>2, <3>3, Turns DEF Turn
  <2>3. QED
    BY <1>1, <2>1, <2>2 DEF OpenLink, Ready, SameRequest
<1>2. CASE job[r].pc \notin OwnPoints
  <2>1. job'[r] # job[r]
    BY <1>2
  <2>2. Turn(r)
    BY <2>1, Turns DEF Turn
  <2>3. job'[r].pc \in HeldPoints
    BY DEF OwnPoints, HeldPoints
  <2>4. Ready(r) /\ SameRequest(r)
    BY <1>2, <2>2, <2>3 DEF Turn
  <2>5. link' = link
    BY <2>1, LinksStep DEF EditLink
  <2>6. QED
    BY <2>4, <2>5 DEF Ready, SameRequest
<1>3. QED
  BY <1>1, <1>2

LEMMA MembersOnlyStep == ASSUME Typed, MembersOnly, [Next]_vars PROVE MembersOnly'
<1> SUFFICES ASSUME NEW r \in Requests, job'[r].pc \in {"replace", "check", "write"}, job'[r].old # None
             PROVE  job'[r].guest # Visitor
  BY DEF MembersOnly
<1>1. CASE job'[r] = job[r]
  BY <1>1 DEF MembersOnly
<1>2. CASE Turn(r)
  <2>1. SameRequest(r)
    BY <1>2 DEF Turn, HeldPoints
  <2>2. CASE job'[r].old \in Existing(job[r].link, job[r].guest)
    BY <2>1, <2>2 DEF Existing, SameRequest
  <2>3. CASE job'[r].old = job[r].old /\ job[r].pc \in {"replace", "check"}
    BY <2>1, <2>3 DEF MembersOnly, SameRequest
  <2>4. QED
    BY <1>2, <2>2, <2>3 DEF Turn
<1>3. QED
  BY <1>1, <1>2, Turns DEF Turn

-------------------------------------------------------------------------------
\* The meetings that the bookings show.
Views == [b \in DOMAIN bookings |-> MeetingView(bookings[b])]

Shown ==
  [link : Links, guest : Guests, cal : Calendars, copy : Calendars \cup {None}, start : Times,
   up : BOOLEAN, copyUp : BOOLEAN, moved : BOOLEAN]

\* A meeting shows what its booking has.
LEMMA ViewFields ==
  ASSUME NEW x \in Booking
  PROVE  /\ MeetingView(x) \in Shown
         /\ MeetingView(x).link = x.link /\ MeetingView(x).guest = x.guest
         /\ MeetingView(x).cal = x.cal /\ MeetingView(x).copy = x.copy
         /\ MeetingView(x).start = x.start /\ MeetingView(x).moved = x.moved
         /\ MeetingView(x).up = x.up /\ MeetingView(x).copyUp = x.copyUp
BY DEF MeetingView, Shown, Booking

\* A meeting of which some fields are changed.
LEMMA ShownExcept ==
  ASSUME NEW v \in Shown, NEW w \in Shown, w.link = v.link, w.guest = v.guest, w.cal = v.cal, w.copy = v.copy
  PROVE  /\ w.start = v.start /\ w.moved = v.moved /\ ~w.up /\ ~w.copyUp
              => w = [v EXCEPT !.up = FALSE, !.copyUp = FALSE]
         /\ w.start = v.start /\ w.moved = v.moved /\ ~w.up /\ w.copyUp = v.copyUp
              => w = [v EXCEPT !.up = FALSE]
         /\ w.start = v.start /\ w.moved = v.moved /\ w.up = v.up /\ ~w.copyUp
              => w = [v EXCEPT !.copyUp = FALSE]
         /\ w.moved /\ w.up = v.up /\ w.copyUp = v.copyUp
              => w = [v EXCEPT !.start = w.start, !.moved = TRUE]
<1>1. w.start \in Times
  BY DEF Shown
<1>2. /\ [v EXCEPT !.up = FALSE, !.copyUp = FALSE] \in Shown
      /\ [v EXCEPT !.up = FALSE] \in Shown
      /\ [v EXCEPT !.copyUp = FALSE] \in Shown
      /\ [v EXCEPT !.start = w.start, !.moved = TRUE] \in Shown
  BY <1>1 DEF Shown
<1>3. QED
  BY <1>2 DEF Shown

\* What is shown of booking b when it has been ended, moved, or lost a row.
LEMMA EndedView ==
  ASSUME Typed, NEW b \in DOMAIN bookings, NEW n \in Nat
  PROVE  MeetingView(Ended(b, n)[b]) = [MeetingView(bookings[b]) EXCEPT !.up = FALSE, !.copyUp = FALSE]
<1> DEFINE x == [bookings[b] EXCEPT !.up = FALSE, !.copyUp = FALSE, !.notices = @ + n]
<1>1. bookings[b] \in Booking /\ bookings \in Seq(Booking)
  BY BookingAt DEF Typed, TypeOK
<1>2. Ended(b, n)[b] = x
  BY <1>1 DEF Ended
<1>3. /\ x.link = bookings[b].link /\ x.guest = bookings[b].guest /\ x.cal = bookings[b].cal
      /\ x.copy = bookings[b].copy /\ x.start = bookings[b].start /\ x.moved = bookings[b].moved
      /\ x.up = FALSE /\ x.copyUp = FALSE
  BY <1>1 DEF Booking
<1>4. x \in Booking
  BY <1>2, <1>1, EndedAges DEF InPlace
<1> HIDE DEF x
<1> DEFINE v == MeetingView(bookings[b])
           w == MeetingView(x)
<1>5. v \in Shown /\ w \in Shown
  BY <1>1, <1>4, ViewFields
<1>6. /\ w.link = v.link /\ w.guest = v.guest /\ w.cal = v.cal /\ w.copy = v.copy
      /\ w.start = v.start /\ w.moved = v.moved /\ ~w.up /\ ~w.copyUp
  BY <1>1, <1>3, <1>4, ViewFields
<1> HIDE DEF v, w
<1>7. w = [v EXCEPT !.up = FALSE, !.copyUp = FALSE]
  BY <1>5, <1>6, ShownExcept
<1>8. QED
  BY <1>2, <1>7 DEF v, w

LEMMA EndedByHostView ==
  ASSUME Typed, NEW b \in DOMAIN bookings, NEW n \in Nat
  PROVE  MeetingView(EndedByHost(b, n)[b]) = [MeetingView(bookings[b]) EXCEPT !.up = FALSE, !.copyUp = FALSE]
<1> DEFINE e == Ended(b, n)
           x == [e[b] EXCEPT !.unfound = e[b].unfound \/ Unfound(b)]
<1>1. e \in Seq(Booking) /\ Len(e) = Len(bookings) /\ e[b] \in Booking /\ b \in DOMAIN e
  BY EndedAges DEF InPlace, Typed, TypeOK
<1>2. EndedByHost(b, n)[b] = x
  BY <1>1 DEF EndedByHost
<1>3. MeetingView(x) = MeetingView(e[b])
  <2> HIDE DEF e
  <2>1. /\ x.link = e[b].link /\ x.guest = e[b].guest /\ x.cal = e[b].cal /\ x.copy = e[b].copy
        /\ x.start = e[b].start /\ x.moved = e[b].moved /\ x.up = e[b].up /\ x.copyUp = e[b].copyUp
    BY <1>1 DEF Booking
  <2> HIDE DEF x
  <2>2. QED
    BY <2>1 DEF MeetingView
<1>4. QED
  BY <1>2, <1>3, EndedView

\* A step that touches one booking touches one meeting.
LEMMA OneView ==
  ASSUME Typed, NEW b \in DOMAIN bookings, InPlace(bookings'), NEW v, MeetingView(bookings'[b]) = v,
         \A a \in DOMAIN bookings \ {b} : bookings'[a] = bookings[a]
  PROVE  Views' = [Views EXCEPT ![b] = v]
<1>1. DOMAIN bookings' = DOMAIN bookings
  BY DEF InPlace, Typed, TypeOK
<1>2. \A a \in DOMAIN bookings : MeetingView(bookings'[a]) = [Views EXCEPT ![b] = v][a]
  BY DEF Views
<1>3. QED
  BY <1>1, <1>2 DEF Views

-------------------------------------------------------------------------------
\* The steps of Appointments, told of the views.
LEMMA CallOffShown ==
  ASSUME NEW b \in DOMAIN bookings, Views[b].up \/ Views[b].copyUp, UNCHANGED LinkView,
         Views' = [Views EXCEPT ![b] = [@ EXCEPT !.up = FALSE, !.copyUp = FALSE]]
  PROVE  Atomic!CallOff(b)
<1>1. Atomic!Ended({b}) = [Views EXCEPT ![b] = [@ EXCEPT !.up = FALSE, !.copyUp = FALSE]]
  BY DEF Atomic!Ended, Views
<1>2. QED
  BY <1>1 DEF Atomic!CallOff, Views

LEMMA DragShown ==
  ASSUME NEW b \in DOMAIN bookings, NEW s, Views[b].up \/ Views[b].copyUp, UNCHANGED LinkView,
         Views' = [Views EXCEPT ![b] = [@ EXCEPT !.start = s, !.moved = TRUE]]
  PROVE  Atomic!Drag(b, s)
<1>1. Views' = [Views EXCEPT ![b].start = s, ![b].moved = TRUE]
  BY DEF Views
<1>2. QED
  BY <1>1 DEF Atomic!Drag, Views

LEMMA HalveShown ==
  ASSUME NEW b \in DOMAIN bookings, UNCHANGED LinkView,
         \/ Views[b].up /\ Views' = [Views EXCEPT ![b] = [@ EXCEPT !.up = FALSE]]
         \/ Views[b].copyUp /\ Views' = [Views EXCEPT ![b] = [@ EXCEPT !.copyUp = FALSE]]
  PROVE  Atomic!Halve(b)
BY DEF Atomic!Halve, Views

LEMMA SameShown ==
  ASSUME UNCHANGED LinkView, UNCHANGED Views
  PROVE  UNCHANGED Atomic!appointments
BY DEF Atomic!appointments, Views

-------------------------------------------------------------------------------
\* What Write adds, and on which calendar.
LEMMA WrittenShown ==
  ASSUME Typed, NEW q \in Requests, job[q].pc = "write", Ready(q)
  PROVE  MeetingView(Written(q)) = Atomic!Meeting(job[q].link, job[q].guest, job[q].start)
<1> DEFINE l == job[q].link
           g == job[q].guest
           copied == HasDiary(l, g) /\ Diary[g] # job[q].cal
<1>1. l \in Links /\ LinkView[l].cal = job[q].cal
  BY DEF Typed, JobOK, BookPoints, Ready, LinkView
<1>2. copied <=> g \in Users /\ g # Host[l] /\ Diary[g] # LinkView[l].cal
  BY <1>1 DEF HasDiary
<1>3. MeetingView(Written(q)) =
        [link |-> l, guest |-> g, cal |-> job[q].cal, copy |-> IF copied THEN Diary[g] ELSE None,
         start |-> job[q].start, up |-> TRUE, copyUp |-> copied, moved |-> FALSE]
  BY DEF MeetingView, Written
<1>4. Atomic!Meeting(l, g, job[q].start) =
        [link |-> l, guest |-> g, cal |-> LinkView[l].cal,
         copy |-> IF g \in Users /\ g # Host[l] /\ Diary[g] # LinkView[l].cal THEN Diary[g] ELSE None,
         start |-> job[q].start, up |-> TRUE,
         copyUp |-> g \in Users /\ g # Host[l] /\ Diary[g] # LinkView[l].cal, moved |-> FALSE]
  BY DEF Atomic!Meeting
<1> HIDE DEF l, g, copied
<1>5. QED
  BY <1>1, <1>2, <1>3, <1>4 DEF l, g

\* What a meeting has on a calendar its booking has, and so are the meetings of a member.
LEMMA OnShown ==
  ASSUME Typed, NEW c
  PROVE  Atomic!On(c) = BusyIn(bookings, c)
<1>1. \A b \in DOMAIN bookings :
        /\ MeetingView(bookings[b]).cal = bookings[b].cal /\ MeetingView(bookings[b]).copy = bookings[b].copy
        /\ MeetingView(bookings[b]).up = bookings[b].up /\ MeetingView(bookings[b]).copyUp = bookings[b].copyUp
  BY BookingAt, ViewFields
<1>2. QED
  BY <1>1 DEF Atomic!On, BusyIn

LEMMA OfShown ==
  ASSUME Typed, NEW l, NEW u, NEW b \in DOMAIN bookings
  PROVE  b \in Atomic!Of(l, u) <=> u # Visitor /\ bookings[b].link = l /\ bookings[b].guest = u
<1>1. MeetingView(bookings[b]).link = bookings[b].link /\ MeetingView(bookings[b]).guest = bookings[b].guest
  BY BookingAt, ViewFields
<1>2. QED
  BY <1>1 DEF Atomic!Of

LEMMA ClearShown ==
  ASSUME Typed, NEW l, NEW s, NEW b \in DOMAIN bookings
  PROVE  Atomic!Clear(l, s, b) <=> ClearIn(bookings, l, s, b)
<1>1. MeetingView(bookings[b]).link = bookings[b].link /\ MeetingView(bookings[b]).start = bookings[b].start
  BY BookingAt, ViewFields
<1>2. QED
  BY <1>1 DEF Atomic!Clear, ClearIn

\* The meetings after a Write.
LEMMA MeetingsWritten ==
  ASSUME Typed, NEW q \in Requests, Write(q), Ready(q),
         NEW over, over = IF job[q].old = None THEN {} ELSE {job[q].old}
  PROVE  Views' = Append(Atomic!Ended(over), Atomic!Meeting(job[q].link, job[q].guest, job[q].start))
<1> DEFINE e == Atomic!Ended(over)
           w == MeetingView(Written(q))
           n == Len(bookings)
<1>1. /\ n \in Nat /\ DOMAIN bookings = 1 .. n /\ Added(q)
      /\ bookings' \in Seq(Booking) /\ DOMAIN bookings' = 1 .. (n + 1)
      /\ job[q].pc = "write"
  <2>1. n \in Nat /\ DOMAIN bookings = 1 .. n
    BY DEF Typed, TypeOK
  <2>2. Added(q) /\ job[q].pc = "write"
    BY WriteAdds DEF Write, At
  <2>3. bookings' \in Seq(Booking) /\ DOMAIN bookings' = 1 .. (n + 1)
    BY <2>2 DEF Added
  <2>4. QED
    BY <2>1, <2>2, <2>3
<1>2. e = [b \in DOMAIN bookings |->
             IF b \in over THEN [MeetingView(bookings[b]) EXCEPT !.up = FALSE, !.copyUp = FALSE]
                           ELSE MeetingView(bookings[b])]
  BY DEF Atomic!Ended
<1>3. w = Atomic!Meeting(job[q].link, job[q].guest, job[q].start)
  BY <1>1, WrittenShown
<1>4. w \in Shown
  BY <1>1, WrittenTyped, ViewFields
<1>5. \A b \in DOMAIN bookings : MeetingView(bookings'[b]) = e[b]
  <2> TAKE b \in DOMAIN bookings
  <2>1. CASE b # job[q].old
    BY <1>1, <1>2, <2>1 DEF Added
  <2>2. CASE b = job[q].old
    <3>1. job[q].old # None
      BY <1>1, <2>2 DEF None
    <3>2. bookings' = Append(Ended(b, 1), Written(q))
      BY <2>2, <3>1 DEF Write
    <3>3. Ended(b, 1) \in Seq(Booking) /\ b \in 1 .. Len(Ended(b, 1))
      BY <1>1, EndedAges DEF InPlace
    <3>4. bookings'[b] = Ended(b, 1)[b]
      BY <3>2, <3>3
    <3>5. e[b] = [MeetingView(bookings[b]) EXCEPT !.up = FALSE, !.copyUp = FALSE]
      BY <1>2, <2>2, <3>1
    <3>6. MeetingView(Ended(b, 1)[b]) = [MeetingView(bookings[b]) EXCEPT !.up = FALSE, !.copyUp = FALSE]
      BY EndedView
    <3> HIDE DEF e
    <3>7. QED
      BY <3>4, <3>5, <3>6
  <2>3. QED
    BY <2>1, <2>2
<1>6. e \in Seq(Shown) /\ Len(e) = n /\ DOMAIN e = 1 .. n
  <2>1. \A b \in 1 .. n : e[b] \in Shown
    <3> TAKE b \in 1 .. n
    <3>1. bookings'[b] \in Booking
      BY <1>1
    <3>2. QED
      BY <1>1, <1>5, <3>1, ViewFields
  <2>2. DOMAIN e = 1 .. n
    BY <1>1, <1>2
  <2>3. e = [b \in 1 .. n |-> e[b]]
    BY <1>1, <1>2
  <2> HIDE DEF e
  <2>4. e \in [1 .. n -> Shown]
    BY <2>1, <2>3
  <2>5. QED
    BY <1>1, <2>2, <2>4
<1>7. Views' = [b \in 1 .. (n + 1) |-> MeetingView(bookings'[b])]
  BY <1>1 DEF Views
<1>8. bookings'[n + 1] = Written(q)
  BY <1>1 DEF Added
<1> HIDE DEF e, w, n
<1>9. /\ Append(e, w) \in Seq(Shown) /\ Len(Append(e, w)) = n + 1
      /\ Append(e, w)[n + 1] = w /\ \A b \in 1 .. n : Append(e, w)[b] = e[b]
  BY <1>1, <1>4, <1>6
<1>10. \A b \in 1 .. (n + 1) : MeetingView(bookings'[b]) = Append(e, w)[b]
  BY <1>1, <1>5, <1>8, <1>9 DEF w
<1>11. Append(e, w) = [b \in 1 .. (n + 1) |-> Append(e, w)[b]]
  <2> DEFINE s == Append(e, w)
  <2>1. s \in Seq(Shown) /\ Len(s) = n + 1
    BY <1>9
  <2> HIDE DEF s
  <2>2. s = [b \in 1 .. (n + 1) |-> s[b]]
    BY <1>1, <2>1
  <2>3. QED
    BY <2>2 DEF s
<1>12. Views' = Append(e, w)
  BY <1>7, <1>10, <1>11
<1>13. QED
  BY <1>3, <1>12 DEF e

-------------------------------------------------------------------------------
(* Each step of a request is a step of Appointments, or shows nothing.       *)

\* What Write writes, Appointments books: the link is as it was found, the slot is still
\* free, and what the guest has by the link already is what is replaced.
LEMMA WriteBooks ==
  ASSUME Typed, SlotKept, Sole, OpenLink, MembersOnly, NEW q \in Requests, Write(q)
  PROVE  Atomic!Book(job[q].link, job[q].guest, job[q].start)
<1> DEFINE l == job[q].link
           g == job[q].guest
           s == job[q].start
           old == job[q].old
           over == IF old = None THEN {} ELSE {old}
<1>1. job[q].pc = "write" /\ Ready(q) /\ l \in Links /\ UNCHANGED link
  BY DEF Write, At, OpenLink, OwnPoints, Typed, JobOK, BookPoints
<1>2. LinkView[l].active /\ LinkView[l].cal = job[q].cal /\ g # Host[l] /\ UNCHANGED LinkView
  BY <1>1 DEF Ready, LinkView
<1>3. over \in SUBSET Atomic!Of(l, g)
  <2>1. SUFFICES ASSUME old # None PROVE old \in Atomic!Of(l, g)
    OBVIOUS
  <2>2. old \in DOMAIN bookings
    BY <2>1 DEF Typed, TypeOK, JobOK, None
  <2>3. g # Visitor /\ bookings[old].link = l /\ bookings[old].guest = g
    BY <1>1, <2>1 DEF MembersOnly, Sole
  <2>4. QED
    BY <2>2, <2>3, OfShown
<1>4. ASSUME NEW b \in Atomic!Of(l, g), MeetingView(bookings[b]).up PROVE b \in over
  <2>1. b \in DOMAIN bookings
    BY DEF Atomic!Of
  <2>2. g # Visitor /\ bookings[b].link = l /\ bookings[b].guest = g
    BY <2>1, OfShown
  <2>3. bookings[b] \in Booking /\ bookings[b].up
    BY <1>4, <2>1, BookingAt, ViewFields
  <2>4. g \in Users
    BY <2>2, <2>3 DEF Booking, Guests
  <2>5. b = old
    BY <1>1, <2>1, <2>2, <2>3, <2>4 DEF Sole, UpIn
  <2>6. old # None
    BY <2>1, <2>5 DEF None, Typed, TypeOK
  <2>7. QED
    BY <2>5, <2>6
<1>5. ASSUME NEW b \in Atomic!On(job[q].cal) \ over
      PROVE  MeetingView(bookings[b]).moved \/ Atomic!Clear(l, s, b)
  <2>1. b \in BusyIn(bookings, job[q].cal) \ {old} /\ b \in DOMAIN bookings
    <3>1. b \in BusyIn(bookings, job[q].cal)
      BY OnShown
    <3>2. b \in DOMAIN bookings
      BY <3>1 DEF BusyIn
    <3>3. b # old
      BY <3>2 DEF None, Typed, TypeOK
    <3>4. QED
      BY <3>1, <3>2, <3>3
  <2>2. bookings[b].moved \/ ClearIn(bookings, l, s, b)
    BY <1>1, <2>1 DEF SlotKept
  <2>3. QED
    BY <2>1, <2>2, BookingAt, ViewFields, ClearShown
<1>6. Views' = Append(Atomic!Ended(over), Atomic!Meeting(l, g, s))
  BY <1>1, MeetingsWritten
<1> HIDE DEF l, g, s, over
<1>7. \E o \in SUBSET Atomic!Of(l, g) :
        /\ \A b \in Atomic!Of(l, g) : MeetingView(bookings[b]).up => b \in o
        /\ \A b \in Atomic!On(LinkView[l].cal) \ o : MeetingView(bookings[b]).moved \/ Atomic!Clear(l, s, b)
        /\ Views' = Append(Atomic!Ended(o), Atomic!Meeting(l, g, s))
  BY <1>2, <1>3, <1>4, <1>5, <1>6
<1>8. Atomic!Book(l, g, s)
  <2>1. \A b \in Atomic!Of(l, g) : b \in DOMAIN bookings /\ Views[b] = MeetingView(bookings[b])
    BY DEF Atomic!Of, Views
  <2>2. \A c : \A b \in Atomic!On(c) : b \in DOMAIN bookings /\ Views[b] = MeetingView(bookings[b])
    BY DEF Atomic!On, Views
  <2>3. \E o \in SUBSET Atomic!Of(l, g) :
          /\ \A b \in Atomic!Of(l, g) : Views[b].up => b \in o
          /\ \A b \in Atomic!On(LinkView[l].cal) \ o : Views[b].moved \/ Atomic!Clear(l, s, b)
          /\ Views' = Append(Atomic!Ended(o), Atomic!Meeting(l, g, s))
    BY <1>7, <2>1, <2>2
  <2>4. QED
    BY <1>2, <2>3 DEF Atomic!Book, Views
<1>9. QED
  BY <1>8 DEF l, g, s

\* What a step may look like.
Appointed ==
  \/ UNCHANGED <<LinkView, Views>>
  \/ \E l \in Links, g \in Guests, s \in Times : Atomic!Book(l, g, s)
  \/ \E b \in DOMAIN bookings : Atomic!CallOff(b) \/ Atomic!Halve(b) \/ \E s \in Times : Atomic!Drag(b, s)
  \/ \E l \in Links : Atomic!Change(l)

\* A booking that has ended is the same when it ends again.
LEMMA EndedAgain ==
  ASSUME NEW v \in Shown, ~v.up, ~v.copyUp
  PROVE  [v EXCEPT !.up = FALSE, !.copyUp = FALSE] = v
<1>1. [v EXCEPT !.up = FALSE, !.copyUp = FALSE] \in Shown
  BY DEF Shown
<1>2. QED
  BY <1>1 DEF Shown

\* Booking b is ended, whether it was there or not.
LEMMA EndShown ==
  ASSUME Typed, NEW b \in DOMAIN bookings, InPlace(bookings'), UNCHANGED link,
         MeetingView(bookings'[b]) = [MeetingView(bookings[b]) EXCEPT !.up = FALSE, !.copyUp = FALSE],
         \A a \in DOMAIN bookings \ {b} : bookings'[a] = bookings[a]
  PROVE  Appointed
<1> DEFINE v == MeetingView(bookings[b])
<1>1. Views' = [Views EXCEPT ![b] = [v EXCEPT !.up = FALSE, !.copyUp = FALSE]]
  BY OneView
<1>2. Views[b] = v /\ v \in Shown /\ UNCHANGED LinkView
  BY BookingAt, ViewFields DEF Views, LinkView
<1> HIDE DEF v
<1>3. CASE v.up \/ v.copyUp
  <2>1. Views' = [Views EXCEPT ![b] = [@ EXCEPT !.up = FALSE, !.copyUp = FALSE]]
    BY <1>1, <1>2
  <2>2. QED
    BY <1>2, <1>3, <2>1, CallOffShown DEF Appointed
<1>4. CASE ~v.up /\ ~v.copyUp
  <2>1. Views' = [Views EXCEPT ![b] = v]
    BY <1>1, <1>2, <1>4, EndedAgain
  <2>2. Views' = Views
    BY <1>2, <2>1 DEF Views
  <2>3. QED
    BY <1>2, <2>2 DEF Appointed
<1>5. QED
  BY <1>3, <1>4

LEMMA CancelCallsOff == ASSUME Typed, NEW q \in Requests, CancelByGuest(q) PROVE Appointed
<1> DEFINE b == job[q].old
<1>1. b \in DOMAIN bookings /\ InPlace(bookings') /\ UNCHANGED link
  BY Named, CancelByGuestKeeps DEF CancelByGuest, At
<1>2. PICK n \in Nat : bookings' = Ended(b, n)
  BY DEF CancelByGuest
<1> HIDE DEF b
<1>3. MeetingView(bookings'[b]) = [MeetingView(bookings[b]) EXCEPT !.up = FALSE, !.copyUp = FALSE]
  BY <1>1, <1>2, EndedView
<1>4. \A a \in DOMAIN bookings \ {b} : bookings'[a] = bookings[a]
  BY <1>1, <1>2, EndedAges
<1>5. QED
  BY <1>1, <1>3, <1>4, EndShown

LEMMA DestroyCallsOff == ASSUME Typed, NEW q \in Requests, Destroy(q) PROVE Appointed
<1> DEFINE b == job[q].old
<1>1. b \in DOMAIN bookings /\ InPlace(bookings') /\ UNCHANGED link
  BY Named, DestroyKeeps DEF Destroy, At
<1>2. UNCHANGED bookings \/ \E n \in Nat : bookings' = EndedByHost(b, n)
  BY DEF Destroy
<1> HIDE DEF b
<1>3. CASE UNCHANGED bookings
  BY <1>1, <1>3 DEF Appointed, Views, LinkView
<1>4. ASSUME NEW n \in Nat, bookings' = EndedByHost(b, n) PROVE Appointed
  <2>1. MeetingView(bookings'[b]) = [MeetingView(bookings[b]) EXCEPT !.up = FALSE, !.copyUp = FALSE]
    BY <1>1, <1>4, EndedByHostView
  <2>2. \A a \in DOMAIN bookings \ {b} : bookings'[a] = bookings[a]
    BY <1>1, <1>4, EndedByHostAges
  <2>3. QED
    BY <1>1, <2>1, <2>2, EndShown
<1>5. QED
  BY <1>2, <1>3, <1>4

\* What is dragged is there.
LEMMA MoveDrags == ASSUME Typed, NEW q \in Requests, Move(q) PROVE Appointed
<1> DEFINE s == job[q].start
<1>1. PICK b \in DOMAIN bookings : b = job[q].old
  BY Named DEF Move, At
<1>2. InPlace(bookings') /\ UNCHANGED link /\ s \in Times
  BY MoveKeeps DEF Move, At, Typed, JobOK
<1>3. CASE UNCHANGED bookings
  BY <1>2, <1>3 DEF Appointed, Views, LinkView
<1>4. CASE RowUp(b, job[q].row) /\ bookings' = [bookings EXCEPT ![b].start = s, ![b].moved = TRUE]
  <2> DEFINE x == [bookings[b] EXCEPT !.start = s, !.moved = TRUE]
             v == MeetingView(bookings[b])
             w == MeetingView(x)
  <2>1. bookings[b] \in Booking /\ s \in Nat
    BY <1>2, BookingAt, BookingAssumption
  <2>2. bookings'[b] = x /\ \A a \in DOMAIN bookings \ {b} : bookings'[a] = bookings[a]
    BY <1>4
  <2>3. x \in Booking
    BY <1>2, <2>1, <2>2 DEF Booking
  <2>4. /\ x.link = bookings[b].link /\ x.guest = bookings[b].guest /\ x.cal = bookings[b].cal
        /\ x.copy = bookings[b].copy /\ x.start = s /\ x.moved
        /\ x.up = bookings[b].up /\ x.copyUp = bookings[b].copyUp
    BY <2>1 DEF Booking
  <2> HIDE DEF x
  <2>5. v \in Shown /\ w \in Shown
    BY <2>1, <2>3, ViewFields
  <2>6. /\ w.link = v.link /\ w.guest = v.guest /\ w.cal = v.cal /\ w.copy = v.copy
        /\ w.start = s /\ w.moved /\ w.up = v.up /\ w.copyUp = v.copyUp
    BY <2>1, <2>3, <2>4, ViewFields
  <2>7. v.up \/ v.copyUp
    BY <1>4, <2>1, ViewFields DEF RowUp
  <2>8. Views' = [Views EXCEPT ![b] = w] /\ Views[b] = v
    BY <1>2, <2>2, OneView DEF Views
  <2> HIDE DEF v, w
  <2>9. w = [v EXCEPT !.start = s, !.moved = TRUE]
    BY <2>5, <2>6, ShownExcept
  <2>10. Views' = [Views EXCEPT ![b] = [@ EXCEPT !.start = s, !.moved = TRUE]]
    BY <2>8, <2>9
  <2>11. UNCHANGED LinkView
    BY <1>2 DEF LinkView
  <2>12. Atomic!Drag(b, s)
    BY <2>7, <2>8, <2>10, <2>11, DragShown
  <2>13. QED
    BY <1>2, <2>12 DEF Appointed
<1>5. QED
  BY <1>1, <1>3, <1>4 DEF Move

\* Google deletes a row that is there.
LEMMA GoogleHalves ==
  ASSUME Typed, NEW b \in DOMAIN bookings, NEW row \in {"host", "copy"}, GoogleDeletes(b, row)
  PROVE  Appointed
<1> DEFINE x == IF row = "host" THEN [bookings[b] EXCEPT !.up = FALSE, !.halved = TRUE]
                                ELSE [bookings[b] EXCEPT !.copyUp = FALSE, !.halved = TRUE]
           v == MeetingView(bookings[b])
           w == MeetingView(x)
<1>1. bookings[b] \in Booking /\ InPlace(bookings') /\ UNCHANGED link
  BY BookingAt, GoogleKeeps DEF GoogleDeletes
<1>2. bookings'[b] = x /\ \A a \in DOMAIN bookings \ {b} : bookings'[a] = bookings[a]
  BY DEF GoogleDeletes
<1>3. x \in Booking
  BY <1>1 DEF Booking
<1>4. /\ x.link = bookings[b].link /\ x.guest = bookings[b].guest /\ x.cal = bookings[b].cal
      /\ x.copy = bookings[b].copy /\ x.start = bookings[b].start /\ x.moved = bookings[b].moved
      /\ row = "host" => ~x.up /\ x.copyUp = bookings[b].copyUp /\ bookings[b].up
      /\ row # "host" => x.up = bookings[b].up /\ ~x.copyUp /\ bookings[b].copyUp
  BY <1>1 DEF Booking, GoogleDeletes, RowUp
<1> HIDE DEF x
<1>5. v \in Shown /\ w \in Shown
  BY <1>1, <1>3, ViewFields
<1>6. /\ w.link = v.link /\ w.guest = v.guest /\ w.cal = v.cal /\ w.copy = v.copy
      /\ w.start = v.start /\ w.moved = v.moved
      /\ row = "host" => ~w.up /\ w.copyUp = v.copyUp /\ v.up
      /\ row # "host" => w.up = v.up /\ ~w.copyUp /\ v.copyUp
  BY <1>1, <1>3, <1>4, ViewFields
<1>7. Views' = [Views EXCEPT ![b] = w] /\ Views[b] = v /\ UNCHANGED LinkView
  BY <1>1, <1>2, OneView DEF Views, LinkView
<1> HIDE DEF v, w
<1>8. \/ v.up /\ w = [v EXCEPT !.up = FALSE]
      \/ v.copyUp /\ w = [v EXCEPT !.copyUp = FALSE]
  BY <1>5, <1>6, ShownExcept
<1>9. \/ Views[b].up /\ Views' = [Views EXCEPT ![b] = [@ EXCEPT !.up = FALSE]]
      \/ Views[b].copyUp /\ Views' = [Views EXCEPT ![b] = [@ EXCEPT !.copyUp = FALSE]]
  BY <1>7, <1>8
<1>10. QED
  BY <1>7, <1>9, HalveShown DEF Appointed

\* A host opens, closes or moves a link.
LEMMA EditChanges == ASSUME Typed, NEW l \in Links, EditLink(l) PROVE Appointed
<1>1. PICK row \in LinkRow : row.cal \in Places[l] /\ link' = [link EXCEPT ![l] = row]
  BY DEF EditLink
<1>2. row.active \in BOOLEAN /\ UNCHANGED bookings
  BY DEF LinkRow, EditLink
<1>3. LinkView' = [LinkView EXCEPT ![l] = [cal |-> row.cal, active |-> row.active]]
  BY <1>1 DEF LinkView, Typed, TypeOK
<1>4. Views' = Views
  BY <1>2 DEF Views
<1>5. Atomic!Change(l)
  BY <1>1, <1>2, <1>3, <1>4 DEF Atomic!Change, Views
<1>6. QED
  BY <1>5 DEF Appointed

\* Nothing of a booking is written.
LEMMA NothingShown == ASSUME UNCHANGED <<link, bookings>> PROVE Appointed
BY DEF Appointed, LinkView, Views

\* Every step is appointed.
LEMMA AppointedStep ==
  ASSUME Typed, SlotKept, Sole, OpenLink, MembersOnly, [Next]_vars
  PROVE  Appointed
<1>1. ASSUME NEW r \in Requests, Step(r) PROVE Appointed
  <2>1. CASE CancelByGuest(r) \/ Destroy(r) \/ Move(r)
    BY <2>1, CancelCallsOff, DestroyCallsOff, MoveDrags
  <2>2. CASE Write(r)
    <3>1. Atomic!Book(job[r].link, job[r].guest, job[r].start)
      BY <2>2, WriteBooks
    <3>2. job[r].link \in Links /\ job[r].guest \in Guests /\ job[r].start \in Times /\ UNCHANGED LinkView
      BY <2>2 DEF Write, At, Typed, TypeOK, Job, JobOK, BookPoints, LinkView
    <3>3. QED
      BY <3>1, <3>2 DEF Appointed
  <2>3. ASSUME \/ Peek(r) \/ LockUser(r) \/ LockCalendar(r) \/ LockLink(r) \/ ReadExisting(r)
               \/ Replace(r) \/ Check(r)
        PROVE  UNCHANGED <<link, bookings>>
    BY <2>3 DEF Peek, LockUser, LockCalendar, LockLink, ReadExisting, Replace, Check
  <2>4. QED
    BY <1>1, <2>1, <2>2, <2>3, NothingShown, Zenon DEF Step
<1>2. ASSUME NEW r \in Requests, Arrive(r) \/ Abort(r) PROVE UNCHANGED <<link, bookings>>
  BY <1>2 DEF Arrive, Book, Cancel, Edit, Abort
<1>3. CASE UNCHANGED vars
  BY <1>3, NothingShown DEF vars
<1>4. QED
  BY <1>1, <1>2, <1>3, NothingShown, EditChanges, GoogleHalves DEF Next

\* No meeting is there at first, and the links are open.
LEMMA AppointedInit == ASSUME Init PROVE Atomic!Init
<1> DEFINE place == [l \in Links |-> link[l].cal]
<1>1. \A l \in Links : link[l].cal \in Places[l] /\ link[l].active = TRUE
  BY DEF Init
<1>2. place \in [Links -> UNION {Places[l] : l \in Links}]
  BY <1>1
<1>3. LinkView = [l \in Links |-> [cal |-> place[l], active |-> TRUE]]
  BY <1>1 DEF LinkView
<1>4. [b \in DOMAIN bookings |-> MeetingView(bookings[b])] = <<>>
  BY DEF Init
<1> HIDE DEF place
<1>5. \A l \in Links : place[l] \in Places[l]
  BY <1>1 DEF place
<1>6. QED
  BY <1>2, <1>3, <1>4, <1>5 DEF Atomic!Init

\* The requests of the code keep the promise of Appointments: PublicBookingCreateView and
\* the edits of meetings take effect in one step each, on the links and the calendars as
\* they are at that step, whatever else is going on.
THEOREM BookingIsAtomicHolds == Spec => BookingIsAtomic
<1>1. Init => OpenLink /\ MembersOnly /\ Atomic!Init
  <2>1. Init => OpenLink /\ MembersOnly
    BY DEF Init, OpenLink, MembersOnly, NoJob, OwnPoints
  <2>2. QED
    BY <2>1, AppointedInit
<1>2. Inv /\ OpenLink /\ MembersOnly /\ [Next]_vars => OpenLink' /\ MembersOnly'
  BY OpenLinkStep, MembersOnlyStep DEF Inv
<1>3. Inv /\ OpenLink /\ MembersOnly /\ [Next]_vars => [Atomic!Next]_Atomic!appointments
  <2> SUFFICES ASSUME Inv, OpenLink, MembersOnly, [Next]_vars
               PROVE  Atomic!Next \/ UNCHANGED Atomic!appointments
    OBVIOUS
  <2>1. Appointed
    BY AppointedStep DEF Inv
  <2>2. DOMAIN bookings = DOMAIN Views
    BY DEF Views
  <2>3. QED
    BY <2>1, <2>2, SameShown DEF Appointed, Atomic!Next, Guests, Views
<1>4. QED
  BY <1>1, <1>2, <1>3, Invariant, PTL DEF Spec, BookingIsAtomic, Atomic!Spec

================================================================================
