------------------------------ MODULE BookingSlots ------------------------------
(***************************************************************************)
(* Public booking links: visitors and members book, move and call off      *)
(* meetings while hosts edit their links, and Google deletes what it has a *)
(* copy of.  Every request is one transaction at READ COMMITTED; its row   *)
(* locks are taken one after the other and kept to the end, and what it    *)
(* writes is seen by the others at its commit.                             *)
(*                                                                         *)
(* A booking is a row on the calendar of its link, and a copy on the diary *)
(* of a guest who has an account.  Times are small numbers, and every      *)
(* booking lies ahead.  Working hours, notice, what else is on a calendar  *)
(* and what Google answers are reasons to refuse a slot at will.           *)
(***************************************************************************)
EXTENDS Integers, Sequences

CONSTANTS
  Users,      \* the accounts of one organisation
  Visitor,    \* a guest without an account
  Calendars,  \* their primary keys
  Diary,      \* Diary[u]: the personal calendar of u
  Links,
  NoLink,     \* the link of a request that has none
  Host,       \* Host[l]: owner of link l
  Places,     \* Places[l]: the calendars link l may book into
  Rules,      \* Rules[l]: duration_minutes and the buffers of link l
  Free,       \* nobody holds the lock
  MaxRequests, \* bound: requests, numbered as they arrive
  MaxSlugs,   \* bound: names of a link, numbered; none is a name of another link
  Times,      \* bound: when meetings may start
  Sessions    \* what may happen in a session, see below

Requests == 1 .. MaxRequests

Kinds == {"book", "cancel", "delete", "move"}

Guests == Users \cup {Visitor}

\* What each request may be, who books, how often a link is changed, and how often a
\* request fails or Google deletes a row.
Session == [plan : [Requests -> SUBSET Kinds], guests : SUBSET Guests, edits : Nat, faults : Nat]

ASSUME BookingAssumption ==
  /\ Visitor \notin Users
  /\ Calendars \subseteq Nat \ {0}
  /\ Diary \in [Users -> Calendars]
  /\ Host \in [Links -> Users]
  /\ Places \in [Links -> SUBSET Calendars]
  /\ Rules \in [Links -> [duration : Nat \ {0}, before : Nat, after : Nat]]
  /\ NoLink \notin Links
  /\ MaxRequests \in Nat
  /\ MaxSlugs \in Nat \ {0}
  /\ Free \notin Requests
  /\ Times \subseteq Nat
  /\ Sessions \subseteq Session

None == 0 \* no calendar, no booking, and the name of a link that is deleted

Slugs == 1 .. MaxSlugs

\* The rows of one booking_group.
Booking ==
  [link : Links, slug : Slugs \cup {None}, guest : Guests, cal : Calendars, copy : Calendars \cup {None}, start : Times,
   up : BOOLEAN,      \* the row of the host is neither deleted nor cancelled
   copyUp : BOOLEAN,  \* nor is the copy of the guest
   notices : Nat,     \* notify_booking_cancelled and notify_booking_rescheduled
   moved : BOOLEAN,   \* somebody has dragged it to another time
   halved : BOOLEAN,  \* one of its rows was deleted in Google
   unfound : BOOLEAN] \* called off by its host when its slug named no link

Points == {"new", "peek", "user", "calendars", "link", "existing", "replace", "check", "write",
           "cancel", "delete", "move", "done"}

VARIABLES
  link,      \* link[l]: its calendar, its name, and whether it can be booked
  bookings,  \* in the order of their commits
  invite,    \* invite[u][l]: the booking that u's invitation to l names
  job,       \* job[r]: request r and its next point
  calLock, userLock, linkLock,
  edits, faults, session

meter == <<edits, faults, session>>
locks == <<calLock, userLock, linkLock>>
vars  == <<link, bookings, invite, job, locks, meter>>

NoJob == [pc |-> "new", link |-> NoLink, guest |-> Visitor, start |-> 0, cal |-> None, wants |-> {},
          old |-> None, row |-> "host"]

Job == [pc : Points, link : Links \cup {NoLink}, guest : Guests, start : Nat,
        cal : Calendars \cup {None}, wants : SUBSET Calendars, old : Nat, row : {"host", "copy"}]

LinkRow == [cal : Calendars, active : BOOLEAN, slug : Slugs \cup {None}]

TypeOK ==
  /\ link \in [Links -> LinkRow]
  /\ bookings \in Seq(Booking)
  /\ invite \in [Users -> [Links -> 0 .. Len(bookings)]]
  /\ job \in [Requests -> Job]
  /\ calLock \in [Calendars -> Requests \cup {Free}]
  /\ userLock \in [Users -> Requests \cup {Free}]
  /\ linkLock \in [Links -> Requests \cup {Free}]
  /\ edits \in Nat /\ faults \in Nat /\ session \in Sessions

Init ==
  /\ link \in [Links -> [cal : Calendars, active : {TRUE}, slug : {1}]]
  /\ \A l \in Links : link[l].cal \in Places[l]
  /\ bookings = <<>>
  /\ invite = [u \in Users |-> [l \in Links |-> None]]
  /\ job = [r \in Requests |-> NoJob]
  /\ calLock = [c \in Calendars |-> Free]
  /\ userLock = [u \in Users |-> Free]
  /\ linkLock = [l \in Links |-> Free]
  /\ session \in Sessions
  /\ edits = session.edits /\ faults = session.faults

-------------------------------------------------------------------------------
(* What the requests read.                                                 *)

At(r, p) == job[r].pc = p

\* The bookings with a row on calendar c.
BusyOn(c) ==
  {b \in DOMAIN bookings :
     \/ bookings[b].up /\ bookings[b].cal = c
     \/ bookings[b].copyUp /\ bookings[b].copy = c}

\* A meeting by link l at time s keeps its buffers from booking b.
ClearOf(l, s, b) ==
  \/ bookings[b].start + Rules[bookings[b].link].duration + Rules[l].before <= s
  \/ s + Rules[l].duration + Rules[l].after <= bookings[b].start

\* is_slot_still_available, after the transaction has cancelled booking old.
SlotFree(r) ==
  \A b \in BusyOn(job[r].cal) \ {job[r].old} : ClearOf(job[r].link, job[r].start, b)

\* The bookings of account g by link l.
Upcoming(l, g) ==
  {b \in DOMAIN bookings : bookings[b].up /\ bookings[b].link = l /\ bookings[b].guest = g}

\* Mutant: only the calendar that the link has now is searched.
ExistingHere(l, g) ==
  LET here == {b \in Upcoming(l, g) : bookings[b].cal = link[l].cal}
  IN  IF g = Visitor \/ here = {}
        THEN {None}
        ELSE {b \in here : \A a \in here : bookings[b].start <= bookings[a].start}

\* find_upcoming_guest_booking: one of the earliest.
Existing(l, g) ==
  IF g = Visitor \/ Upcoming(l, g) = {}
    THEN {None}
    ELSE {b \in Upcoming(l, g) : \A a \in Upcoming(l, g) : bookings[b].start <= bookings[a].start}

HasDiary(l, g) == g \in Users /\ g # Host[l]

-------------------------------------------------------------------------------
(* PublicBookingCreateView.                                                *)

Goto(r, p) == job' = [job EXCEPT ![r].pc = p]

\* Requests are numbered in the order in which they arrive.
Arrives(r, k) ==
  /\ At(r, "new")
  /\ \A q \in Requests : q < r => ~At(q, "new")
  /\ k \in session.plan[r]

\* The transaction ends, and with it its locks.
Unlocked(f, r) == [x \in DOMAIN f |-> IF f[x] = r THEN Free ELSE f[x]]

Finish(r) ==
  /\ job' = [job EXCEPT ![r] = [NoJob EXCEPT !.pc = "done"]]
  /\ calLock' = Unlocked(calLock, r)
  /\ userLock' = Unlocked(userLock, r)
  /\ linkLock' = Unlocked(linkLock, r)

\* The link is loaded ...
Book(r) ==
  /\ Arrives(r, "book")
  /\ \E l \in Links, g \in session.guests, s \in Times :
       /\ link[l].active
       /\ job' = [job EXCEPT ![r] = [@ EXCEPT !.pc = "peek", !.link = l, !.guest = g, !.start = s,
                                              !.cal = link[l].cal, !.wants = {link[l].cal}]]
  /\ UNCHANGED <<link, bookings, invite, locks, meter>>

\* ... and the booking that the guest has already: its calendar will be written.
Peek(r) ==
  /\ At(r, "peek")
  /\ \E old \in Existing(job[r].link, job[r].guest) :
       job' = [job EXCEPT ![r].pc = IF HasDiary(job[r].link, job[r].guest) THEN "user" ELSE "calendars",
                          ![r].wants = IF old = None THEN @ ELSE @ \cup {bookings[old].cal}]
  /\ UNCHANGED <<link, bookings, invite, locks, meter>>

\* Mutant: the diary of the guest is not locked.
LockUserOnly(r) ==
  /\ At(r, "user")
  /\ userLock[job[r].guest] = Free
  /\ userLock' = [userLock EXCEPT ![job[r].guest] = r]
  /\ Goto(r, "calendars")
  /\ UNCHANGED <<link, bookings, invite, calLock, linkLock, meter>>

\* ensure_personal_calendar, under the lock on the account.
LockUser(r) ==
  /\ At(r, "user")
  /\ userLock[job[r].guest] = Free
  /\ userLock' = [userLock EXCEPT ![job[r].guest] = r]
  /\ job' = [job EXCEPT ![r].pc = "calendars", ![r].wants = @ \cup {Diary[job[r].guest]}]
  /\ UNCHANGED <<link, bookings, invite, calLock, linkLock, meter>>

ToLock(r) == {c \in job[r].wants : calLock[c] # r}

\* Mutant: the calendars are locked in any order.
LockAnyCalendar(r) ==
  /\ At(r, "calendars")
  /\ \E c \in ToLock(r) :
       /\ calLock[c] = Free
       /\ calLock' = [calLock EXCEPT ![c] = r]
       /\ IF ToLock(r) = {c} THEN Goto(r, "link") ELSE UNCHANGED job
  /\ UNCHANGED <<link, bookings, invite, userLock, linkLock, meter>>

\* select_for_update in the order of the primary keys.
LockCalendar(r) ==
  /\ At(r, "calendars")
  /\ \E c \in ToLock(r) :
       /\ \A d \in ToLock(r) : c <= d
       /\ calLock[c] = Free
       /\ calLock' = [calLock EXCEPT ![c] = r]
       /\ IF ToLock(r) = {c} THEN Goto(r, "link") ELSE UNCHANGED job
  /\ UNCHANGED <<link, bookings, invite, userLock, linkLock, meter>>

\* Mutant: the link is taken as it was before the locks.
LockLinkOnly(r) ==
  /\ At(r, "link")
  /\ linkLock[job[r].link] = Free
  /\ linkLock' = [linkLock EXCEPT ![job[r].link] = r]
  /\ Goto(r, "existing")
  /\ UNCHANGED <<link, bookings, invite, calLock, userLock, meter>>

\* The link again, now under its lock: it may have been changed meanwhile.
LockLink(r) ==
  /\ At(r, "link")
  /\ linkLock[job[r].link] = Free
  /\ IF /\ link[job[r].link].active
        /\ link[job[r].link].cal = job[r].cal
        /\ job[r].guest # Host[job[r].link]
       THEN /\ linkLock' = [linkLock EXCEPT ![job[r].link] = r]
            /\ Goto(r, "existing")
            /\ UNCHANGED <<calLock, userLock>>
       ELSE Finish(r)
  /\ UNCHANGED <<link, bookings, invite, meter>>

\* The guest's booking again: the same time is refused, another one is replaced.
ReadExisting(r) ==
  /\ At(r, "existing")
  /\ \E old \in Existing(job[r].link, job[r].guest) :
       IF old = None
         THEN Goto(r, "check") /\ UNCHANGED locks
         ELSE IF bookings[old].start = job[r].start
           THEN Finish(r)
           ELSE /\ job' = [job EXCEPT ![r].pc = "replace", ![r].old = old]
                /\ UNCHANGED locks
  /\ UNCHANGED <<link, bookings, invite, meter>>

\* cancel_booking_events locks the calendar of what it cancels.
Replace(r) ==
  /\ At(r, "replace")
  /\ calLock[bookings[job[r].old].cal] \in {Free, r}
  /\ calLock' = [calLock EXCEPT ![bookings[job[r].old].cal] = r]
  /\ Goto(r, "check")
  /\ UNCHANGED <<link, bookings, invite, userLock, linkLock, meter>>

Check(r) ==
  /\ At(r, "check")
  /\ \/ SlotFree(r) /\ Goto(r, "write") /\ UNCHANGED locks
     \/ Finish(r)
  /\ UNCHANGED <<link, bookings, invite, meter>>

\* create_booking_events.
Written(r) ==
  LET l == job[r].link
      g == job[r].guest
      copied == HasDiary(l, g) /\ Diary[g] # job[r].cal
  IN  [link |-> l, slug |-> link[l].slug, guest |-> g, cal |-> job[r].cal, copy |-> IF copied THEN Diary[g] ELSE None,
       start |-> job[r].start, up |-> TRUE, copyUp |-> copied, notices |-> 0, moved |-> FALSE,
       halved |-> FALSE, unfound |-> FALSE]

\* All copies of booking b are cancelled, and n notices sent.
Ended(b, n) ==
  [bookings EXCEPT ![b].up = FALSE, ![b].copyUp = FALSE, ![b].notices = @ + n]

\* The host has called off booking b, by the slug in its row.
Unfound(b) == link[bookings[b].link].slug # bookings[b].slug

EndedByHost(b, n) == [Ended(b, n) EXCEPT ![b].unfound = @ \/ Unfound(b)]

\* mark_invite_booked and mark_invite_unbooked.
Marked(l, g, b) ==
  invite' = IF g \in Users THEN [invite EXCEPT ![g][l] = b] ELSE invite

Write(r) ==
  /\ At(r, "write")
  /\ bookings' = Append(IF job[r].old = None THEN bookings ELSE Ended(job[r].old, 1), Written(r))
  /\ Marked(job[r].link, job[r].guest, Len(bookings) + 1)
  /\ Finish(r)
  /\ UNCHANGED <<link, meter>>

\* An error, or a process that dies, rolls everything back.
Abort(r) ==
  /\ job[r].pc \notin {"new", "done"}
  /\ faults > 0
  /\ faults' = faults - 1
  /\ Finish(r)
  /\ UNCHANGED <<link, bookings, invite, edits, session>>

-------------------------------------------------------------------------------
(* Calling off and moving.  One of the rows is named; the lock is that of  *)
(* the calendar of the host's row, and everything is read again under it.  *)

RowUp(b, row) == IF row = "host" THEN bookings[b].up ELSE bookings[b].copyUp

Locked(b) == calLock[bookings[b].cal] # Free

\* A cancel token names the host's row, also of what has ended.
Cancel(r) ==
  /\ Arrives(r, "cancel")
  /\ \E b \in DOMAIN bookings : job' = [job EXCEPT ![r] = [@ EXCEPT !.pc = "cancel", !.old = b]]
  /\ UNCHANGED <<link, bookings, invite, locks, meter>>

\* Mutant: what has ended is called off once more.
CancelAnyway(r) ==
  LET b == job[r].old
  IN  /\ At(r, "cancel")
      /\ ~Locked(b)
      /\ bookings' = Ended(b, IF bookings[b].up THEN 1 ELSE 0)
      /\ Marked(bookings[b].link, bookings[b].guest, None)
      /\ Finish(r)
      /\ UNCHANGED <<link, meter>>

\* PublicBookingCancelView.
CancelByGuest(r) ==
  LET b == job[r].old
  IN  /\ At(r, "cancel")
      /\ ~Locked(b)
      /\ IF bookings[b].up
           THEN bookings' = Ended(b, 1) /\ Marked(bookings[b].link, bookings[b].guest, None)
           ELSE bookings' = Ended(b, 0) /\ UNCHANGED invite
      /\ Finish(r)
      /\ UNCHANGED <<link, meter>>

\* Deleting, or setting the status to cancelled, and moving need a row that is there.
Edit(r) ==
  /\ \E k \in {"delete", "move"}, b \in DOMAIN bookings, row \in {"host", "copy"},
        s \in Times :
       /\ Arrives(r, k)
       /\ RowUp(b, row)
       /\ job' = [job EXCEPT ![r] = [@ EXCEPT !.pc = k, !.old = b, !.row = row, !.start = s]]
  /\ UNCHANGED <<link, bookings, invite, locks, meter>>

\* Mutant: the row is not read again under the lock.
DestroyAnyway(r) ==
  LET b == job[r].old
      n == IF bookings[b].guest \in Users THEN 1 ELSE 0
  IN  /\ At(r, "delete")
      /\ ~Locked(b)
      /\ bookings' = EndedByHost(b, n)
      /\ IF Unfound(b) THEN UNCHANGED invite ELSE Marked(bookings[b].link, bookings[b].guest, None)
      /\ Finish(r)
      /\ UNCHANGED <<link, meter>>

\* EventViewSet.perform_destroy; only a guest with an account is told, and the
\* invitation is found by the name of the link.
Destroy(r) ==
  LET b == job[r].old
      n == IF bookings[b].guest \in Users THEN 1 ELSE 0
  IN  /\ At(r, "delete")
      /\ ~Locked(b)
      /\ bookings' = IF RowUp(b, job[r].row) THEN EndedByHost(b, n) ELSE bookings
      /\ IF RowUp(b, job[r].row) /\ ~Unfound(b)
           THEN Marked(bookings[b].link, bookings[b].guest, None)
           ELSE UNCHANGED invite
      /\ Finish(r)
      /\ UNCHANGED <<link, meter>>

\* EventViewSet.update and sync_booking_siblings; nobody checks the new time.
Move(r) ==
  LET b == job[r].old
  IN  /\ At(r, "move")
      /\ ~Locked(b)
      /\ bookings' = IF RowUp(b, job[r].row)
                       THEN [bookings EXCEPT ![b].start = job[r].start, ![b].moved = TRUE]
                       ELSE bookings
      /\ Finish(r)
      /\ UNCHANGED <<link, invite, meter>>

-------------------------------------------------------------------------------
(* Hosts and Google.                                                       *)

\* BookingLinkViewSet.update and destroy; what is deleted stays so.
EditLink(l) ==
  /\ edits > 0
  /\ edits' = edits - 1
  /\ linkLock[l] = Free /\ link[l].slug # None
  /\ \E row \in LinkRow :
       /\ row # link[l] /\ row.cal \in Places[l]
       /\ row.slug = None => row.cal = link[l].cal /\ ~row.active
       /\ link' = [link EXCEPT ![l] = row]
  /\ UNCHANGED <<bookings, invite, job, locks, faults, session>>

\* The import of a deletion: one row of a personal calendar, which must not be
\* locked by a request that is replacing it.
GoogleDeletes(b, row) ==
  /\ faults > 0
  /\ faults' = faults - 1
  /\ RowUp(b, row)
  /\ \E u \in Users : Diary[u] = IF row = "host" THEN bookings[b].cal ELSE bookings[b].copy
  /\ \A r \in Requests : job[r].old = b => job[r].pc \notin {"check", "write"}
  /\ bookings' = IF row = "host" THEN [bookings EXCEPT ![b].up = FALSE, ![b].halved = TRUE]
                                 ELSE [bookings EXCEPT ![b].copyUp = FALSE, ![b].halved = TRUE]
  /\ UNCHANGED <<link, invite, job, locks, edits, session>>

Arrive(r) == Book(r) \/ Cancel(r) \/ Edit(r)

Step(r) ==
  \/ Peek(r) \/ LockUser(r) \/ LockCalendar(r) \/ LockLink(r) \/ ReadExisting(r) \/ Replace(r)
  \/ Check(r) \/ Write(r) \/ CancelByGuest(r) \/ Destroy(r) \/ Move(r)

Next ==
  \/ \E r \in Requests : Arrive(r) \/ Step(r) \/ Abort(r)
  \/ \E l \in Links : EditLink(l)
  \/ \E b \in DOMAIN bookings, row \in {"host", "copy"} : GoogleDeletes(b, row)

Spec == Init /\ [][Next]_vars /\ \A r \in Requests : WF_vars(Step(r))

-------------------------------------------------------------------------------
(* Properties.                                                             *)

\* Nobody books what was booked before, by whatever link, and be it a meeting
\* that its host goes to as the guest of another: the buffers of the later
\* booking are kept, until somebody moves one of the two by hand.
NoDoubleBooking ==
  \A i, j \in DOMAIN bookings :
    i < j /\ bookings[j].up /\ i \in BusyOn(bookings[j].cal)
      /\ ~bookings[i].moved /\ ~bookings[j].moved
      => ClearOf(bookings[j].link, bookings[j].start, i)

\* A member who books again moves the meeting: there is never a second one by
\* the same link.
OneEach ==
  \A l \in Links, u \in Users : \A a, b \in Upcoming(l, u) : a = b

\* The invitation of a member says "booked" for a meeting that is there, and says
\* so whenever there is one, unless Google has deleted one of the two rows of a
\* meeting of theirs, or its host has when the link was renamed or deleted.
InviteTrue ==
  \A l \in Links, u \in Users :
    \/ invite[u][l] = None /\ Upcoming(l, u) = {}
    \/ invite[u][l] \in Upcoming(l, u)
    \/ \E b \in DOMAIN bookings :
         /\ bookings[b].link = l /\ bookings[b].guest = u
         /\ bookings[b].halved \/ bookings[b].unfound

\* The end of a meeting is announced once, however many people call it off at the
\* same time, and to every member.
ToldOnce ==
  \A b \in DOMAIN bookings :
    /\ bookings[b].notices <= 1
    /\ ~bookings[b].up /\ bookings[b].guest \in Users /\ ~bookings[b].halved
         => bookings[b].notices = 1

\* Requests that lock one another's calendars all come to an end.
RequestsFinish == \A r \in Requests : ~At(r, "new") ~> At(r, "done")

\* What of the links and the bookings the promise is about: neither names, notices nor
\* invitations.
LinkView == [l \in Links |-> [cal |-> link[l].cal, active |-> link[l].active]]

MeetingView(x) ==
  [link |-> x.link, guest |-> x.guest, cal |-> x.cal, copy |-> x.copy, start |-> x.start,
   up |-> x.up, copyUp |-> x.copyUp, moved |-> x.moved]

Atomic ==
  INSTANCE Appointments WITH
    link <- LinkView, meetings <- [b \in DOMAIN bookings |-> MeetingView(bookings[b])], Nowhere <- None

\* However the requests wait for one another, each books, calls off or moves as if it
\* were alone and did so in one step: what it has read of the link, of the slot and of
\* the guest's earlier meeting is still so when it commits.
BookingIsAtomic == Atomic!Spec

\* "Lock every diary we will write, in a stable order": what a request replaces is on a
\* calendar that it has locked.  A link that is moved away and back between Peek and
\* LockCalendar escapes this.
EveryDiaryLocked ==
  \A r \in Requests : At(r, "replace") => calLock[bookings[job[r].old].cal] = r

\* "A half-cancelled meeting is worse than none."
NeverHalf ==
  \A b \in DOMAIN bookings : bookings[b].copy # None => bookings[b].up = bookings[b].copyUp

-------------------------------------------------------------------------------
(* Why EveryDiaryLocked and ToldOnce hold.                                 *)

\* No link is ever moved away and back: it is edited once at most, or has one place only.
FewMoves ==
  \/ \A s \in Sessions : s.edits <= 1
  \/ \A l \in Links : \A c, d \in Places[l] : c = d

\* The links are where they may be, and a request knows where its link is, unless that
\* has been edited for the last time.  Under the lock on the link it knows for sure.
LinkKnown ==
  /\ \A l \in Links : link[l].cal \in Places[l]
  /\ edits <= session.edits
  /\ \A r \in Requests :
       /\ job[r].pc \in {"peek", "user", "calendars", "link"}
            => link[job[r].link].cal = job[r].cal \/ edits = 0
       /\ job[r].pc \in {"existing", "replace", "check", "write"}
            => link[job[r].link].cal = job[r].cal

\* Having peeked, a request is about to lock the calendar of what its guest has already:
\* whatever has been booked since is on the calendar of the link.
Wanted ==
  \A r \in Requests :
    /\ job[r].pc \in {"user", "calendars", "link", "existing"} =>
         \/ link[job[r].link].cal # job[r].cal
         \/ job[r].guest \notin Users
         \/ \A b \in Upcoming(job[r].link, job[r].guest) : bookings[b].cal \in job[r].wants
    /\ job[r].pc \in {"replace", "check", "write"} /\ job[r].old # None
         => bookings[job[r].old].cal \in job[r].wants

\* The end of what is there has not been announced, the end of what is not has, and
\* nobody can end what is being replaced.
Announced ==
  /\ ToldOnce
  /\ \A b \in DOMAIN bookings : bookings[b].up \/ bookings[b].copyUp => bookings[b].notices = 0
  /\ \A r \in Requests : job[r].pc \in {"replace", "check", "write"} /\ job[r].old # None
       => calLock[bookings[job[r].old].cal] = r /\ bookings[job[r].old].notices = 0

===============================================================================
