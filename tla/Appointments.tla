----------------------------- MODULE Appointments -----------------------------
(***************************************************************************)
(* What booking links promise, with no requests, transactions and locks in *)
(* sight: whoever books, books in one step, on the link as it is and into  *)
(* a slot that is free, and a member who books again moves the meeting.    *)
(* BookingSlots shows that the requests of the code keep this promise      *)
(* however they wait for one another.                                      *)
(***************************************************************************)
EXTENDS Integers, Sequences

CONSTANTS
  Users, Visitor, Diary,        \* the guests, and the calendar of each member
  Links, Host, Places, Rules,   \* as in BookingSlots
  Times,                        \* when meetings may start
  Nowhere                       \* no calendar

VARIABLES
  link,      \* link[l]: the calendar of l, and whether it can be booked
  meetings   \* in the order in which they were booked

appointments == <<link, meetings>>

Init ==
  /\ \E place \in [Links -> UNION {Places[l] : l \in Links}] :
       /\ \A l \in Links : place[l] \in Places[l]
       /\ link = [l \in Links |-> [cal |-> place[l], active |-> TRUE]]
  /\ meetings = <<>>

-------------------------------------------------------------------------------

\* The meetings that take time on calendar c, of the host or of the guest.
On(c) ==
  {b \in DOMAIN meetings :
     \/ meetings[b].up /\ meetings[b].cal = c
     \/ meetings[b].copyUp /\ meetings[b].copy = c}

\* A meeting by link l at time s keeps its buffers from meeting b.
Clear(l, s, b) ==
  \/ meetings[b].start + Rules[meetings[b].link].duration + Rules[l].before <= s
  \/ s + Rules[l].duration + Rules[l].after <= meetings[b].start

\* The meetings of member u by link l.
Of(l, u) == {b \in DOMAIN meetings : u # Visitor /\ meetings[b].link = l /\ meetings[b].guest = u}

\* Both rows of the meetings in S are ended.
Ended(S) ==
  [b \in DOMAIN meetings |->
     IF b \in S THEN [meetings[b] EXCEPT !.up = FALSE, !.copyUp = FALSE] ELSE meetings[b]]

\* A member who does not host the meeting has it on the own diary as well.
Meeting(l, g, s) ==
  LET copied == g \in Users /\ g # Host[l] /\ Diary[g] # link[l].cal
  IN  [link |-> l, guest |-> g, cal |-> link[l].cal, copy |-> IF copied THEN Diary[g] ELSE Nowhere,
       start |-> s, up |-> TRUE, copyUp |-> copied, moved |-> FALSE]

\* Guest g books link l at s.  The link is open, the guest is not its host, and nothing
\* but what somebody has dragged there is in the way, on the calendar that the link
\* has now.  What the guest has by this link already ends in the same step.
Book(l, g, s) ==
  /\ link[l].active
  /\ g # Host[l]
  /\ \E over \in SUBSET Of(l, g) :
       /\ \A b \in Of(l, g) : meetings[b].up => b \in over
       /\ \A b \in On(link[l].cal) \ over : meetings[b].moved \/ Clear(l, s, b)
       /\ meetings' = Append(Ended(over), Meeting(l, g, s))
  /\ UNCHANGED link

\* A meeting that is there is called off, for both.
CallOff(b) ==
  /\ meetings[b].up \/ meetings[b].copyUp
  /\ meetings' = Ended({b})
  /\ UNCHANGED link

\* A meeting that is there is dragged to another time, wherever that is.
Drag(b, s) ==
  /\ meetings[b].up \/ meetings[b].copyUp
  /\ meetings' = [meetings EXCEPT ![b].start = s, ![b].moved = TRUE]
  /\ UNCHANGED link

\* One row of a meeting is deleted in Google.
Halve(b) ==
  /\ \/ meetings[b].up /\ meetings' = [meetings EXCEPT ![b].up = FALSE]
     \/ meetings[b].copyUp /\ meetings' = [meetings EXCEPT ![b].copyUp = FALSE]
  /\ UNCHANGED link

\* The host opens, closes or moves the link.
Change(l) ==
  /\ \E c \in Places[l], open \in BOOLEAN :
       link' = [link EXCEPT ![l] = [cal |-> c, active |-> open]]
  /\ UNCHANGED meetings

Next ==
  \/ \E l \in Links, g \in Users \cup {Visitor}, s \in Times : Book(l, g, s)
  \/ \E b \in DOMAIN meetings : CallOff(b) \/ Halve(b) \/ \E s \in Times : Drag(b, s)
  \/ \E l \in Links : Change(l)

Spec == Init /\ [][Next]_appointments

===============================================================================
