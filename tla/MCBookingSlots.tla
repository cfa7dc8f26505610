---------------------------- MODULE MCBookingSlots ----------------------------
(***************************************************************************)
(* Two hosts who book each other, and a team calendar that either of their *)
(* links may be moved to.                                                  *)
(***************************************************************************)
EXTENDS BookingSlots

MCDiary == [u \in Users |-> IF u = "ann" THEN 1 ELSE 2]

MCHost == [l \in Links |-> IF l = "meetAnn" THEN "ann" ELSE "bob"]

MCPlaces == [l \in Links |-> IF l = "meetAnn" THEN {1, 3} ELSE {2}]

MCRules == [l \in Links |-> [duration |-> IF l = "meetAnn" THEN 2 ELSE 1, before |-> 0, after |-> 0]]

Plan(a, b, c) == [r \in Requests |-> IF r = 1 THEN a ELSE IF r = 2 THEN b ELSE c]

End == {"cancel", "delete", "move"}

MCSessions ==
  {[plan |-> Plan({"book"}, {"book"}, {"book"}), guests |-> Users, edits |-> 0, faults |-> 0],
   [plan |-> Plan({"book"}, {"book"}, {"cancel"}), guests |-> Users, edits |-> 1, faults |-> 0],
   [plan |-> Plan({"book"}, {"book"}, End), guests |-> Users, edits |-> 0, faults |-> 1],
   [plan |-> Plan({"book"}, End, End), guests |-> Guests, edits |-> 1, faults |-> 0]}

\* A link is moved to the other calendar and back.
MCMovedBack ==
  {[plan |-> Plan({"book"}, {"book"}, {}), guests |-> Users, edits |-> 2, faults |-> 0]}

===============================================================================
