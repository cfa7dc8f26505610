---------------------------- MODULE MCMeetingDocument ----------------------------
(***************************************************************************)
(* The sessions that TLC explores: one person writing while requests fail, *)
(* and two people writing at the same time.                                *)
(***************************************************************************)
EXTENDS MeetingDocument

Calm == [loading |-> {}, writers |-> {"left"}, edits |-> 1, blurs |-> 0, faults |-> 0,
         late |-> 0, archive |-> FALSE]

Alone ==
  {[Calm EXCEPT !.loading = {"left"}, !.edits = 2],
   [Calm EXCEPT !.loading = {"left"}, !.faults = 1],
   [Calm EXCEPT !.edits = 2, !.faults = 1],
   [Calm EXCEPT !.faults = 2, !.blurs = 1],
   [Calm EXCEPT !.edits = 2, !.archive = TRUE]}

Together ==
  LET both == [Calm EXCEPT !.writers = {"left", "right"}, !.edits = 2]
  IN  {[both EXCEPT !.edits = 3, !.late = 1],
       [both EXCEPT !.faults = 1, !.late = 1],
       [both EXCEPT !.loading = {"right"}]}

AllSessions == Alone \cup Together

===============================================================================
