---------------------------- MODULE MCSheetCollab ----------------------------
(***************************************************************************)
(* The sessions that TLC explores.  Each lets this user do one or two      *)
(* kinds of things while one kind of event happens around them, so that    *)
(* every pair that can interfere is there and no instance is too large.    *)
(***************************************************************************)
EXTENDS SheetCollab

Quiet == [habits |-> {}, kinds |-> {}, rev |-> 0, clock |-> 0, edits |-> 1, clears |-> FALSE,
          faults |-> 0]

\* An edit in an editor, while other users insert rows and requests or broadcasts fail.
Typing ==
  LET typing == [Quiet EXCEPT !.habits = {"edit"}, !.kinds = {"insert"}, !.rev = 1]
  IN  {[typing EXCEPT !.habits = @ \cup {"scroll"}], [typing EXCEPT !.faults = 1]}

\* Edits that need no editor, undone, or met by rows and values of other users.
Pasting ==
  LET pasting == [Quiet EXCEPT !.habits = {"paste"}]
      moving  == [pasting EXCEPT !.habits = @ \cup {"structure"}, !.kinds = {"sort"}, !.rev = 1]
  IN  {[pasting EXCEPT !.habits = @ \cup {"undo"}, !.kinds = {"insert"}, !.rev = 1, !.edits = 2],
       [pasting EXCEPT !.kinds = {"delete"}, !.rev = 1, !.clock = 1],
       moving, [moving EXCEPT !.habits = {"structure"}, !.faults = 1]}

\* Cells cleared on either side, with failures or with two edits.
Clearing ==
  LET clearing == [Quiet EXCEPT !.habits = {"paste"}, !.clock = 1, !.clears = TRUE]
  IN  {[clearing EXCEPT !.edits = 2], [clearing EXCEPT !.faults = 1],
       [clearing EXCEPT !.habits = {"formula"}]}

FormulaBar ==
  LET formula == [Quiet EXCEPT !.habits = {"formula"}]
  IN  {[formula EXCEPT !.kinds = {"sort"}, !.rev = 1, !.faults = 1],
       [formula EXCEPT !.habits = @ \cup {"paste"}, !.edits = 2]}

AllSessions == Typing \cup Pasting \cup Clearing \cup FormulaBar

===============================================================================
