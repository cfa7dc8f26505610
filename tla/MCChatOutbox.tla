---------------------------- MODULE MCChatOutbox ----------------------------
(***************************************************************************)
(* The sessions that TLC explores: one tab whose requests get lost while   *)
(* the page is loaded again or the user signs out, or whose tokens expire, *)
(* and two tabs that share the storage of the browser.                     *)
(***************************************************************************)
EXTENDS ChatOutbox

Quiet == [tabs |-> {"one"}, first |-> "ann", habits |-> {}, messages |-> 1,
          faults |-> 0, turns |-> 0]

Away == {[Quiet EXCEPT !.habits = {"look"}, !.faults = 2]}

OneTab ==
  Away \cup
  {[Quiet EXCEPT !.habits = {"look", "reload"}, !.faults = 1, !.turns = 1],
   [Quiet EXCEPT !.habits = {"reload"}, !.messages = 2, !.turns = 1],
   [Quiet EXCEPT !.habits = {"signOut", "signIn"}, !.faults = 1, !.turns = 1],
   [Quiet EXCEPT !.habits = {"signOut", "signIn"}, !.messages = 2, !.turns = 1],
   [Quiet EXCEPT !.habits = {"evicted", "signIn"}, !.faults = 1, !.turns = 2],
   [Quiet EXCEPT !.habits = {"expires", "signOut", "signIn"}, !.faults = 1, !.turns = 1],
   [Quiet EXCEPT !.habits = {"expires"}, !.faults = 2],
   [Quiet EXCEPT !.habits = {"expires", "reload"}, !.faults = 1, !.turns = 1]}

TwoTabs ==
  LET two == [Quiet EXCEPT !.tabs = {"one", "two"}, !.turns = 1]
  IN  {[two EXCEPT !.habits = {"touch", "reload"}],
       [two EXCEPT !.habits = {"stale", "signOut", "signIn"}]}

AllSessions == OneTab \cup TwoTabs

===============================================================================
