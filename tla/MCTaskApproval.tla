---------------------------- MODULE MCTaskApproval ----------------------------
(* Instances of TaskApproval for TLC.                                      *)
EXTENDS TaskApproval

CONSTANTS buyer, lead, admin

\* Two steps, two approvers; the third person is the org-admin when there is one.
MCChain == <<buyer, lead>>

LongChain == <<buyer, lead, admin>>

DraftedBuyer == {buyer}

\* What the task page offers, with nobody reassigning approvers.
PageOps == {"submit", "review", "approve", "reject", "revise", "lock", "unlock", "cancel"}

\* The handlers that move a task along or back while its records stay.
RaceOps ==
  {"submit", "review", "approve", "reject", "revise", "forward", "lock",
   "decide_request", "review_request", "assign_request", "crash"}

ReviewOps == {"submit", "review", "approve"}

===============================================================================
