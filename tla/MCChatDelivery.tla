---------------------------- MODULE MCChatDelivery ----------------------------
(* Instances of ChatDelivery for TLC.                                      *)
EXTENDS ChatDelivery, TLC

\* The workers are interchangeable, and no property of a run is temporal but
\* for one on single steps.
WorkerSymmetry == Permutations(Workers)

===============================================================================
