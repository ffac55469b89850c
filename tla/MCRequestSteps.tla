--------------------------- MODULE MCRequestSteps ---------------------------
(* Instances of RequestSteps for TLC. *)
EXTENDS RequestSteps, TLC

\* Users with the same permissions are interchangeable.
Symmetry == Permutations(Users)

\* Only the requests that lock, unlock, undo or comment.
OnlyVerdicts ==
  \A w \in Workers : request[w] = Idle \/ request[w].op \notin {"stop", "extend", "sweep"}
=============================================================================
