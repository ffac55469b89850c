--------------------------- MODULE MCBulkActions ---------------------------
(* Instances of BulkActions for TLC. *)
EXTENDS BulkActions, TLC

\* Task ids that are not in use at first may be exchanged.
Symmetry == Permutations(Tasks \ FirstTasks)

VARIABLE restarting   \* whether managers invalidate all and reset all, and do nothing else

MCInit == BulkInit /\ restarting \in BOOLEAN
MCNext == UNCHANGED restarting /\ IF restarting THEN RestartNext ELSE BulkNext
MCSpec == MCInit /\ [][MCNext]_<<restarting, bulkVars>>

\* "Invalidate all" and "reset all" set the counters to fixed numbers while tasks are locked and changed by
\* others: those numbers are what the histories tell, as long as no other bulk action has been used.
CountersAfterRestarts == restarting => CountersExact
=============================================================================
