-------------------------- MODULE MCTaskLifecycle --------------------------
(* Instances of TaskLifecycle and of TwoProjects for TLC. *)
EXTENDS TwoProjects, FiniteSetsExt, TLC

\* Users are interchangeable when all have the same permissions.
Symmetry == Permutations(Users)

CONSTANTS Worked,       \* the tasks worked on where one project is looked at
          ShortRows,    \* bound on the rows of a history where every request may arrive
          SharedRows    \* bound on the rows of all histories of the two projects

VARIABLE part   \* which requests may arrive

\* The requests that lock a task or give it a status, without those that only
\* add rows about a lock or comments: histories can be longer.
VerdictStep ==
  \/ \E u \in Users, away \in SUBSET Tasks : LockSome(u, Worked, away)
  \/ \E u \in Users, t \in Worked :
       \/ \E new \in TaskStatus : UnlockAfterMapping(u, t, new, FALSE)
       \/ StopMapping(u, t, FALSE)
       \/ UndoMapping(u, t)
       \/ \E new \in TaskStatus : UnlockAfterValidation(u, t, new, FALSE)
       \/ StopValidating(u, t, FALSE)

EveryStep ==
  /\ \/ \E u \in Users, away \in SUBSET Tasks : LockSome(u, Worked, away)
     \/ \E u \in Users, t \in Worked : UserStep(u, t)
     \/ \E t \in Worked : AutoUnlockStep(t)
  /\ \A t \in Tasks : Len(tasks'[t].history) <= ShortRows

\* Two projects, whose tasks are locked, mapped and given back: with comments,
\* extensions, undos and other statuses histories of this length are too many.
Histories == {tasks[t].history : t \in Tasks} \cup {otherTasks[t].history : t \in Tasks}
RowsInAll == MapThenSumSet(LAMBDA t : Len(tasks[t].history) + Len(otherTasks[t].history), Tasks)

ProjectsStep ==
  /\ TwoNext
  /\ RowsInAll' <= SharedRows
  /\ \A h \in Histories' : \A i \in DOMAIN h : h[i].action \in LockedStatus \/ h[i].text = "MAPPED"

MCInit == TwoInit /\ part \in {"every", "verdicts", "projects"}

MCNext ==
  /\ UNCHANGED part
  /\ \/ part = "every" /\ EveryStep /\ UNCHANGED <<otherTasks, otherProject>>
     \/ part = "verdicts" /\ VerdictStep /\ UNCHANGED <<otherTasks, otherProject>>
     \/ part = "projects" /\ ProjectsStep

MCSpec == MCInit /\ [][MCNext]_<<part, twoVars>>

=============================================================================
