---------------------------- MODULE TwoProjects ----------------------------
(***************************************************************************)
(* Two projects with the same users, whose tasks have the same ids.  Each  *)
(* is a TaskLifecycle; the locks a user holds in one are "away" in the     *)
(* other.                                                                  *)
(***************************************************************************)
EXTENDS TaskLifecycle

CONSTANTS OtherMappers, OtherValidators, OtherAdmitted   \* of the other project

ASSUME OtherPermissionAssumption ==
  /\ OtherMappers \subseteq Users
  /\ OtherAdmitted \subseteq Users
  /\ OtherValidators \subseteq OtherAdmitted

VARIABLES otherTasks, otherProject   \* tasks and project of the other project

twoVars == <<tasks, project, tally, otherTasks, otherProject>>

Other == INSTANCE TaskLifecycle WITH
  tasks <- otherTasks, project <- otherProject, Mappers <- OtherMappers,
  Validators <- OtherValidators, Admitted <- OtherAdmitted

TwoInit == Init /\ Other!Init

HereStep ==
  /\ \/ \E u \in Users : LockSome(u, Tasks, Other!LockedTasksForUser(u))
     \/ \E u \in Users, t \in Tasks : UserStep(u, t)
     \/ \E t \in Tasks : AutoUnlockStep(t)
  /\ UNCHANGED <<otherTasks, otherProject>>

OtherStep ==
  /\ \/ \E u \in Users : Other!LockSome(u, Tasks, LockedTasksForUser(u))
     \/ \E u \in Users, t \in Tasks : Other!UserStep(u, t)
     \/ \E t \in Tasks : Other!AutoUnlockStep(t)
  /\ UNCHANGED <<tasks, project>>

TwoNext == HereStep \/ OtherStep

TwoSpec == TwoInit /\ [][TwoNext]_twoVars

-----------------------------------------------------------------------------
\* Each <<id, which project>> of a task that u holds.
Holds(u) == (LockedTasksForUser(u) \X {"this"}) \cup (Other!LockedTasksForUser(u) \X {"other"})

\* get_locked_tasks_for_user: "Gets tasks on project owned by specified user id";
\* lock_tasks_for_validation: "User already has a task locked".  A user who holds
\* a task acquires no other, of either project.
NoSecondLock == [][\A u \in Users : Holds(u) # {} => Holds(u)' \subseteq Holds(u)]_twoVars

HeldIds(u) == LockedTasksForUser(u) \cup Other!LockedTasksForUser(u)

\* What the comparison of ids does achieve, whichever road of whichever project a user takes and whatever is
\* split over the two: while he holds a lock, the ids he holds do not become more.
NoNewIds == [][\A u \in Users : HeldIds(u) # {} => HeldIds(u)' \subseteq HeldIds(u)]_twoVars
=============================================================================
