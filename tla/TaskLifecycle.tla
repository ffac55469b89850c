--------------------------- MODULE TaskLifecycle ---------------------------
(***************************************************************************)
(* The life of the tasks of one project: locking, mapping, validating,     *)
(* undoing, commenting, extending and the automatic release of locks       *)
(* (mapping_service.py, validator_service.py, stats_service.py).  Here a   *)
(* request runs to its end before the next one begins.                     *)
(*                                                                         *)
(* The users permitted to map or to validate (is_user_permitted_to_map,    *)
(* is_user_permitted_to_validate) and the administrators are constants.    *)
(*                                                                         *)
(* Tasks of several projects have the same ids.  The locks of a user are   *)
(* looked up in all projects, and only by id: the operations that lock     *)
(* have the ids of the tasks held in other projects as parameter "away".   *)
(***************************************************************************)
EXTENDS Task

CONSTANTS Tasks,
          Mappers, Validators, Admins,   \* subsets of Users
          Admitted,                      \* not blocked, licence accepted, project published
          Comments,                      \* whether requests carry a comment
          MaxRows                        \* bound on the rows of a history

ASSUME PermissionAssumption ==
  /\ Mappers \subseteq Users
  /\ Admitted \subseteq Users
  /\ Validators \subseteq Admitted
  /\ Admins \subseteq Users
  /\ Comments \subseteq BOOLEAN
  /\ MaxRows \in Nat
ASSUME TasksAssumption == IsFiniteSet(Tasks)

VARIABLES
  tasks,      \* the rows of table tasks, with their history
  project,    \* projects.tasks_mapped, tasks_validated and tasks_bad_imagery
  tally       \* users.tasks_mapped, tasks_validated and tasks_invalidated

vars == <<tasks, project, tally>>

Counted == {"MAPPED", "VALIDATED", "BADIMAGERY"}
Tallied == {"MAPPED", "VALIDATED", "INVALIDATED"}

TypeOK ==
  /\ tasks \in [Tasks -> TaskRecord]
  /\ project \in [Counted -> Int]
  /\ tally \in [Users -> [Tallied -> Int]]

Init ==
  /\ tasks = [t \in Tasks |-> NewTask]
  /\ project = [s \in Counted |-> 0]
  /\ tally = [u \in Users |-> [s \in Tallied |-> 0]]

\* The ids that get_locked_tasks_for_user finds in this project.
LockedTasksForUser(u) == {t \in Tasks : tasks[t].locked_by = u}

\* The exploration bound: t has room for n more rows of history.
Room(t, n) == Len(tasks[t].history) + n <= MaxRows

-----------------------------------------------------------------------------
(* StatsService *)

One(b) == IF b THEN 1 ELSE 0

\* Variant: the new status is counted, the old one is not given up.
RecountGained(counters, last, new) ==
  [s \in Counted |-> counters[s] + One(s = new)]

\* _update_tasks_stats on the project's counters.
Recount(counters, last, new) ==
  [s \in Counted |-> counters[s] + One(s = new) - One(s = last)]

\* _update_tasks_stats on the user's counters: "change" adds, "undo" takes.
Credit(credits, last, new, action) ==
  IF new = last THEN credits
  ELSE [s \in Tallied |-> credits[s] + One(action = "change" /\ s = new)
                                     - One(action = "undo" /\ s = last)]

UpdateStats(u, last, new, action) ==
  /\ project' = Recount(project, last, new)
  /\ tally' = [tally EXCEPT ![u] = Credit(@, last, new, action)]

-----------------------------------------------------------------------------
(* MappingService *)

\* is_user_permitted_to_map.
PermittedToMap(u, away) == u \in Mappers /\ LockedTasksForUser(u) \cup away = {}

\* A user who holds the lock, whichever lock it is, passes every check.
LockForMapping(u, t, away) ==
  /\ tasks[t].locked_by # u =>
       /\ IsMappable(tasks[t])
       /\ PermittedToMap(u, away)
  /\ Room(t, 1)
  /\ tasks' = [tasks EXCEPT ![t] = LockTask(@, "LOCKED_FOR_MAPPING", u)]
  /\ UNCHANGED <<project, tally>>

LockedForMappingBy(u, t) ==
  tasks[t].status = "LOCKED_FOR_MAPPING" /\ tasks[t].locked_by = u

UnlockAfterMapping(u, t, new, comment) ==
  /\ LockedForMappingBy(u, t)
  /\ new \in {"MAPPED", "BADIMAGERY", "READY"}
  /\ Room(t, 1 + One(comment))
  /\ UpdateStats(u, GetLastStatus(tasks[t].history), new, "change")
  /\ tasks' = [tasks EXCEPT ![t] = UnlockTask(@, u, new, comment, FALSE)]

StopMapping(u, t, comment) ==
  /\ LockedForMappingBy(u, t)
  /\ Room(t, One(comment))
  /\ tasks' = [tasks EXCEPT ![t] = ResetLock(@, u, comment)]
  /\ UNCHANGED <<project, tally>>

AddTaskComment(u, t) ==
  /\ Room(t, 1)
  /\ tasks' = [tasks EXCEPT ![t] = Commented(@, u, TRUE)]
  /\ UNCHANGED <<project, tally>>

\* is_user_permitted_to_validate returns the pair (permitted, reason), and
\* _is_task_undoable tests the pair itself: a pair is never false.
PermittedToValidate(u) == <<u \in Validators, "reason">>
IsTrue(pair) == Len(pair) > 0

IsTaskUndoable(u, t) ==
  /\ tasks[t].status \notin LockedStatus \cup {"READY"}
  /\ \/ GetLastAction(tasks[t].history).user = u
     \/ IsTrue(PermittedToValidate(u))

\* The counters taken back are those of the user of the last action.
UndoMapping(u, t) ==
  LET h == tasks[t].history IN
  /\ IsTaskUndoable(u, t)
  /\ Room(t, 2)
  /\ UpdateStats(GetLastAction(h).user, tasks[t].status, GetUndoStatus(h), "undo")
  /\ tasks' = [tasks EXCEPT ![t] = UnlockTask(@, u, GetUndoStatus(h), TRUE, TRUE)]

\* Every task of a request is checked first; each is then extended and
\* committed alone, as a request for that task alone would be.
ExtendTaskLockTime(u, t) ==
  /\ IsLocked(tasks[t])
  /\ tasks[t].locked_by = u
  /\ Room(t, 1)
  /\ tasks' = [tasks EXCEPT ![t] = ExtendLock(@, u)]
  /\ UNCHANGED <<project, tally>>

-----------------------------------------------------------------------------
(* ValidatorService *)

\* Variant: the mapper is not compared.
AnyoneCanValidateTask(u, mapped_by) == TRUE

UserCanValidateTask(u, mapped_by) == u \in Admins \/ mapped_by # u

\* Variant: whoever holds a task may validate others.
MayLockAnyMore(u, requested, away) == u \in Validators

\* That the user holds locks is found before his team and his level are looked
\* at, and forgiven if the ids held are those asked for, of whatever project.
MayLockForValidation(u, requested, away) ==
  LET held == LockedTasksForUser(u) \cup away IN
  IF held = {} THEN u \in Validators ELSE u \in Admitted /\ held = requested

LockTasksForValidation(u, requested, away) ==
  /\ \A t \in requested :
       \/ tasks[t].locked_by = u /\ tasks[t].status = "LOCKED_FOR_VALIDATION"
       \/ /\ tasks[t].status \in {"MAPPED", "INVALIDATED", "BADIMAGERY"}
          /\ UserCanValidateTask(u, tasks[t].mapped_by)
  /\ MayLockForValidation(u, requested, away)
  /\ \A t \in requested : Room(t, 1)
  /\ tasks' = [t \in Tasks |-> IF t \in requested
                               THEN LockTask(tasks[t], "LOCKED_FOR_VALIDATION", u)
                               ELSE tasks[t]]
  /\ UNCHANGED <<project, tally>>

LockedForValidationBy(u, t) ==
  tasks[t].status = "LOCKED_FOR_VALIDATION" /\ tasks[t].locked_by = u

\* One iteration of unlock_tasks_after_validation; each commits its task.
\* Announcing the verdict to a mapper who is not on record raises NotFound,
\* which abandons this task and those after it in the request.
UnlockAfterValidation(u, t, new, comment) ==
  LET last == GetLastStatus(tasks[t].history) IN
  /\ LockedForValidationBy(u, t)
  /\ new \in {"MAPPED", "INVALIDATED", "VALIDATED"}
  /\ new \in {"INVALIDATED", "VALIDATED"} => tasks[t].mapped_by # NoUser
  /\ Room(t, 1 + One(comment))
  /\ UpdateStats(u, last, new, "change")
  /\ tasks' = [tasks EXCEPT ![t] = UnlockTask(@, u, new, comment, FALSE)]

StopValidating(u, t, comment) ==
  /\ LockedForValidationBy(u, t)
  /\ Room(t, One(comment))
  /\ tasks' = [tasks EXCEPT ![t] = ResetLock(@, u, comment)]
  /\ UNCHANGED <<project, tally>>

-----------------------------------------------------------------------------
\* One iteration of auto_unlock_tasks.  A history is in order of date, so the
\* rows older than the expiry date are the first k, for some k.
AutoUnlockTask(t, k) ==
  /\ IsLocked(tasks[t])
  /\ \E i \in OpenLockRows(tasks[t].history) : i <= k
  /\ tasks' = [tasks EXCEPT ![t] = AutoUnlock(@, k)]
  /\ UNCHANGED <<project, tally>>

\* The requests that lock some of the tasks "among".
LockSome(u, among, away) ==
  \/ \E t \in among : LockForMapping(u, t, away)
  \/ \E requested \in (SUBSET among) \ {{}} : LockTasksForValidation(u, requested, away)

UserStep(u, t) ==
  \/ \E new \in TaskStatus, comment \in Comments :
       UnlockAfterMapping(u, t, new, comment)
  \/ \E comment \in Comments : StopMapping(u, t, comment)
  \/ AddTaskComment(u, t)
  \/ UndoMapping(u, t)
  \/ ExtendTaskLockTime(u, t)
  \/ \E new \in TaskStatus, comment \in Comments :
       UnlockAfterValidation(u, t, new, comment)
  \/ \E comment \in Comments : StopValidating(u, t, comment)

AutoUnlockStep(t) == \E k \in DOMAIN tasks[t].history : AutoUnlockTask(t, k)

\* What a user holds in other projects is anything.  (An id this project does
\* not have is none of those asked for, and refused like one of another task.)
Next ==
  \/ \E u \in Users, away \in SUBSET Tasks : LockSome(u, Tasks, away)
  \/ \E u \in Users, t \in Tasks : UserStep(u, t)
  \/ \E t \in Tasks : AutoUnlockStep(t)

Spec == Init /\ [][Next]_vars

-----------------------------------------------------------------------------
(* Safety *)

\* A task nobody holds is in the status its last STATE_CHANGE row names, so
\* releasing a lock (clear_lock) puts a task back where it was.
StatusOnRecord ==
  \A t \in Tasks : IsLocked(tasks[t]) \/ tasks[t].status = GetLastStatus(tasks[t].history)

\* A task is locked exactly when it has a holder, and then the newest of its
\* LOCKED and AUTO_UNLOCKED rows is the holder's, for the lock that is held:
\* what record_auto_unlock and auto_unlock_expired_tasks take for granted.
LockOnRecord ==
  \A t \in Tasks :
    LET h == tasks[t].history
        i == LastLockedOrAutoUnlocked(h)
    IN  IF IsLocked(tasks[t])
        THEN /\ tasks[t].locked_by # NoUser
             /\ RowsOf(h, LockedStatus \cup AutoActions) # {}
             /\ h[i].action = tasks[t].status
             /\ h[i].user = tasks[t].locked_by
        ELSE tasks[t].locked_by = NoUser

\* A locked task keeps an open row no older than its lock: auto_unlock_tasks
\* finds tasks by such rows, and a lock without one would never be released.
LockIsReapable ==
  \A t \in Tasks : IsLocked(tasks[t]) =>
    \E i \in OpenLockRows(tasks[t].history) : i >= LastLocked(tasks[t].history)

\* The project's counters "reflect the actual state": each is the number of
\* tasks whose last recorded status it counts, locked or not.
CountersExact ==
  \A s \in Counted :
    project[s] = Cardinality({t \in Tasks : GetLastStatus(tasks[t].history) = s})

\* A task has one pending invalidation at most (get_open_for_task fails on
\* two), has one while its last status is INVALIDATED, none once VALIDATED.
InvalidationPending ==
  \A t \in Tasks :
    LET pending == Cardinality(OpenEntries(tasks[t].invalidations))
        last == GetLastStatus(tasks[t].history)
    IN  /\ pending <= 1
        /\ last = "INVALIDATED" => pending = 1
        /\ last = "VALIDATED" => pending = 0

\* Nobody but an administrator is the validator of a task recorded as mapped
\* by the same user, whatever undos and re-locks led there.
NoSelfValidation ==
  \A t \in Tasks : tasks[t].status = "VALIDATED" =>
    \/ tasks[t].validated_by # tasks[t].mapped_by
    \/ tasks[t].validated_by \in Admins

\* The validator of a validated task is the user of its last STATE_CHANGE row.
ValidatorOnRecord ==
  \A t \in Tasks : tasks[t].status = "VALIDATED" =>
    tasks[t].validated_by = tasks[t].history[Max(Changes(tasks[t].history))].user

\* No step removes or rewrites a STATE_CHANGE or COMMENT row; undo and
\* clear_lock compute statuses from them.
RecordsKept ==
  [][\A t \in Tasks : \A i \in RowsOf(tasks[t].history, {"STATE_CHANGE", "COMMENT"}) :
       /\ i \in DOMAIN tasks[t].history'
       /\ tasks[t].history'[i] = tasks[t].history[i]]_vars
=============================================================================
