---------------------------- MODULE BulkActions ----------------------------
(***************************************************************************)
(* What managers do to the tasks of a project at once - map, validate,     *)
(* invalidate or reset all of them, delete some - and the split of a task, *)
(* interleaved with the work of TaskLifecycle on single tasks.             *)
(***************************************************************************)
EXTENDS TaskLifecycle

CONSTANTS Managers,     \* users permitted to manage the project
          FirstTasks,   \* the tasks the project is created with
          Parts         \* how many tasks a split makes (4 in the code)

ASSUME ManagersAssumption == Managers \subseteq Users
ASSUME FirstTasksAssumption == FirstTasks \subseteq Tasks
ASSUME PartsAssumption == Parts \in Nat \ {0}

VARIABLES
  live,     \* the tasks that exist; Tasks \ live are ids not in use
  total     \* projects.total_tasks

bulkVars == <<tasks, project, tally, live, total>>

BulkTypeOK == TypeOK /\ live \subseteq Tasks /\ total \in Int

BulkInit ==
  /\ Init
  /\ live = FirstTasks
  /\ total = Cardinality(FirstTasks)

InStatus(statuses) == {t \in live : tasks[t].status \in statuses}

-----------------------------------------------------------------------------
\* "Only lock tasks that are not already locked to avoid double lock issue."
LockUnlessLocked(task, status, u) ==
  IF IsLocked(task) THEN task ELSE LockTask(task, status, u)

\* Every task of "selected" is locked and unlocked again in the new status.
PassThrough(selected, lock, new, u) ==
  /\ \A t \in selected : Room(t, 2)
  /\ tasks' = [t \in Tasks |->
       IF t \in selected
       THEN UnlockTask(LockUnlessLocked(tasks[t], lock, u), u, new, FALSE, FALSE)
       ELSE tasks[t]]
  /\ UNCHANGED <<tally, live, total>>

\* Locked tasks are in none of the three statuses, and are mapped as well.
MapAllTasks(u) ==
  /\ PassThrough(live \ InStatus({"BADIMAGERY", "MAPPED", "VALIDATED"}),
                 "LOCKED_FOR_MAPPING", "MAPPED", u)
  /\ project' = [project EXCEPT !["MAPPED"] =
                   total - project["BADIMAGERY"] - project["VALIDATED"]]

ResetAllBadImagery(u) ==
  /\ PassThrough(InStatus({"BADIMAGERY"}), "LOCKED_FOR_MAPPING", "READY", u)
  /\ project' = [project EXCEPT !["BADIMAGERY"] = 0]

\* Variant: the counter is not reset.
InvalidateAllUncounted(u) ==
  /\ PassThrough(InStatus({"VALIDATED"}), "LOCKED_FOR_VALIDATION", "INVALIDATED", u)
  /\ UNCHANGED project

InvalidateAllTasks(u) ==
  /\ PassThrough(InStatus({"VALIDATED"}), "LOCKED_FOR_VALIDATION", "INVALIDATED", u)
  /\ project' = [project EXCEPT !["VALIDATED"] = 0]

ValidateAllTasks(u) ==
  LET mapped(t) == [tasks[t] EXCEPT !.mapped_by = IF @ = NoUser THEN u ELSE @]
      selected == InStatus({"MAPPED"})
  IN  /\ \A t \in selected : Room(t, 2)
      /\ tasks' = [t \in Tasks |->
           IF t \in selected
           THEN UnlockTask(LockTask(mapped(t), "LOCKED_FOR_VALIDATION", u),
                           u, "VALIDATED", FALSE, FALSE)
           ELSE tasks[t]]
      /\ project' = [project EXCEPT !["VALIDATED"] = @ + project["MAPPED"],
                                    !["MAPPED"] = 0]
      /\ UNCHANGED <<tally, live, total>>

-----------------------------------------------------------------------------
\* clear_task_lock: the newest LOCKED row is deleted.
ClearTaskLock(task) ==
  ClearLock([task EXCEPT !.history[LastLocked(task.history)] = Deleted])

AutoAction(action) ==
  IF action = "LOCKED_FOR_MAPPING" THEN "AUTO_UNLOCKED_FOR_MAPPING"
  ELSE "AUTO_UNLOCKED_FOR_VALIDATION"

RecordAutoUnlock(task) ==
  LET row == [action |-> AutoAction(task.history[LastLocked(task.history)].action),
              text |-> "closed", user |-> task.locked_by]
  IN  [ClearTaskLock(task) EXCEPT !.history = Append(@, row)]

\* Variant: the lock is recorded as released, its holder stays on the task.
ResetTaskKeepHolder(task, u) ==
  LET noted == Commented(task, u, TRUE)
      released == IF IsLocked(task) THEN RecordAutoUnlock(noted) ELSE noted
  IN  [released EXCEPT !.history = Append(@, StateChangeRow("READY", u)),
                       !.status = "READY", !.locked_by = task.locked_by,
                       !.mapped_by = NoUser, !.validated_by = NoUser]

\* "Task reset" is a comment; pending invalidations are left as they are.
ResetTask(task, u) ==
  LET noted == Commented(task, u, TRUE)
      released == IF IsLocked(task) THEN RecordAutoUnlock(noted) ELSE noted
  IN  [released EXCEPT !.history = Append(@, StateChangeRow("READY", u)),
                       !.status = "READY", !.locked_by = NoUser,
                       !.mapped_by = NoUser, !.validated_by = NoUser]

ResetAllTasks(u) ==
  LET selected == live \ InStatus({"READY"}) IN
  /\ \A t \in selected : Room(t, 3)
  /\ tasks' = [t \in Tasks |-> IF t \in selected THEN ResetTask(tasks[t], u) ELSE tasks[t]]
  /\ project' = [s \in Counted |-> 0]
  /\ UNCHANGED <<tally, live, total>>

-----------------------------------------------------------------------------
\* A part of a split task: the rows are copied, the copied lock is cleared.
PartOf(task, u) ==
  LET copy == ClearTaskLock([NewTask EXCEPT !.history = task.history])
      split == Append(copy.history, StateChangeRow("SPLIT", u))
  IN  [copy EXCEPT !.status = "READY",
                   !.history = Append(split, StateChangeRow("READY", u))]

SplitTask(u, t) ==
  /\ LockedForMappingBy(u, t)
  /\ Room(t, 2)
  /\ \E parts \in SUBSET (Tasks \ live) :
       /\ Cardinality(parts) = Parts
       /\ live' = (live \ {t}) \cup parts
       /\ tasks' = [x \in Tasks |-> IF x \in parts THEN PartOf(tasks[t], u)
                                    ELSE IF x = t THEN NewTask ELSE tasks[x]]
  /\ total' = Cardinality(live')
  /\ project' = [project EXCEPT !["BADIMAGERY"] =
                   Cardinality({x \in live' : tasks'[x].status = "BADIMAGERY"})]
  /\ UNCHANGED tally

\* One of the tasks of a request; the counters are left alone.
DeleteTask(u, t) ==
  /\ u \in Admins
  /\ live' = live \ {t}
  /\ tasks' = [tasks EXCEPT ![t] = NewTask]
  /\ UNCHANGED <<project, tally, total>>

-----------------------------------------------------------------------------
SingleTaskStep ==
  /\ \/ \E u \in Users, away \in SUBSET live : LockSome(u, live, away)
     \/ \E u \in Users, t \in live : UserStep(u, t)
     \/ \E t \in live : AutoUnlockStep(t)
  /\ UNCHANGED <<live, total>>

MapAllStep == \E u \in Managers : MapAllTasks(u)
ValidateAllStep == \E u \in Managers : ValidateAllTasks(u)
ResetBadImageryStep == \E u \in Managers : ResetAllBadImagery(u)
InvalidateAllStep == \E u \in Managers : InvalidateAllTasks(u)
ResetAllStep == \E u \in Managers : ResetAllTasks(u)
SplitStep == \E u \in Users, t \in live : SplitTask(u, t)
DeleteStep == \E u \in Users, t \in live : DeleteTask(u, t)

BulkNext ==
  \/ SingleTaskStep
  \/ MapAllStep
  \/ ValidateAllStep
  \/ ResetBadImageryStep
  \/ InvalidateAllStep
  \/ ResetAllStep
  \/ SplitStep
  \/ DeleteStep

BulkSpec == BulkInit /\ [][BulkNext]_bulkVars

\* The bulk actions that set the counters without looking at other statuses
\* than the ones they change.
RestartNext == SingleTaskStep \/ InvalidateAllStep \/ ResetAllStep
RestartSpec == BulkInit /\ [][RestartNext]_bulkVars

\* The bulk actions work on statuses they do not lock, and a split copies rows to new tasks: still every
\* task, a part included, is in the status and with the holder that its own rows tell (clear_lock,
\* auto_unlock_tasks and undo read them).
BulkInv == BulkTypeOK /\ StatusOnRecord /\ LockOnRecord
=============================================================================
