-------------------------------- MODULE Task --------------------------------
(***************************************************************************)
(* One task of a project and the operations of classes Task and            *)
(* TaskInvalidationHistory (backend/models/postgis/task.py), each as a     *)
(* function from the task to the task it leaves.  The services decide when *)
(* an operation runs; see TaskLifecycle.                                   *)
(***************************************************************************)
EXTENDS TaskHistory

UserOrNone == Users \cup {NoUser}

\* A row of task_invalidation_history.
InvalidationEntry ==
  [mapper: UserOrNone, invalidator: UserOrNone, validator: UserOrNone,
   is_closed: BOOLEAN]

TaskRecord ==
  [status: TaskStatus, locked_by: UserOrNone, mapped_by: UserOrNone,
   validated_by: UserOrNone, history: Seq(Row),
   invalidations: Seq(InvalidationEntry)]

NewTask ==
  [status |-> "READY", locked_by |-> NoUser, mapped_by |-> NoUser,
   validated_by |-> NoUser, history |-> <<>>, invalidations |-> <<>>]

IsLocked(task) == task.status \in LockedStatus
IsMappable(task) == task.status \in {"READY", "INVALIDATED"}

-----------------------------------------------------------------------------
(* TaskInvalidationHistory *)

OpenEntries(entries) == {i \in DOMAIN entries : ~entries[i].is_closed}

CloseAllForTask(entries) ==
  [i \in DOMAIN entries |-> [entries[i] EXCEPT !.is_closed = TRUE]]

\* Variant: pending entries are left open.
RecordSecondInvalidation(entries, h, u) ==
  Append(entries, [mapper |-> GetLastMappedAction(h).user, invalidator |-> u,
                   validator |-> NoUser, is_closed |-> FALSE])

RecordInvalidation(entries, h, u) ==
  IF MappedRows(h) = {} THEN CloseAllForTask(entries)
  ELSE Append(CloseAllForTask(entries),
              [mapper |-> GetLastMappedAction(h).user, invalidator |-> u,
               validator |-> NoUser, is_closed |-> FALSE])

RecordValidation(entries, h, u) ==
  [i \in DOMAIN entries |->
     IF entries[i].is_closed THEN entries[i]
     ELSE [entries[i] EXCEPT !.mapper = GetLastMappedAction(h).user,
                             !.validator = u, !.is_closed = TRUE]]

-----------------------------------------------------------------------------
(* Task *)

\* lock_task_for_mapping (status LOCKED_FOR_MAPPING) and
\* lock_task_for_validating (LOCKED_FOR_VALIDATION).
LockTask(task, status, u) ==
  [task EXCEPT !.history = Append(@, LockRow(status, u)),
               !.status = status, !.locked_by = u]

\* Variant: the task is made READY, not put back.
ClearLockToReady(task) == [task EXCEPT !.status = "READY", !.locked_by = NoUser]

ClearLock(task) ==
  [task EXCEPT !.status = GetLastStatus(task.history), !.locked_by = NoUser]

Commented(task, u, comment) ==
  IF comment THEN [task EXCEPT !.history = Append(@, CommentRow(u))] ELSE task

ResetLock(task, u, comment) ==
  LET noted == Commented(task, u, comment) IN
    ClearLock([noted EXCEPT !.history = CloseLock(@, task.status, u)])

\* unlock_task on mapped_by and validated_by.
MappedBy(task, new, u) ==
  IF new \in {"MAPPED", "BADIMAGERY"} /\ task.status # "LOCKED_FOR_VALIDATION" THEN u
  ELSE IF new = "INVALIDATED" THEN NoUser ELSE task.mapped_by

\* Variant: the first validator stays on record.
FirstValidatedBy(task, new, u) ==
  IF new = "VALIDATED" /\ task.validated_by = NoUser THEN u ELSE task.validated_by

ValidatedBy(task, new, u) ==
  IF new = "VALIDATED" THEN u
  ELSE IF new = "INVALIDATED" THEN NoUser ELSE task.validated_by

UnlockTask(task, u, new, comment, undo) ==
  LET changed == Append(Commented(task, u, comment).history, StateChangeRow(new, u))
  IN  [status |-> new,
       locked_by |-> NoUser,
       mapped_by |-> MappedBy(task, new, u),
       validated_by |-> ValidatedBy(task, new, u),
       history |-> IF undo THEN changed ELSE CloseLock(changed, task.status, u),
       invalidations |->
         CASE new = "VALIDATED" -> RecordValidation(task.invalidations, changed, u)
           [] new = "INVALIDATED" -> RecordInvalidation(task.invalidations, changed, u)
           [] OTHER -> task.invalidations]

\* extend_task_lock_time compares the integer task_status with an Enum member,
\* which is never equal, so its action is EXTENDED_FOR_MAPPING for every lock.
ExtendAction(status) == "EXTENDED_FOR_MAPPING"

\* Variant: the old row gets its duration, the new one is forgotten.
ExtendLockCloseOnly(task, u) ==
  [task EXCEPT !.history = CloseLock(@, task.status, u)]

ExtendLock(task, u) ==
  [task EXCEPT !.history = Append(CloseLock(@, task.status, u),
                                  LockRow(ExtendAction(task.status), u))]

\* Variant: the rows change, the task stays locked.
AutoUnlockRows(task, k) == [task EXCEPT !.history = ExpireRows(@, k)]

\* auto_unlock_expired_tasks, rows 1..k being older than the expiry date.
AutoUnlock(task, k) ==
  LET expired == [task EXCEPT !.history = ExpireRows(@, k)]
      h == expired.history
  IN  IF h[LastLockedOrAutoUnlocked(h)].action \in AutoActions
      THEN ClearLock(expired) ELSE expired

=============================================================================
