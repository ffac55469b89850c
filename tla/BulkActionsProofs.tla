------------------------- MODULE BulkActionsProofs -------------------------
(***************************************************************************)
(* BulkInv and CountersExact of BulkActions: what managers do to all tasks *)
(* at once, and the split of a task, for any tasks, users, permissions,    *)
(* number of parts and histories of any length.                            *)
(*                                                                         *)
(* Every task stays fit: good, settled and, if locked, with the row of its *)
(* lock (Fit).  The last is what clear_task_lock needs, which deletes the  *)
(* newest LOCKED row without asking whether there is one.                  *)
(***************************************************************************)
EXTENDS BulkActions, TaskLifecycleProofs

Fit(task) == GoodTask(task) /\ Settled(task) /\ Held(task)

\* What a bulk action leaves of a task: fit, and with no lock that was not there.
Freed(task, new) == Fit(new) /\ new.locked_by \in {task.locked_by, NoUser}

----------------------------------------------------------------------------
(* Operations on one task.                                                 *)

\* A task at rest is fit.
LEMMA AtRestFit == ASSUME NEW task, NEW status, AtRest(task, status) PROVE Fit(task)
  BY DEF AtRest, Fit, Settled, Held

\* map_all_tasks, reset_all_badimagery and invalidate_all_tasks on one task,
\* locked by somebody or not.
LEMMA PassThroughFreed ==
  ASSUME NEW task, GoodTask(task), NEW lock \in LockedStatus, NEW u \in Users, NEW new \in UnlockedStatus
  PROVE  AtRest(UnlockTask(LockUnlessLocked(task, lock, u), u, new, FALSE, FALSE), new)
<1> DEFINE locked == LockUnlessLocked(task, lock, u)
<1>1. GoodTask(locked) /\ IsLocked(locked)
  <2>1. CASE IsLocked(task)
    BY <2>1 DEF LockUnlessLocked
  <2>2. CASE ~IsLocked(task)
    <3>1. GoodTask(LockTask(task, lock, u))
      BY LockTaskGood DEF UserOrNone
    <3>2. IsLocked(LockTask(task, lock, u))
      BY DEF LockTask, IsLocked, GoodTask, TaskRecord
    <3> QED BY <2>2, <3>1, <3>2 DEF LockUnlessLocked
  <2> QED BY <2>1, <2>2
<1> HIDE DEF locked
<1>2. AtRest(UnlockTask(locked, u, new, FALSE, FALSE), new)
  BY <1>1, UnlockTaskGood DEF UserOrNone
<1> QED BY <1>2 DEF locked

\* validate_all_tasks on one task: a mapper is named if there is none.
LEMMA ValidateFreed ==
  ASSUME NEW task, GoodTask(task), NEW u \in Users, NEW mapper \in UserOrNone
  PROVE  LET named == [task EXCEPT !.mapped_by = mapper] IN
         AtRest(UnlockTask(LockTask(named, "LOCKED_FOR_VALIDATION", u), u, "VALIDATED", FALSE, FALSE),
                "VALIDATED")
<1> DEFINE named == [task EXCEPT !.mapped_by = mapper]
           locked == LockTask(named, "LOCKED_FOR_VALIDATION", u)
<1>1. GoodTask(named)
  BY DEF GoodTask, TaskRecord
<1> HIDE DEF named
<1>2. GoodTask(locked)
  BY <1>1, LockTaskGood DEF UserOrNone, LockedStatus
<1>3. IsLocked(locked)
  BY <1>1 DEF LockTask, IsLocked, GoodTask, TaskRecord, LockedStatus
<1>4. "VALIDATED" \in UnlockedStatus
  BY DEF UnlockedStatus, TaskStatus, LockedStatus
<1> HIDE DEF locked
<1>5. AtRest(UnlockTask(locked, u, "VALIDATED", FALSE, FALSE), "VALIDATED")
  BY <1>2, <1>3, <1>4, UnlockTaskGood DEF UserOrNone
<1> QED BY <1>5 DEF locked, named

\* clear_task_lock on a history whose newest LOCKED row exists: one row about a
\* lock is lost, no change of status.
LEMMA DeleteRowKeeps ==
  ASSUME NEW h \in Seq(Row), RowsOf(h, LockedStatus) # {}
  PROVE  KeepsChanges(h, [h EXCEPT ![LastLocked(h)] = Deleted])
<1> DEFINE p == LastLocked(h)
           g == [h EXCEPT ![p] = Deleted]
<1>1. p \in 1..Len(h) /\ h[p].action \in LockedStatus
  BY NewestRow DEF LastLocked
<1>2. Len(h) \in Nat /\ DOMAIN h = 1..Len(h) /\ \A i \in 1..Len(h) : h[i] \in Row
  BY Positions
<1>3. Deleted \in Row /\ Deleted.action # "STATE_CHANGE"
  BY DEF Deleted, Row
<1>4. h[p].action # "STATE_CHANGE"
  BY <1>1 DEF LockedStatus
<1> HIDE DEF p
<1>5. g \in Seq(Row) /\ DOMAIN g = 1..Len(h) /\ \A i \in 1..Len(h) : g[i] = IF i = p THEN Deleted ELSE h[i]
  BY <1>1, <1>2, <1>3
<1> HIDE DEF g
<1>6. KeepsChanges(h, g)
  BY <1>1, <1>2, <1>3, <1>4, <1>5 DEF KeepsChanges, Changes, RowsOf
<1> QED BY <1>6 DEF g, p

\* A task that is held has a LOCKED row, the one it was locked with.
LEMMA HeldHasRow ==
  ASSUME NEW task, GoodTask(task), Held(task), IsLocked(task)
  PROVE  RowsOf(task.history, LockedStatus) # {}
<1>1. PICK p \in 1..Len(task.history) : LockRowAt(task, p)
  BY DEF Held
<1> QED BY <1>1, Positions DEF LockRowAt, IsLocked, RowsOf, GoodTask, WellFormed

\* clear_task_lock on a task, or on the copy of one, with a LOCKED row.
LEMMA ClearTaskLockGood ==
  ASSUME NEW task, GoodTask(task), RowsOf(task.history, LockedStatus) # {}
  PROVE  LET new == ClearTaskLock(task) IN
         /\ GoodTask(new)
         /\ new.locked_by = NoUser
<1> DEFINE g == [task.history EXCEPT ![LastLocked(task.history)] = Deleted]
           deleted == [task EXCEPT !.history[LastLocked(task.history)] = Deleted]
<1>1. KeepsChanges(task.history, g)
  BY DeleteRowKeeps DEF GoodTask, WellFormed
<1>2. deleted = [task EXCEPT !.history = g]
  BY DEF GoodTask, TaskRecord
<1> HIDE DEF g
<1>3. deleted \in TaskRecord /\ deleted.history = g /\ deleted.invalidations = task.invalidations
  BY <1>1, <1>2 DEF GoodTask, TaskRecord, KeepsChanges
<1>4. ClearTaskLock(task) = ClearLock(deleted)
  BY DEF ClearTaskLock
<1> HIDE DEF deleted
<1>5. GoodTask(deleted)
  BY <1>1, <1>3, NewHistory
<1> QED BY <1>4, <1>5, ClearLockGood

\* record_auto_unlock before a reset: the lock's row is deleted, a row for its
\* automatic release inserted.
LEMMA RecordAutoUnlockGood ==
  ASSUME NEW task, GoodTask(task), RowsOf(task.history, LockedStatus) # {}
  PROVE  GoodTask(RecordAutoUnlock(task))
<1> DEFINE row == [action |-> AutoAction(task.history[LastLocked(task.history)].action),
                   text |-> "closed", user |-> task.locked_by]
           cleared == ClearTaskLock(task)
           new == [cleared EXCEPT !.history = Append(@, row)]
<1>1. GoodTask(cleared)
  BY ClearTaskLockGood
<1>2. row \in Row /\ row.action # "STATE_CHANGE"
  BY DEF AutoAction, Row, TaskAction, AutoActions, GoodTask, TaskRecord, UserOrNone
<1>3. RecordAutoUnlock(task) = new
  BY DEF RecordAutoUnlock
<1> HIDE DEF row, cleared
<1>4. KeepsChanges(cleared.history, Append(cleared.history, row))
  BY <1>1, <1>2, AppendOther DEF GoodTask, WellFormed
<1>5. new \in TaskRecord /\ new.history = Append(cleared.history, row) /\ new.invalidations = cleared.invalidations
  BY <1>1, <1>4 DEF GoodTask, TaskRecord, KeepsChanges
<1> HIDE DEF new
<1>6. GoodTask(new)
  BY <1>1, <1>4, <1>5, NewHistory
<1> QED BY <1>3, <1>6

\* What a last change of status makes of a good task: a reset and a split put it
\* in the status of the row they insert, held by nobody.
LEMMA ChangedAtRest ==
  ASSUME NEW task, GoodTask(task), NEW u \in UserOrNone, NEW status \in UnlockedStatus, NEW new,
         new = [task EXCEPT !.history = Append(@, StateChangeRow(status, u)), !.status = status,
                            !.locked_by = NoUser, !.mapped_by = NoUser, !.validated_by = NoUser]
  PROVE  AtRest(new, status)
<1> DEFINE g == Append(task.history, StateChangeRow(status, u))
<1>1. /\ WellFormed(g)
      /\ GetLastStatus(g) = status
      /\ MappedRows(task.history) \subseteq MappedRows(g)
  BY AppendChange DEF GoodTask
<1> HIDE DEF g
<1>2. /\ new \in TaskRecord /\ new.history = g /\ new.status = status /\ new.locked_by = NoUser
      /\ new.invalidations = task.invalidations
  BY <1>1 DEF GoodTask, TaskRecord, WellFormed, UnlockedStatus, UserOrNone, g
<1>3. GoodTask(new)
  BY <1>1, <1>2 DEF GoodTask
<1> QED BY <1>1, <1>2, <1>3 DEF AtRest, IsLocked, UnlockedStatus

\* reset_task, with the lock it releases if there is one.
LEMMA ResetTaskFreed ==
  ASSUME NEW task, Fit(task), NEW u \in Users PROVE AtRest(ResetTask(task, u), "READY")
<1> DEFINE noted == Commented(task, u, TRUE)
           released == IF IsLocked(task) THEN RecordAutoUnlock(noted) ELSE noted
           new == [released EXCEPT !.history = Append(@, StateChangeRow("READY", u)),
                                   !.status = "READY", !.locked_by = NoUser,
                                   !.mapped_by = NoUser, !.validated_by = NoUser]
<1>1. GoodTask(noted) /\ noted.status = task.status
  BY CommentedGood DEF Fit, UserOrNone
<1>2. Held(noted)
  BY CommentedPreserves DEF Fit, UserOrNone, Preserves
<1>3. ResetTask(task, u) = new
  BY DEF ResetTask
<1> HIDE DEF noted
<1>4. GoodTask(released)
  BY <1>1, <1>2, HeldHasRow, RecordAutoUnlockGood DEF IsLocked
<1> HIDE DEF released
<1>5. "READY" \in UnlockedStatus
  BY DEF UnlockedStatus, TaskStatus, LockedStatus
<1>6. AtRest(new, "READY")
  BY <1>4, <1>5, ChangedAtRest DEF UserOrNone
<1> QED BY <1>3, <1>6

\* A part of a split task has the rows of the task, without its lock.
LEMMA PartAtRest ==
  ASSUME NEW task, Fit(task), IsLocked(task), NEW u \in Users PROVE AtRest(PartOf(task, u), "READY")
<1> DEFINE blank == [NewTask EXCEPT !.history = task.history]
           copy == ClearTaskLock(blank)
           split == Append(copy.history, StateChangeRow("SPLIT", u))
           halfway == [copy EXCEPT !.history = split, !.status = "SPLIT", !.locked_by = NoUser,
                                   !.mapped_by = NoUser, !.validated_by = NoUser]
           new == [halfway EXCEPT !.history = Append(@, StateChangeRow("READY", u)), !.status = "READY",
                                  !.locked_by = NoUser, !.mapped_by = NoUser, !.validated_by = NoUser]
<1>1. /\ blank \in TaskRecord /\ blank.history = task.history /\ OpenEntries(blank.invalidations) = {}
      /\ blank.mapped_by = NoUser /\ blank.validated_by = NoUser
  <2>1. NewTask \in TaskRecord
    BY NewTaskGood DEF GoodTask
  <2>2. task.history \in Seq(Row)
    BY DEF Fit, GoodTask, WellFormed
  <2>3. OpenEntries(<<>>) = {}
    BY DEF OpenEntries
  <2> QED BY <2>1, <2>2, <2>3 DEF TaskRecord, NewTask
<1>2. GoodTask(blank)
  BY <1>1 DEF Fit, GoodTask
<1>3. RowsOf(blank.history, LockedStatus) # {}
  BY <1>1, HeldHasRow DEF Fit
<1> HIDE DEF blank
<1>4. GoodTask(copy) /\ copy.locked_by = NoUser
  BY <1>2, <1>3, ClearTaskLockGood
<1>5. copy.mapped_by = NoUser /\ copy.validated_by = NoUser
  BY <1>1 DEF ClearTaskLock, ClearLock, TaskRecord
<1>6. {"SPLIT", "READY"} \subseteq UnlockedStatus
  BY DEF UnlockedStatus, TaskStatus, LockedStatus
<1> HIDE DEF copy
<1>7. AtRest(halfway, "SPLIT")
  BY <1>4, <1>6, ChangedAtRest DEF UserOrNone
<1>8. AtRest(new, "READY")
  <2>1. GoodTask(halfway) /\ "READY" \in UnlockedStatus /\ u \in UserOrNone
    BY <1>6, <1>7 DEF UserOrNone, AtRest
  <2> HIDE DEF halfway
  <2>2. \A x : x = new => AtRest(x, "READY")
    BY <2>1, ChangedAtRest
  <2> QED BY <2>2
<1>9. PartOf(task, u) = new
  <2>1. PartOf(task, u) = [copy EXCEPT !.status = "READY", !.history = Append(split, StateChangeRow("READY", u))]
    BY DEF PartOf, copy, blank
  <2> HIDE DEF split
  <2>2. copy \in TaskRecord
    BY <1>4 DEF GoodTask
  <2>3. /\ halfway.history = split /\ DOMAIN halfway = DOMAIN copy
        /\ \A c \in DOMAIN copy \ {"history", "status"} : halfway[c] = copy[c]
    BY <1>4, <1>5, <2>2 DEF TaskRecord
  <2>4. new = [copy EXCEPT !.status = "READY", !.history = Append(halfway.history, StateChangeRow("READY", u))]
    BY <1>4, <1>5, <2>2 DEF TaskRecord
  <2> QED BY <2>1, <2>3, <2>4
<1> QED BY <1>8, <1>9

----------------------------------------------------------------------------
(* Steps.                                                                  *)

\* The inductive invariant.
Fitness == BulkTypeOK /\ Clean /\ Locks

\* What a bulk action does, besides what it does to the counters.
FreesTasks ==
  /\ tasks' = [t \in Tasks |-> tasks'[t]]
  /\ \A t \in Tasks : Freed(tasks[t], tasks'[t])
  /\ project' \in [Counted -> Int]
  /\ tally' = tally
  /\ live' \subseteq Tasks
  /\ total' \in Int

LEMMA FreedKeepsFitness == ASSUME Fitness, FreesTasks PROVE Fitness'
<1>1. \A t \in Tasks : Fit(tasks'[t]) /\ tasks'[t] \in TaskRecord
  BY DEF FreesTasks, Freed, Fit, GoodTask
<1>2. tasks' \in [Tasks -> TaskRecord]
  BY <1>1 DEF FreesTasks
<1>3. TypeOK' /\ BulkTypeOK'
  BY <1>2 DEF Fitness, FreesTasks, BulkTypeOK, TypeOK
<1>4. Clean'
  BY <1>1, <1>3 DEF Clean, Fit, GoodTask, Settled, IsLocked
<1>5. Locks'
  BY <1>1 DEF Locks, Fit, Held, LockRowAt, IsLocked, OpenLockRows
<1> QED BY <1>3, <1>4, <1>5 DEF Fitness

\* What is at rest, or left alone, is freed.
LEMMA AtRestFreed == ASSUME NEW task, NEW new, NEW status, AtRest(new, status) PROVE Freed(task, new)
  BY AtRestFit DEF Freed, AtRest

LEMMA AllFit == ASSUME Fitness PROVE \A t \in Tasks : Fit(tasks[t]) /\ Freed(tasks[t], tasks[t])
  BY DEF Fitness, Clean, Locks, Fit, Freed

\* The users who manage a project are users.
LEMMA ManagersAreUsers == ASSUME NEW u \in Managers PROVE u \in Users
  BY ManagersAssumption

LEMMA PassThroughFrees ==
  ASSUME Fitness, NEW u \in Users, NEW selected, NEW lock \in LockedStatus, NEW new \in UnlockedStatus,
         PassThrough(selected, lock, new, u), project' \in [Counted -> Int]
  PROVE  FreesTasks
<1> DEFINE after(t) == UnlockTask(LockUnlessLocked(tasks[t], lock, u), u, new, FALSE, FALSE)
<1>1. \A t \in Tasks : Freed(tasks[t], after(t))
  BY AllFit, PassThroughFreed, AtRestFreed DEF Fit
<1>2. tasks' = [t \in Tasks |-> IF t \in selected THEN after(t) ELSE tasks[t]] /\ UNCHANGED <<tally, live, total>>
  BY DEF PassThrough
<1> HIDE DEF after
<1>3. \A t \in Tasks : Freed(tasks[t], tasks'[t])
  BY <1>1, <1>2, AllFit
<1> QED BY <1>2, <1>3 DEF FreesTasks, Fitness, BulkTypeOK

LEMMA MapAllFrees == ASSUME Fitness, MapAllStep PROVE FreesTasks
<1>1. PICK u \in Managers : MapAllTasks(u)
  BY DEF MapAllStep
<1>2. project' \in [Counted -> Int]
  BY <1>1 DEF MapAllTasks, Fitness, BulkTypeOK, TypeOK, Counted
<1> QED BY <1>1, <1>2, ManagersAreUsers, PassThroughFrees
        DEF MapAllTasks, LockedStatus, UnlockedStatus, TaskStatus

LEMMA ResetBadImageryFrees == ASSUME Fitness, ResetBadImageryStep PROVE FreesTasks
<1>1. PICK u \in Managers : ResetAllBadImagery(u)
  BY DEF ResetBadImageryStep
<1>2. project' \in [Counted -> Int]
  BY <1>1 DEF ResetAllBadImagery, Fitness, BulkTypeOK, TypeOK, Counted
<1> QED BY <1>1, <1>2, ManagersAreUsers, PassThroughFrees
        DEF ResetAllBadImagery, LockedStatus, UnlockedStatus, TaskStatus

LEMMA InvalidateAllFrees == ASSUME Fitness, InvalidateAllStep PROVE FreesTasks
<1>1. PICK u \in Managers : InvalidateAllTasks(u)
  BY DEF InvalidateAllStep
<1>2. project' \in [Counted -> Int]
  BY <1>1 DEF InvalidateAllTasks, Fitness, BulkTypeOK, TypeOK, Counted
<1> QED BY <1>1, <1>2, ManagersAreUsers, PassThroughFrees
        DEF InvalidateAllTasks, LockedStatus, UnlockedStatus, TaskStatus

LEMMA ValidateAllFrees == ASSUME Fitness, ValidateAllStep PROVE FreesTasks
<1>1. PICK u \in Managers : ValidateAllTasks(u)
  BY DEF ValidateAllStep
<1>2. u \in Users
  BY ManagersAreUsers
<1> DEFINE mapper(t) == IF tasks[t].mapped_by = NoUser THEN u ELSE tasks[t].mapped_by
           named(t) == [tasks[t] EXCEPT !.mapped_by = mapper(t)]
           after(t) == UnlockTask(LockTask(named(t), "LOCKED_FOR_VALIDATION", u), u, "VALIDATED", FALSE, FALSE)
           selected == InStatus({"MAPPED"})
<1>3. /\ tasks' = [t \in Tasks |-> IF t \in selected THEN after(t) ELSE tasks[t]]
      /\ project' = [project EXCEPT !["VALIDATED"] = @ + project["MAPPED"], !["MAPPED"] = 0]
      /\ UNCHANGED <<tally, live, total>>
  BY <1>1 DEF ValidateAllTasks
<1>4. \A t \in Tasks : Freed(tasks[t], after(t))
  <2>1. ASSUME NEW t \in Tasks PROVE Freed(tasks[t], after(t))
    <3>1. GoodTask(tasks[t]) /\ mapper(t) \in UserOrNone
      BY <1>2, AllFit DEF Fit, GoodTask, TaskRecord, UserOrNone
    <3> HIDE DEF mapper
    <3>2. AtRest(after(t), "VALIDATED")
      BY <1>2, <3>1, ValidateFreed
    <3> QED BY <3>2, AtRestFreed
  <2> QED BY <2>1
<1> HIDE DEF after, selected
<1>5. \A t \in Tasks : Freed(tasks[t], tasks'[t])
  BY <1>3, <1>4, AllFit
<1>6. project' \in [Counted -> Int]
  BY <1>3 DEF Fitness, BulkTypeOK, TypeOK, Counted
<1> QED BY <1>3, <1>5, <1>6 DEF FreesTasks, Fitness, BulkTypeOK

LEMMA ResetAllFrees == ASSUME Fitness, ResetAllStep PROVE FreesTasks
<1>1. PICK u \in Managers : ResetAllTasks(u)
  BY DEF ResetAllStep
<1>2. \A t \in Tasks : Freed(tasks[t], ResetTask(tasks[t], u))
  BY AllFit, ManagersAreUsers, ResetTaskFreed, AtRestFreed
<1>3. PICK selected : /\ tasks' = [t \in Tasks |-> IF t \in selected THEN ResetTask(tasks[t], u) ELSE tasks[t]]
                      /\ project' = [s \in Counted |-> 0]
                      /\ UNCHANGED <<tally, live, total>>
  BY <1>1 DEF ResetAllTasks
<1>4. \A t \in Tasks : Freed(tasks[t], tasks'[t])
  BY <1>2, <1>3, AllFit
<1> QED BY <1>3, <1>4 DEF FreesTasks, Fitness, BulkTypeOK

\* A set of tasks has a size.
LEMMA TasksCount == ASSUME NEW S \in SUBSET Tasks PROVE Cardinality(S) \in Int
<1>1. IsFiniteSet(S)
  BY TasksAssumption, FS_Subset
<1> QED BY <1>1, FS_CardinalityType

LEMMA NewTaskFreed == ASSUME NEW task PROVE Freed(task, NewTask)
  BY NewTaskGood DEF Freed, Fit, Settled, Held, NewTask, IsLocked, LockedStatus

LEMMA SplitFrees == ASSUME Fitness, SplitStep PROVE FreesTasks
<1>1. PICK u \in Users, t \in live : SplitTask(u, t)
  BY DEF SplitStep
<1>2. t \in Tasks /\ live \subseteq Tasks
  BY DEF Fitness, BulkTypeOK
<1>3. PICK parts \in SUBSET (Tasks \ live) :
        /\ live' = (live \ {t}) \cup parts
        /\ tasks' = [x \in Tasks |-> IF x \in parts THEN PartOf(tasks[t], u)
                                      ELSE IF x = t THEN NewTask ELSE tasks[x]]
  BY <1>1 DEF SplitTask
<1>4. live' \subseteq Tasks
  BY <1>2, <1>3
<1>5. total' \in Int /\ project' \in [Counted -> Int] /\ tally' = tally
  <2>1. Cardinality(live') \in Int /\ Cardinality({x \in live' : tasks'[x].status = "BADIMAGERY"}) \in Int
    BY <1>4, TasksCount
  <2> QED BY <1>1, <2>1 DEF SplitTask, Fitness, BulkTypeOK, TypeOK
<1>6. \A x \in Tasks : Freed(tasks[x], PartOf(tasks[t], u))
  <2>1. IsLocked(tasks[t])
    BY <1>1 DEF SplitTask, LockedForMappingBy, IsLocked, LockedStatus
  <2>2. AtRest(PartOf(tasks[t], u), "READY")
    BY <1>2, <2>1, AllFit, PartAtRest
  <2> QED BY <2>2, AtRestFreed
<1>7. \A x \in Tasks : Freed(tasks[x], tasks'[x])
  BY <1>3, <1>6, AllFit, NewTaskFreed
<1> QED BY <1>3, <1>4, <1>5, <1>7 DEF FreesTasks

LEMMA DeleteFrees == ASSUME Fitness, DeleteStep PROVE FreesTasks
<1>1. PICK u \in Users, t \in live : DeleteTask(u, t)
  BY DEF DeleteStep
<1>2. live' \subseteq Tasks /\ UNCHANGED <<project, tally, total>>
  BY <1>1 DEF DeleteTask, Fitness, BulkTypeOK
<1>3. tasks' = [x \in Tasks |-> IF x = t THEN NewTask ELSE tasks[x]]
  BY <1>1 DEF DeleteTask, Fitness, BulkTypeOK, TypeOK
<1>4. \A x \in Tasks : Freed(tasks[x], tasks'[x])
  BY <1>3, AllFit, NewTaskFreed
<1> QED BY <1>2, <1>3, <1>4 DEF FreesTasks, Fitness, BulkTypeOK, TypeOK

\* The requests about single tasks are those of TaskLifecycle.
LEMMA SingleTaskNext ==
  ASSUME Fitness, SingleTaskStep PROVE Next /\ UNCHANGED <<live, total>>
<1>1. live \subseteq Tasks
  BY DEF Fitness, BulkTypeOK
<1> QED BY <1>1 DEF SingleTaskStep, Next, LockSome

\* They touch no id that is not in use.
LEMMA SingleTaskElsewhere ==
  ASSUME Fitness, SingleTaskStep PROVE \A x \in Tasks \ live : tasks'[x] = tasks[x]
<1>1. ASSUME NEW u \in Users, NEW t \in live, UserStep(u, t)
      PROVE  \A x \in Tasks \ live : tasks'[x] = tasks[x]
  <2>1. \E new : tasks' = [tasks EXCEPT ![t] = new]
    BY <1>1 DEF UserStep, UnlockAfterMapping, StopMapping, AddTaskComment, UndoMapping,
                ExtendTaskLockTime, UnlockAfterValidation, StopValidating
  <2> QED BY <2>1 DEF Fitness, BulkTypeOK, TypeOK
<1>2. ASSUME NEW u \in Users, NEW away, LockSome(u, live, away)
      PROVE  \A x \in Tasks \ live : tasks'[x] = tasks[x]
  BY <1>2 DEF LockSome, LockForMapping, LockTasksForValidation, Fitness, BulkTypeOK, TypeOK
<1>3. ASSUME NEW t \in live, NEW k, AutoUnlockTask(t, k)
      PROVE  \A x \in Tasks \ live : tasks'[x] = tasks[x]
  BY <1>3 DEF AutoUnlockTask, Fitness, BulkTypeOK, TypeOK
<1> QED BY <1>1, <1>2, <1>3 DEF SingleTaskStep, AutoUnlockStep

LEMMA SingleTaskFitness == ASSUME Fitness, SingleTaskStep PROVE Fitness'
<1>1. Next /\ UNCHANGED <<live, total>>
  BY SingleTaskNext
<1>2. Clean'
  BY <1>1, StepSound DEF Fitness, Sound
<1>3. Locks'
  <2>1. Preserved
    BY <1>1, StepPreserves DEF Fitness
  <2> QED BY <2>1 DEF Preserved, Preserves, Locks, Held, LockRowAt, IsLocked, OpenLockRows
<1> QED BY <1>1, <1>2, <1>3 DEF Fitness, BulkTypeOK, Clean

\* A step of BulkActions is a request about single tasks or frees tasks.
LEMMA BulkSteps == ASSUME Fitness, BulkNext PROVE SingleTaskStep \/ FreesTasks
BY MapAllFrees, ValidateAllFrees, ResetBadImageryFrees, InvalidateAllFrees, ResetAllFrees, SplitFrees,
   DeleteFrees DEF BulkNext

LEMMA BulkInitFitness == BulkInit => Fitness
<1>1. Init => Clean
  BY InitInv DEF Inv
<1>2. Init => Locks
  BY DEF Init, Locks, Held, NewTask, IsLocked, LockedStatus
<1> QED BY <1>1, <1>2, FirstTasksAssumption, TasksCount DEF BulkInit, Fitness, BulkTypeOK, Clean

LEMMA FitnessUnchanged == ASSUME Fitness, UNCHANGED bulkVars PROVE Fitness'
  BY DEF bulkVars, Fitness, BulkTypeOK, Clean, TypeOK, Locks, GoodTask, Settled, Held, LockRowAt, IsLocked

LEMMA FitnessHolds == BulkSpec => []Fitness
<1>1. ASSUME Fitness, [BulkNext]_bulkVars PROVE Fitness'
  BY <1>1, BulkSteps, SingleTaskFitness, FreedKeepsFitness, FitnessUnchanged
<1> QED BY BulkInitFitness, <1>1, PTL DEF BulkSpec

\* In a clean state where locks have their rows, holders are on record.
LEMMA FitnessRecorded == ASSUME Fitness PROVE StatusOnRecord /\ LockOnRecord
<1>1. StatusOnRecord
  BY DEF Fitness, Clean, Settled, StatusOnRecord
<1>2. LockOnRecord
  BY LocksRecorded DEF Fitness
<1> QED BY <1>1, <1>2

\* Managers who map, validate, invalidate, reset or delete tasks while others
\* hold them, and a split that copies rows to new tasks, leave every task in the
\* status and with the holder its own rows tell.
THEOREM BulkInvHolds == BulkSpec => []BulkInv
<1>1. Fitness => BulkInv
  BY FitnessRecorded DEF Fitness, BulkInv
<1> QED BY FitnessHolds, <1>1, PTL

----------------------------------------------------------------------------
(* Counters.                                                               *)

\* invalidate_all_tasks sets tasks_validated to 0 after a query by status: that
\* is right as no validated task hides behind a lock (VerdictsUnlocked), or is
\* an id not in use.
Restartable ==
  /\ Fitness
  /\ CountersExact
  /\ VerdictsUnlocked
  /\ \A t \in Tasks \ live : GetLastStatus(tasks[t].history) = "READY"

\* Nothing in the project is recorded to be in a status that counts nothing.
LEMMA NoneCounted ==
  ASSUME NEW s, \A t \in Tasks : GetLastStatus(tasks'[t].history) # s
  PROVE  Cardinality({t \in Tasks : GetLastStatus(tasks'[t].history) = s}) = 0
<1>1. {t \in Tasks : GetLastStatus(tasks'[t].history) = s} = {}
  OBVIOUS
<1> QED BY <1>1, FS_EmptySet

LEMMA InvalidateAllRestartable == ASSUME Restartable, InvalidateAllStep PROVE Restartable'
<1>1. Fitness'
  BY InvalidateAllFrees, FreedKeepsFitness DEF Restartable
<1>2. PICK u \in Managers : InvalidateAllTasks(u)
  BY DEF InvalidateAllStep
<1>3. u \in Users /\ live \subseteq Tasks /\ live' = live
  BY <1>2, ManagersAreUsers DEF Restartable, Fitness, BulkTypeOK, InvalidateAllTasks, PassThrough
<1> DEFINE selected == InStatus({"VALIDATED"})
           after(t) == UnlockTask(LockUnlessLocked(tasks[t], "LOCKED_FOR_VALIDATION", u), u,
                                  "INVALIDATED", FALSE, FALSE)
<1>4. ASSUME NEW t \in Tasks PROVE AtRest(after(t), "INVALIDATED")
  <2>1. GoodTask(tasks[t]) /\ "LOCKED_FOR_VALIDATION" \in LockedStatus /\ "INVALIDATED" \in UnlockedStatus
    BY AllFit DEF Restartable, Fit, LockedStatus, UnlockedStatus, TaskStatus
  <2> QED BY <1>3, <2>1, PassThroughFreed
<1>5. /\ tasks' = [t \in Tasks |-> IF t \in selected THEN after(t) ELSE tasks[t]]
      /\ project' = [project EXCEPT !["VALIDATED"] = 0]
  BY <1>2 DEF InvalidateAllTasks, PassThrough
<1>6. \A t \in Tasks : t \in selected <=> GetLastStatus(tasks[t].history) = "VALIDATED"
  <2>1. ASSUME NEW t \in Tasks, t \in selected PROVE GetLastStatus(tasks[t].history) = "VALIDATED"
    BY <2>1 DEF InStatus, Restartable, Fitness, Clean, Settled, IsLocked, LockedStatus
  <2>2. ASSUME NEW t \in Tasks, GetLastStatus(tasks[t].history) = "VALIDATED" PROVE t \in selected
    BY <2>2 DEF InStatus, Restartable, VerdictsUnlocked, Fitness, Clean, Settled
  <2> QED BY <2>1, <2>2
<1> HIDE DEF selected, after
<1>7. \A t \in Tasks : IF t \in selected
                      THEN GetLastStatus(tasks'[t].history) = "INVALIDATED" /\ ~IsLocked(tasks'[t])
                      ELSE tasks'[t] = tasks[t]
  BY <1>4, <1>5 DEF AtRest
<1>8. ASSUME NEW s \in Counted
      PROVE  project'[s] = Cardinality({t \in Tasks : GetLastStatus(tasks'[t].history) = s})
  <2>1. CASE s = "VALIDATED"
    <3>1. \A t \in Tasks : GetLastStatus(tasks'[t].history) # s
      BY <1>6, <1>7, <2>1
    <3>2. project'[s] = 0
      BY <1>5, <2>1 DEF Restartable, Fitness, BulkTypeOK, TypeOK, Counted
    <3> QED BY <3>1, <3>2, NoneCounted
  <2>2. CASE s # "VALIDATED"
    <3>1. {t \in Tasks : GetLastStatus(tasks'[t].history) = s} = {t \in Tasks : GetLastStatus(tasks[t].history) = s}
      BY <1>6, <1>7, <2>2 DEF Counted
    <3>2. project'[s] = project[s]
      BY <1>5, <2>2 DEF Restartable, Fitness, BulkTypeOK, TypeOK
    <3> QED BY <3>1, <3>2 DEF Restartable, CountersExact
  <2> QED BY <2>1, <2>2
<1>9. CountersExact'
  BY <1>8 DEF CountersExact
<1>10. VerdictsUnlocked'
  BY <1>7 DEF Restartable, VerdictsUnlocked, IsLocked
<1>11. \A t \in Tasks \ live' : GetLastStatus(tasks'[t].history) = "READY"
  BY <1>3, <1>6, <1>7 DEF Restartable
<1> QED BY <1>1, <1>9, <1>10, <1>11 DEF Restartable

LEMMA ResetAllRestartable == ASSUME Restartable, ResetAllStep PROVE Restartable'
<1>1. Fitness'
  BY ResetAllFrees, FreedKeepsFitness DEF Restartable
<1>2. PICK u \in Managers : ResetAllTasks(u)
  BY DEF ResetAllStep
<1> DEFINE selected == live \ InStatus({"READY"})
<1>3. /\ tasks' = [t \in Tasks |-> IF t \in selected THEN ResetTask(tasks[t], u) ELSE tasks[t]]
      /\ project' = [s \in Counted |-> 0]
      /\ live' = live
  BY <1>2 DEF ResetAllTasks
<1>4. \A t \in Tasks : AtRest(ResetTask(tasks[t], u), "READY")
  BY <1>2, AllFit, ManagersAreUsers, ResetTaskFreed DEF Restartable
<1>5. \A t \in Tasks \ selected : GetLastStatus(tasks[t].history) = "READY"
  BY DEF Restartable, InStatus, Fitness, Clean, Settled, IsLocked, LockedStatus
<1> HIDE DEF selected
<1>6. \A t \in Tasks : GetLastStatus(tasks'[t].history) = "READY"
  BY <1>3, <1>4, <1>5 DEF AtRest
<1>7. CountersExact'
  <2>1. ASSUME NEW s \in Counted
        PROVE  project'[s] = Cardinality({t \in Tasks : GetLastStatus(tasks'[t].history) = s})
    <3>1. \A t \in Tasks : GetLastStatus(tasks'[t].history) # s
      BY <1>6 DEF Counted
    <3> QED BY <1>3, <3>1, NoneCounted
  <2> QED BY <2>1 DEF CountersExact
<1>8. VerdictsUnlocked'
  BY <1>6 DEF VerdictsUnlocked
<1> QED BY <1>1, <1>6, <1>7, <1>8 DEF Restartable

LEMMA SingleTaskRestartable == ASSUME Restartable, SingleTaskStep PROVE Restartable'
<1>1. Fitness' /\ Next /\ UNCHANGED <<live, total>>
  BY SingleTaskNext, SingleTaskFitness DEF Restartable
<1>2. CountersExact' /\ VerdictsUnlocked'
  BY <1>1, StepSound DEF Restartable, Fitness, Sound
<1>3. \A t \in Tasks \ live : tasks'[t] = tasks[t]
  BY SingleTaskElsewhere DEF Restartable
<1> QED BY <1>1, <1>2, <1>3 DEF Restartable

LEMMA RestartHolds == RestartSpec => []Restartable
<1>1. BulkInit => Restartable
  <2>1. ASSUME Init PROVE CountersExact /\ \A t \in Tasks : GetLastStatus(tasks[t].history) = "READY"
    BY <2>1, InitInv, NewTaskGood DEF Inv, Init
  <2>2. ASSUME Init PROVE VerdictsUnlocked
    BY <2>1, <2>2 DEF VerdictsUnlocked
  <2> QED BY <2>1, <2>2, BulkInitFitness DEF BulkInit, Restartable
<1>2. ASSUME Restartable, [RestartNext]_bulkVars PROVE Restartable'
  <2>1. CASE UNCHANGED bulkVars
    <3>1. Fitness'
      BY <1>2, <2>1, FitnessUnchanged DEF Restartable
    <3> QED BY <1>2, <2>1, <3>1 DEF bulkVars, Restartable, CountersExact, VerdictsUnlocked, IsLocked
  <2> QED BY <1>2, <2>1, SingleTaskRestartable, InvalidateAllRestartable, ResetAllRestartable DEF RestartNext
<1> QED BY <1>1, <1>2, PTL DEF RestartSpec

\* Invalidating all tasks and resetting all tasks, which set the counters of the
\* project without recounting, set them to what the histories say, whatever
\* tasks are locked at the time.
THEOREM RestartCountersCorrect == RestartSpec => []CountersExact
<1>1. Restartable => CountersExact
  BY DEF Restartable
<1> QED BY RestartHolds, <1>1, PTL
=============================================================================
