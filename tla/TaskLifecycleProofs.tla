------------------------ MODULE TaskLifecycleProofs ------------------------
(***************************************************************************)
(* Type correctness, StatusOnRecord and CountersExact of TaskLifecycle,    *)
(* for any finite set of tasks, any users and permissions and histories of *)
(* any length.                                                             *)
(*                                                                         *)
(* CountersExact is not inductive: _update_tasks_stats is told the old     *)
(* status by its caller, and undo_mapping gives it the column task_status  *)
(* where the others give get_last_status. The two agree only on a task     *)
(* that is not locked (Settled), and releasing a lock keeps it so because  *)
(* no STATE_CHANGE row names a lock (GoodTask). Inv joins the three.       *)
(***************************************************************************)
EXTENDS TwoProjects, TaskProofs

\* A task that is not locked is in the last status on record, and has no holder.
Settled(task) ==
  \/ IsLocked(task)
  \/ task.status = GetLastStatus(task.history) /\ task.locked_by = NoUser

\* What every step keeps, those of BulkActions and RequestSteps included.
Clean ==
  /\ TypeOK
  /\ \A t \in Tasks : GoodTask(tasks[t]) /\ Settled(tasks[t])

\* The inductive invariant of TaskLifecycle.
Inv == Clean /\ CountersExact

\* No lock is taken on a validated task.
VerdictsUnlocked ==
  \A t \in Tasks : IsLocked(tasks[t]) => GetLastStatus(tasks[t].history) # "VALIDATED"

\* What a step of TaskLifecycle is shown to do, from a clean state.
Sound ==
  /\ Clean'
  /\ CountersExact => CountersExact'
  /\ VerdictsUnlocked => VerdictsUnlocked'

\* A task that has become locked was open to a lock: lock_task_for_mapping and
\* lock_tasks_for_validation accept no validated task.
Lockable(task, new) == IsLocked(new) => IsLocked(task) \/ task.status # "VALIDATED"

\* Moving one task in or out of a set of tasks moves its size by one: what the
\* counters of a project are compared with.
LEMMA CountMoves ==
  ASSUME NEW before \in SUBSET Tasks, NEW after \in SUBSET Tasks, NEW t \in Tasks,
         before \ {t} = after \ {t}
  PROVE  Cardinality(after) = Cardinality(before) + (IF t \in after THEN 1 ELSE 0)
                                                  - (IF t \in before THEN 1 ELSE 0)
<1> DEFINE others == before \ {t}
<1>1. IsFiniteSet(others)
  BY TasksAssumption, FS_Subset
<1>2. \A S \in {before, after} :
         /\ t \in S => S = others \cup {t}
         /\ t \notin S => S = others
  OBVIOUS
<1>a. t \notin others
  OBVIOUS
<1> HIDE DEF others
<1>3. /\ Cardinality(others \cup {t}) = Cardinality(others) + 1
      /\ Cardinality(others) \in Nat
  BY <1>1, <1>a, FS_AddElement, FS_CardinalityType
<1>4. ASSUME NEW S \in {before, after}
      PROVE  Cardinality(S) = Cardinality(others) + (IF t \in S THEN 1 ELSE 0)
  <2>1. CASE t \in S
    BY <1>2, <1>3, <2>1
  <2>2. CASE t \notin S
    BY <1>2, <1>3, <2>2
  <2>3. QED
    BY <2>1, <2>2
<1>5. QED
  BY <1>3, <1>4

\* A step that leaves every task's last status on record, and the counters,
\* alone is sound (lock_tasks_for_validation, which locks several tasks).
LEMMA StepKeepsStatuses ==
  ASSUME Clean,
         tasks' \in [Tasks -> TaskRecord],
         \A t \in Tasks : /\ GoodTask(tasks'[t])
                          /\ Settled(tasks'[t])
                          /\ GetLastStatus(tasks'[t].history) = GetLastStatus(tasks[t].history)
                          /\ Lockable(tasks[t], tasks'[t]),
         UNCHANGED <<project, tally>>
  PROVE  Sound
<1>1. TypeOK'
  BY DEF Clean, TypeOK
<1>2. \A t \in Tasks : (GoodTask(tasks[t]) /\ Settled(tasks[t]))'
  BY DEF GoodTask, Settled, IsLocked
<1>3. CountersExact => CountersExact'
  <2>1. \A s : {t \in Tasks : GetLastStatus(tasks'[t].history) = s}
               = {t \in Tasks : GetLastStatus(tasks[t].history) = s}
    OBVIOUS
  <2>2. QED
    BY <2>1 DEF CountersExact
<1>4. VerdictsUnlocked => VerdictsUnlocked'
  <2>1. ASSUME VerdictsUnlocked, NEW t \in Tasks, IsLocked(tasks'[t])
        PROVE  GetLastStatus(tasks'[t].history) # "VALIDATED"
    BY <2>1 DEF Clean, Settled, Lockable, VerdictsUnlocked
  <2>2. QED
    BY <2>1 DEF VerdictsUnlocked, IsLocked
<1>5. QED
  BY <1>1, <1>2, <1>3, <1>4 DEF Clean, Sound

\* The same for a step on one task (lock, stop, comment, extend, auto-unlock).
LEMMA StepKeepsStatus ==
  ASSUME Clean, NEW t \in Tasks, NEW new,
         tasks' = [tasks EXCEPT ![t] = new],
         GoodTask(new), Settled(new),
         GetLastStatus(new.history) = GetLastStatus(tasks[t].history),
         Lockable(tasks[t], new),
         UNCHANGED <<project, tally>>
  PROVE  Sound
<1>1. /\ tasks' \in [Tasks -> TaskRecord]
      /\ \A x \in Tasks : tasks'[x] = IF x = t THEN new ELSE tasks[x]
  BY DEF Clean, TypeOK, GoodTask
<1>2. \A x \in Tasks : /\ GoodTask(tasks'[x])
                       /\ Settled(tasks'[x])
                       /\ GetLastStatus(tasks'[x].history) = GetLastStatus(tasks[x].history)
                       /\ Lockable(tasks[x], tasks'[x])
  BY <1>1 DEF Clean, Lockable
<1>3. QED
  BY <1>1, <1>2, StepKeepsStatuses

\* A step that gives one task a new status on record and recounts it with
\* _update_tasks_stats, from the status last on record, is sound.
LEMMA StepChangesStatus ==
  ASSUME Clean, NEW t \in Tasks, NEW new, NEW u, NEW status \in UnlockedStatus, NEW action,
         tasks' = [tasks EXCEPT ![t] = new],
         GoodTask(new), Settled(new), ~IsLocked(new), GetLastStatus(new.history) = status,
         UpdateStats(u, GetLastStatus(tasks[t].history), status, action)
  PROVE  Sound
<1> DEFINE last == GetLastStatus(tasks[t].history)
<1>1. /\ tasks' \in [Tasks -> TaskRecord]
      /\ \A x \in Tasks : tasks'[x] = IF x = t THEN new ELSE tasks[x]
  BY DEF Clean, TypeOK, GoodTask
<1>3. /\ project' \in [Counted -> Int]
      /\ \A s \in Counted : project'[s] = project[s] + (IF s = status THEN 1 ELSE 0)
                                                    - (IF s = last THEN 1 ELSE 0)
  BY DEF UpdateStats, Recount, One, Clean, TypeOK
<1>4. tally' \in [Users -> [Tallied -> Int]]
  <2>1. ASSUME NEW credits \in [Tallied -> Int]
        PROVE  Credit(credits, last, status, action) \in [Tallied -> Int]
    BY DEF Credit, One
  <2>2. QED
    BY <2>1 DEF UpdateStats, Clean, TypeOK
<1>5. TypeOK'
  BY <1>1, <1>3, <1>4 DEF TypeOK
<1>6. \A x \in Tasks : (GoodTask(tasks[x]) /\ Settled(tasks[x]))'
  BY <1>1 DEF Clean, GoodTask, Settled, IsLocked
<1>7. ASSUME CountersExact PROVE CountersExact'
  <2>1. ASSUME NEW s \in Counted
        PROVE  project'[s] = Cardinality({x \in Tasks : GetLastStatus(tasks'[x].history) = s})
    <3> DEFINE before == {x \in Tasks : GetLastStatus(tasks[x].history) = s}
               after == {x \in Tasks : GetLastStatus(tasks'[x].history) = s}
    <3>1. /\ before \in SUBSET Tasks
          /\ after \in SUBSET Tasks
          /\ before \ {t} = after \ {t}
          /\ t \in after <=> s = status
          /\ t \in before <=> s = last
      BY <1>1
    <3>2. project[s] = Cardinality(before) /\ project[s] \in Int
      BY <1>7 DEF Clean, TypeOK, CountersExact
    <3> HIDE DEF before, after, last
    <3>3. Cardinality(after) = Cardinality(before) + (IF t \in after THEN 1 ELSE 0)
                                                   - (IF t \in before THEN 1 ELSE 0)
      BY <3>1, CountMoves
    <3>4. project'[s] = Cardinality(after)
      BY <1>3, <3>1, <3>2, <3>3
    <3>5. QED
      BY <3>4 DEF after
  <2>2. QED
    BY <2>1 DEF CountersExact
<1>8. VerdictsUnlocked => VerdictsUnlocked'
  BY <1>1 DEF VerdictsUnlocked, IsLocked
<1>9. QED
  BY <1>5, <1>6, <1>7, <1>8 DEF Clean, Sound

-----------------------------------------------------------------------------
\* A project as it is created satisfies Inv.
LEMMA InitInv == Init => Inv
<1> SUFFICES ASSUME Init PROVE Inv
  OBVIOUS
<1>1. TypeOK
  BY NewTaskGood DEF Init, TypeOK, GoodTask
<1>2. \A t \in Tasks : GoodTask(tasks[t]) /\ Settled(tasks[t])
  BY NewTaskGood DEF Init, Settled, NewTask
<1>3. CountersExact
  <2>1. ASSUME NEW s \in Counted
        PROVE  {t \in Tasks : GetLastStatus(tasks[t].history) = s} = {}
    BY NewTaskGood DEF Init, Counted
  <2>2. \A s \in Counted : project[s] = 0
    BY DEF Init
  <2>3. QED
    BY <2>1, <2>2, FS_EmptySet DEF CountersExact
<1>4. QED
  BY <1>1, <1>2, <1>3 DEF Inv, Clean

\* Every request about one task is sound: lock_task_for_mapping,
\* unlock_task_after_mapping, stop_mapping_task, add_task_comment, undo_mapping,
\* extend_task_lock_time, unlock_tasks_after_validation, stop_validating_tasks.
LEMMA UserStepSound ==
  ASSUME Clean, NEW u \in Users, NEW t \in Tasks, UserStep(u, t)
  PROVE  Sound
<1> DEFINE task == tasks[t]
<1>1. /\ GoodTask(task)
      /\ Settled(task)
      /\ u \in UserOrNone
      /\ Comments \subseteq BOOLEAN
      /\ GetLastStatus(task.history) \in UnlockedStatus
      /\ WellFormed(task.history)
  BY LastStatusType, PermissionAssumption DEF Clean, UserOrNone, GoodTask
<1>3. ASSUME NEW new \in TaskStatus, NEW comment \in Comments,
             UnlockAfterMapping(u, t, new, comment) \/ UnlockAfterValidation(u, t, new, comment)
      PROVE  Sound
  <2> DEFINE after == UnlockTask(task, u, new, comment, FALSE)
  <2>1. /\ new \in UnlockedStatus
        /\ IsLocked(task)
        /\ UpdateStats(u, GetLastStatus(task.history), new, "change")
        /\ tasks' = [tasks EXCEPT ![t] = after]
    BY <1>3 DEF UnlockAfterMapping, UnlockAfterValidation, LockedForMappingBy,
                LockedForValidationBy, UnlockedStatus, LockedStatus, IsLocked
  <2>2. AtRest(after, new)
    BY <1>1, <2>1, UnlockTaskGood
  <2> HIDE DEF after
  <2>3. QED
    BY <2>1, <2>2, StepChangesStatus DEF AtRest, Settled
<1>4. ASSUME NEW comment \in Comments,
             StopMapping(u, t, comment) \/ StopValidating(u, t, comment)
      PROVE  Sound
  <2> DEFINE after == ResetLock(task, u, comment)
  <2>1. /\ IsLocked(task)
        /\ UNCHANGED <<project, tally>>
        /\ tasks' = [tasks EXCEPT ![t] = after]
    BY <1>4 DEF StopMapping, StopValidating, LockedForMappingBy,
                LockedForValidationBy, LockedStatus, IsLocked
  <2>2. /\ GoodTask(after)
        /\ GetLastStatus(after.history) = GetLastStatus(task.history)
        /\ after.status = GetLastStatus(task.history)
        /\ after.locked_by = NoUser
    BY <1>1, <2>1, ResetLockGood
  <2> HIDE DEF after
  <2>3. Settled(after) /\ Lockable(task, after)
    BY <2>1, <2>2 DEF Settled, Lockable
  <2>4. QED
    BY <2>1, <2>2, <2>3, StepKeepsStatus
<1>5. CASE AddTaskComment(u, t)
  <2> DEFINE after == Commented(task, u, TRUE)
  <2>1. /\ tasks' = [tasks EXCEPT ![t] = after]
        /\ UNCHANGED <<project, tally>>
    BY <1>5 DEF AddTaskComment
  <2>2. /\ GoodTask(after)
        /\ GetLastStatus(after.history) = GetLastStatus(task.history)
        /\ after.status = task.status
        /\ after.locked_by = task.locked_by
    BY <1>1, CommentedGood
  <2> HIDE DEF after
  <2>3. Settled(after) /\ Lockable(task, after)
    BY <1>1, <2>2 DEF Settled, Lockable, IsLocked
  <2>4. QED
    BY <2>1, <2>2, <2>3, StepKeepsStatus
<1>6. CASE UndoMapping(u, t)
  <2> DEFINE new == GetUndoStatus(task.history)
             after == UnlockTask(task, u, new, TRUE, TRUE)
  <2>1. /\ ~IsLocked(task)
        /\ UpdateStats(GetLastAction(task.history).user, task.status, new, "undo")
        /\ tasks' = [tasks EXCEPT ![t] = after]
    BY <1>6 DEF UndoMapping, IsTaskUndoable, IsLocked
  <2>2. task.status = GetLastStatus(task.history)
    BY <1>1, <2>1 DEF Settled
  <2>3. new \in UnlockedStatus
    BY <1>1, UndoStatusType
  <2> HIDE DEF new
  <2>4. AtRest(after, new)
    BY <1>1, <2>3, UnlockTaskGood
  <2> HIDE DEF after
  <2>5. QED
    BY <2>1, <2>2, <2>3, <2>4, StepChangesStatus DEF AtRest, Settled
<1>7. CASE ExtendTaskLockTime(u, t)
  <2> DEFINE after == ExtendLock(task, u)
  <2>1. /\ IsLocked(task)
        /\ tasks' = [tasks EXCEPT ![t] = after]
        /\ UNCHANGED <<project, tally>>
    BY <1>7 DEF ExtendTaskLockTime
  <2>2. /\ GoodTask(after)
        /\ GetLastStatus(after.history) = GetLastStatus(task.history)
        /\ after.status = task.status
    BY <1>1, <2>1, ExtendLockGood
  <2> HIDE DEF after
  <2>3. Settled(after) /\ Lockable(task, after)
    BY <2>1, <2>2 DEF Settled, Lockable, IsLocked
  <2>4. QED
    BY <2>1, <2>2, <2>3, StepKeepsStatus
<1>8. QED
  BY <1>3, <1>4, <1>5, <1>6, <1>7 DEF UserStep

\* lock_task_for_mapping is sound, whatever the user holds elsewhere.
LEMMA LockForMappingSound ==
  ASSUME Clean, NEW u \in Users, NEW t \in Tasks, NEW away, LockForMapping(u, t, away)
  PROVE  Sound
<1> DEFINE task == tasks[t]
<1>1. GoodTask(task) /\ Settled(task) /\ u \in UserOrNone
  BY DEF Clean, UserOrNone, GoodTask
<1>2. /\ GoodTask(LockTask(task, "LOCKED_FOR_MAPPING", u))
      /\ GetLastStatus(LockTask(task, "LOCKED_FOR_MAPPING", u).history)
           = GetLastStatus(task.history)
  BY <1>1, LockTaskGood DEF LockedStatus
<1>3. Settled(LockTask(task, "LOCKED_FOR_MAPPING", u))
  BY <1>1 DEF Settled, IsLocked, LockTask, LockedStatus, GoodTask, TaskRecord
<1>4. /\ tasks' = [tasks EXCEPT ![t] = LockTask(task, "LOCKED_FOR_MAPPING", u)]
      /\ UNCHANGED <<project, tally>>
  BY DEF LockForMapping
<1>5. Lockable(task, LockTask(task, "LOCKED_FOR_MAPPING", u))
  BY <1>1, NoUserAssumption DEF LockForMapping, IsMappable, Settled, Lockable
<1>6. QED
  BY <1>2, <1>3, <1>4, <1>5, StepKeepsStatus

\* lock_tasks_for_validation is sound.
LEMMA LockTasksForValidationSound ==
  ASSUME Clean, NEW u \in Users, NEW requested \in SUBSET Tasks, NEW away,
         LockTasksForValidation(u, requested, away)
  PROVE  Sound
<1>1. /\ UNCHANGED <<project, tally>>
      /\ tasks' = [t \in Tasks |-> IF t \in requested
                                   THEN LockTask(tasks[t], "LOCKED_FOR_VALIDATION", u)
                                   ELSE tasks[t]]
  BY DEF LockTasksForValidation
<1>2. ASSUME NEW t \in Tasks
      PROVE  /\ GoodTask(tasks'[t])
             /\ Settled(tasks'[t])
             /\ GetLastStatus(tasks'[t].history) = GetLastStatus(tasks[t].history)
             /\ Lockable(tasks[t], tasks'[t])
  <2> DEFINE locked == LockTask(tasks[t], "LOCKED_FOR_VALIDATION", u)
  <2>1. GoodTask(tasks[t]) /\ Settled(tasks[t]) /\ u \in UserOrNone
    BY DEF Clean, UserOrNone
  <2>2. /\ GoodTask(locked)
        /\ GetLastStatus(locked.history) = GetLastStatus(tasks[t].history)
    BY <2>1, LockTaskGood DEF LockedStatus
  <2>3. Settled(locked)
    BY <2>1 DEF Settled, IsLocked, LockTask, LockedStatus, GoodTask, TaskRecord
  <2>4. tasks'[t] = IF t \in requested THEN locked ELSE tasks[t]
    BY <1>1
  <2>5. t \in requested => IsLocked(tasks[t]) \/ tasks[t].status # "VALIDATED"
    BY DEF LockTasksForValidation, IsLocked, LockedStatus
  <2> HIDE DEF locked
  <2>6. QED
    BY <2>1, <2>2, <2>3, <2>4, <2>5 DEF Lockable
<1>3. tasks' \in [Tasks -> TaskRecord]
  <2>1. \A t \in Tasks : tasks'[t] \in TaskRecord
    BY <1>2 DEF GoodTask
  <2>2. tasks' = [t \in Tasks |-> tasks'[t]]
    BY <1>1
  <2>3. QED
    BY <2>1, <2>2
<1>4. QED
  BY <1>1, <1>2, <1>3, StepKeepsStatuses

\* auto_unlock_tasks is sound.
LEMMA AutoUnlockTaskSound ==
  ASSUME Clean, NEW t \in Tasks, NEW k, AutoUnlockTask(t, k)
  PROVE  Sound
<1> DEFINE after == AutoUnlock(tasks[t], k)
<1>1. /\ tasks' = [tasks EXCEPT ![t] = after]
      /\ UNCHANGED <<project, tally>>
  BY DEF AutoUnlockTask
<1>2. GoodTask(tasks[t]) /\ Settled(tasks[t])
  BY DEF Clean
<1>3. /\ GoodTask(after)
      /\ GetLastStatus(after.history) = GetLastStatus(tasks[t].history)
      /\ \/ after.status = tasks[t].status /\ after.locked_by = tasks[t].locked_by
         \/ after.status = GetLastStatus(tasks[t].history) /\ after.locked_by = NoUser
      /\ IsLocked(after) => after.status = tasks[t].status
  BY <1>2, AutoUnlockGood
<1> HIDE DEF after
<1>4. Settled(after) /\ Lockable(tasks[t], after)
  BY <1>2, <1>3 DEF Settled, Lockable, IsLocked
<1>5. QED
  BY <1>1, <1>3, <1>4, StepKeepsStatus

\* Every step of the two services is sound.
LEMMA StepSound == ASSUME Clean, Next PROVE Sound
BY UserStepSound, LockForMappingSound, LockTasksForValidationSound, AutoUnlockTaskSound
   DEF Next, LockSome, AutoUnlockStep

\* Inv holds in every state of every project.
THEOREM InvHolds == Spec => []Inv
<1>1. ASSUME Inv, [Next]_vars  PROVE Inv'
  <2>1. CASE UNCHANGED vars
    BY <1>1, <2>1 DEF vars, Inv, Clean, TypeOK, GoodTask, Settled, CountersExact
  <2>2. CASE Next
    BY <1>1, <2>2, StepSound DEF Inv, Sound
  <2>3. QED
    BY <1>1, <2>1, <2>2
<1>2. QED
  BY InitInv, <1>1, PTL DEF Spec

\* The part of it the other invariants build on.
LEMMA CleanHolds == Spec => []Clean
<1>1. Inv => Clean
  BY DEF Inv
<1>2. QED
  BY InvHolds, <1>1, PTL

\* Every operation of the mapping and validation services leaves the rows of
\* tasks, task_history and task_invalidation_history, and the counters, of
\* their types.
THEOREM TypeCorrect == Spec => []TypeOK
<1>1. Inv => TypeOK
  BY DEF Inv, Clean
<1>2. QED
  BY InvHolds, <1>1, PTL

\* Whatever locks, stops, undos and automatic releases happened, a task nobody
\* holds is in the status its last STATE_CHANGE row names, so clear_lock and
\* reset_lock put a task back where it was.
THEOREM StatusCorrect == Spec => []StatusOnRecord
<1>1. Inv => StatusOnRecord
  BY DEF Inv, Clean, Settled, StatusOnRecord
<1>2. QED
  BY InvHolds, <1>1, PTL

\* tasks_mapped, tasks_validated and tasks_bad_imagery of a project are exactly
\* the numbers of its tasks so recorded, after any sequence of the requests of
\* the mapping and validation services, undos included.
THEOREM CountersCorrect == Spec => []CountersExact
<1>1. Inv => CountersExact
  BY DEF Inv
<1>2. QED
  BY InvHolds, <1>1, PTL

----------------------------------------------------------------------------
(***************************************************************************)
(* That a lock is on record and will be found by the automatic release,    *)
(* that nobody gets a second one, and that no row about a change of status *)
(* or a comment is ever lost.                                              *)
(*                                                                         *)
(* Held is the invariant: a locked task has a row for its lock, the newest *)
(* of the rows LOCKED and AUTO_UNLOCKED, and an open row no older.  Two    *)
(* operations rewrite rows and could spoil it.  Closing a lock deletes     *)
(* duplicates, but never the newest row of the lock; expiring rows may     *)
(* pass over the lock's row only if it leaves an open row behind it.       *)
(***************************************************************************)

LockActions == LockedStatus \cup AutoActions

\* Row p is the one the task's lock was recorded with.
LockRowAt(task, p) ==
  LET h == task.history IN
  /\ p \in 1..Len(h) /\ h[p].action = task.status /\ h[p].user = task.locked_by
  /\ \A j \in 1..Len(h) : j > p => h[j].action \notin LockActions

Held(task) ==
  IF IsLocked(task)
  THEN /\ task.locked_by # NoUser
       /\ \E p \in 1..Len(task.history) : /\ LockRowAt(task, p)
                                          /\ \E q \in OpenLockRows(task.history) : q >= p
  ELSE task.locked_by = NoUser

\* g has the changes of status and the comments of h, where they were.
KeepsRecords(h, g) ==
  \A i \in RowsOf(h, {"STATE_CHANGE", "COMMENT"}) : i \in DOMAIN g /\ g[i] = h[i]

\* What every operation does to a task.
Preserves(task, new) == Held(new) /\ KeepsRecords(task.history, new.history)

----------------------------------------------------------------------------
(* Rows.                                                                   *)

LEMMA KeepsTransitive ==
  ASSUME NEW h, NEW g, NEW f, KeepsRecords(h, g), KeepsRecords(g, f) PROVE KeepsRecords(h, f)
  BY DEF KeepsRecords, RowsOf

LEMMA KeepsItself == ASSUME NEW h PROVE KeepsRecords(h, h)
  BY DEF KeepsRecords, RowsOf

LEMMA AppendKeeps == ASSUME NEW h \in Seq(Row), NEW row \in Row PROVE KeepsRecords(h, Append(h, row))
  BY Appended, Positions DEF KeepsRecords

\* Closing a lock rewrites rows of that lock and user only, and keeps the newest.
LEMMA CloseLockRows ==
  ASSUME NEW h \in Seq(Row), NEW action \in LockedStatus, NEW u
  PROVE  LET g == CloseLock(h, action, u) IN
         /\ g \in Seq(Row) /\ Len(g) = Len(h)
         /\ \A i \in 1..Len(h) : \/ g[i] = h[i]
                                 \/ /\ h[i].action = action /\ h[i].user = u
                                    /\ g[i].action \in {action, "DELETED"}
         /\ \A p \in 1..Len(h) :
              /\ h[p].action = action /\ h[p].user = u
              /\ \A j \in 1..Len(h) : j > p => h[j].action # action
              => g[p].action = action /\ g[p].user = u
<1> DEFINE mine == {i \in RowsOf(h, {action}) : h[i].user = u}
           open == {i \in mine : h[i].text = "open"}
           keep == Max(open)
           dupes == {i \in mine : \E j \in open \ {keep} : i <= j}
           g == [i \in DOMAIN h |-> IF i = keep THEN [h[i] EXCEPT !.text = "closed"]
                                    ELSE IF i \in dupes THEN Deleted ELSE h[i]]
<1>1. /\ Len(h) \in Nat /\ DOMAIN h = 1..Len(h) /\ \A i \in 1..Len(h) : h[i] \in Row
      /\ RowsOf(h, {action}) \subseteq 1..Len(h)
  BY Positions
<1>2. CloseLock(h, action, u) \in Seq(Row) /\ Len(CloseLock(h, action, u)) = Len(h)
  BY CloseLockKeeps DEF KeepsChanges
<1>3. CASE open = {}
  <2>1. CloseLock(h, action, u) = h
    BY <1>3 DEF CloseLock
  <2> QED BY <2>1
<1>4. CASE open # {}
  <2>1. CloseLock(h, action, u) = g
    BY <1>4 DEF CloseLock
  <2>2. keep \in open /\ \A j \in open : j <= keep
    BY <1>1, <1>4, MaxOfPositions
  <2>3. \A i \in {keep} \cup dupes : i \in 1..Len(h) /\ h[i].action = action /\ h[i].user = u
    BY <1>1, <2>2 DEF RowsOf
  <2>4. ASSUME NEW p \in dupes PROVE \E j \in 1..Len(h) : j > p /\ h[j].action = action
    <3>1. PICK j \in open \ {keep} : p <= j
      OBVIOUS
    <3>2. j <= keep /\ j # keep /\ keep \in 1..Len(h) /\ j \in 1..Len(h) /\ p \in 1..Len(h)
      <4>1. \A i \in open : i \in RowsOf(h, {action})
        OBVIOUS
      <4>2. \A i \in dupes : i \in RowsOf(h, {action})
        OBVIOUS
      <4> QED BY <1>1, <2>2, <3>1, <4>1, <4>2
    <3>3. h[keep].action = action /\ keep \in 1..Len(h)
      BY <2>3
    <3> HIDE DEF keep
    <3>4. keep > p
      BY <1>1, <3>1, <3>2
    <3> QED BY <3>3, <3>4
  <2> HIDE DEF keep, dupes
  <2>5. \A i \in 1..Len(h) : [h[i] EXCEPT !.text = "closed"].action = h[i].action
                             /\ [h[i] EXCEPT !.text = "closed"].user = h[i].user
    BY <1>1 DEF Row
  <2>6. \A i \in 1..Len(h) : g[i] = IF i = keep THEN [h[i] EXCEPT !.text = "closed"]
                                    ELSE IF i \in dupes THEN Deleted ELSE h[i]
    BY <1>1
  <2> HIDE DEF g
  <2>7. Deleted.action = "DELETED"
    BY DEF Deleted
  <2>8. \A i \in 1..Len(h) : \/ g[i] = h[i]
                             \/ /\ h[i].action = action /\ h[i].user = u
                                /\ g[i].action \in {action, "DELETED"}
    BY <2>3, <2>5, <2>6, <2>7
  <2>9. ASSUME NEW p \in 1..Len(h), h[p].action = action, h[p].user = u,
               \A j \in 1..Len(h) : j > p => h[j].action # action
        PROVE  g[p].action = action /\ g[p].user = u
    <3>1. p \notin dupes
      BY <2>4, <2>9
    <3> QED BY <2>5, <2>6, <2>9, <3>1
  <2> QED BY <1>2, <2>1, <2>8, <2>9
<1> QED BY <1>3, <1>4

LEMMA CloseLockKeepsRecords ==
  ASSUME NEW h \in Seq(Row), NEW action \in LockedStatus, NEW u PROVE KeepsRecords(h, CloseLock(h, action, u))
<1> DEFINE g == CloseLock(h, action, u)
<1>1. /\ g \in Seq(Row) /\ Len(g) = Len(h)
      /\ \A i \in 1..Len(h) : g[i] = h[i] \/ h[i].action = action
  BY CloseLockRows
<1>2. DOMAIN g = 1..Len(h) /\ DOMAIN h = 1..Len(h) /\ action \notin {"STATE_CHANGE", "COMMENT"}
  BY <1>1, Positions DEF LockedStatus
<1> HIDE DEF g
<1> QED BY <1>1, <1>2 DEF KeepsRecords, RowsOf, g

\* Expiring rows rewrites the open ones before the expiry date, and no others.
LEMMA ExpireRowsRows ==
  ASSUME NEW h \in Seq(Row), NEW k
  PROVE  LET g == ExpireRows(h, k) IN
         /\ g \in Seq(Row) /\ Len(g) = Len(h)
         /\ \A i \in 1..Len(h) : IF i <= k /\ i \in OpenLockRows(h) THEN g[i].action \in AutoActions ELSE g[i] = h[i]
         /\ KeepsRecords(h, g)
<1> DEFINE g == ExpireRows(h, k)
<1>1. g \in Seq(Row) /\ Len(g) = Len(h)
  BY ExpireRowsKeeps DEF KeepsChanges
<1>2. DOMAIN h = 1..Len(h) /\ DOMAIN g = 1..Len(h)
  BY <1>1, Positions
<1>3. \A i \in 1..Len(h) : IF i <= k /\ i \in OpenLockRows(h) THEN g[i].action \in AutoActions ELSE g[i] = h[i]
  BY <1>2 DEF ExpireRows, AutoActions
<1> HIDE DEF g
<1>4. KeepsRecords(h, g)
  BY <1>2, <1>3 DEF KeepsRecords, RowsOf, OpenLockRows, LockedStatus, ExtendActions
<1> QED BY <1>1, <1>3, <1>4 DEF g

----------------------------------------------------------------------------
(* Operations.                                                             *)

\* A new lock is its own newest and open row.
LEMMA LockTaskPreserves ==
  ASSUME NEW task, GoodTask(task), NEW status \in LockedStatus, NEW u \in Users
  PROVE  Preserves(task, LockTask(task, status, u))
<1> DEFINE row == LockRow(status, u)
           h == task.history
           new == LockTask(task, status, u)
           n == Len(h) + 1
<1>1. row \in Row /\ row.action = status /\ row.text = "open" /\ row.user = u
  BY RowTypes DEF UserOrNone, LockRow, TaskAction
<1>2. h \in Seq(Row) /\ Len(h) \in Nat
  BY Positions DEF GoodTask, WellFormed
<1>3. new.history = Append(h, row) /\ new.status = status /\ new.locked_by = u
  BY DEF LockTask, GoodTask, TaskRecord
<1> HIDE DEF row, h, new
<1>4. /\ Append(h, row) \in Seq(Row) /\ Len(Append(h, row)) = n /\ Append(h, row)[n] = row
      /\ KeepsRecords(h, Append(h, row))
  BY <1>1, <1>2, Appended, AppendKeeps
<1>5. n \in OpenLockRows(Append(h, row))
  BY <1>1, <1>2, <1>4 DEF OpenLockRows, RowsOf
<1>6. LockRowAt(new, n)
  BY <1>1, <1>2, <1>3, <1>4 DEF LockRowAt
<1>7. n \in 1..Len(new.history) /\ n >= n
  BY <1>2, <1>3, <1>4
<1>8. Held(new)
  BY <1>3, <1>5, <1>6, <1>7, NoUserAssumption DEF Held, IsLocked
<1> QED BY <1>3, <1>4, <1>8 DEF Preserves, h, new

\* A comment is no row about a lock.
LEMMA CommentedPreserves ==
  ASSUME NEW task, GoodTask(task), Held(task), NEW u \in UserOrNone, NEW comment
  PROVE  Preserves(task, Commented(task, u, comment))
<1> DEFINE row == CommentRow(u)
           h == task.history
           g == Append(h, row)
           new == Commented(task, u, comment)
<1>1. CASE ~comment
  BY <1>1, KeepsItself DEF Commented, Preserves
<1>2. CASE comment
  <2>1. row \in Row /\ row.action = "COMMENT"
    BY RowTypes DEF CommentRow
  <2>2. h \in Seq(Row) /\ Len(h) \in Nat
    BY Positions DEF GoodTask, WellFormed
  <2>3. new.history = g /\ new.status = task.status /\ new.locked_by = task.locked_by
    BY <1>2 DEF Commented, GoodTask, TaskRecord
  <2> HIDE DEF row, new
  <2>4. /\ g \in Seq(Row) /\ Len(g) = Len(h) + 1 /\ g[Len(h) + 1] = row
        /\ \A i \in 1..Len(h) : g[i] = h[i]
        /\ KeepsRecords(h, g)
    BY <2>1, <2>2, Appended, AppendKeeps
  <2> HIDE DEF g
  <2>5. CASE IsLocked(task)
    <3>1. PICK p \in 1..Len(h) : LockRowAt(task, p) /\ \E q \in OpenLockRows(h) : q >= p
      BY <2>5 DEF Held
    <3>2. PICK q \in OpenLockRows(h) : q >= p
      BY <3>1
    <3>3. q \in 1..Len(h)
      BY <2>2, Positions DEF OpenLockRows, RowsOf
    <3>4. q \in OpenLockRows(g)
      BY <2>2, <2>4, <3>3 DEF OpenLockRows, RowsOf
    <3>5. \A j \in 1..Len(g) : j > p => g[j].action \notin LockActions
      <4>1. "COMMENT" \notin LockActions
        BY DEF LockActions, LockedStatus, AutoActions
      <4>2. \A j \in 1..Len(g) : j \in 1..Len(h) \/ j = Len(h) + 1
        BY <2>2, <2>4
      <4> QED BY <2>1, <2>4, <3>1, <4>1, <4>2 DEF LockRowAt
    <3>6. p \in 1..Len(g) /\ g[p] = h[p]
      BY <2>2, <2>4
    <3>7. LockRowAt(new, p)
      BY <2>3, <3>1, <3>5, <3>6 DEF LockRowAt
    <3>8. Held(new)
      BY <2>3, <2>5, <3>1, <3>2, <3>4, <3>6, <3>7 DEF Held, IsLocked
    <3> QED BY <2>3, <2>4, <3>8 DEF Preserves, new, g
  <2>6. CASE ~IsLocked(task)
    <3>1. Held(new)
      BY <2>3, <2>6 DEF Held, IsLocked
    <3> QED BY <2>3, <2>4, <3>1 DEF Preserves, new, g
  <2> QED BY <2>5, <2>6
<1> QED BY <1>1, <1>2

\* The rows a released task has, whichever way it is released.
LEMMA CommentedRecords ==
  ASSUME NEW task, GoodTask(task), NEW u \in UserOrNone, NEW comment
  PROVE  /\ Commented(task, u, comment).history \in Seq(Row)
         /\ KeepsRecords(task.history, Commented(task, u, comment).history)
<1>1. CommentRow(u) \in Row /\ task.history \in Seq(Row) /\ Append(task.history, CommentRow(u)) \in Seq(Row)
  BY RowTypes, Appended DEF GoodTask, WellFormed
<1>2. Commented(task, u, comment).history \in {task.history, Append(task.history, CommentRow(u))}
  BY DEF Commented, GoodTask, TaskRecord
<1> QED BY <1>1, <1>2, AppendKeeps, KeepsItself

LEMMA ResetLockPreserves ==
  ASSUME NEW task, GoodTask(task), IsLocked(task), NEW u \in UserOrNone, NEW comment
  PROVE  Preserves(task, ResetLock(task, u, comment))
<1> DEFINE noted == Commented(task, u, comment)
           new == ResetLock(task, u, comment)
<1>1. GoodTask(new) /\ new.locked_by = NoUser /\ ~IsLocked(new)
  BY ResetLockGood
<1>2. GoodTask(noted) /\ noted.history \in Seq(Row) /\ KeepsRecords(task.history, noted.history)
  BY CommentedGood, CommentedRecords
<1>3. new.history = CloseLock(noted.history, task.status, u)
  BY <1>2 DEF ResetLock, ClearLock, GoodTask, TaskRecord
<1> HIDE DEF noted, new
<1>4. KeepsRecords(noted.history, new.history)
  BY <1>2, <1>3, CloseLockKeepsRecords DEF IsLocked
<1>5. Held(new)
  BY <1>1 DEF Held
<1> QED BY <1>2, <1>4, <1>5, KeepsTransitive DEF Preserves, new

LEMMA UnlockTaskPreserves ==
  ASSUME NEW task, GoodTask(task), NEW u \in UserOrNone, NEW status \in UnlockedStatus, NEW comment, NEW undo,
         IsLocked(task) \/ undo = TRUE
  PROVE  Preserves(task, UnlockTask(task, u, status, comment, undo))
<1> DEFINE noted == Commented(task, u, comment)
           changed == Append(noted.history, StateChangeRow(status, u))
           new == UnlockTask(task, u, status, comment, undo)
<1>1. new.locked_by = NoUser /\ ~IsLocked(new)
  BY DEF UnlockTask, IsLocked, UnlockedStatus
<1>2. noted.history \in Seq(Row) /\ KeepsRecords(task.history, noted.history)
  BY CommentedRecords
<1>3. new.history = IF undo THEN changed ELSE CloseLock(changed, task.status, u)
  BY DEF UnlockTask
<1>4. StateChangeRow(status, u) \in Row
  BY RowTypes DEF UnlockedStatus
<1> HIDE DEF noted, new
<1>5. changed \in Seq(Row) /\ KeepsRecords(noted.history, changed)
  BY <1>2, <1>4, Appended, AppendKeeps
<1> HIDE DEF changed
<1>6. KeepsRecords(changed, new.history)
  BY <1>3, <1>5, CloseLockKeepsRecords, KeepsItself DEF IsLocked
<1>7. Held(new)
  BY <1>1 DEF Held
<1> QED BY <1>2, <1>5, <1>6, <1>7, KeepsTransitive DEF Preserves, new

\* Extending closes the old rows and leaves a new open one behind the lock's row.
LEMMA ExtendLockPreserves ==
  ASSUME NEW task, GoodTask(task), Held(task), IsLocked(task)
  PROVE  Preserves(task, ExtendLock(task, task.locked_by))
<1> DEFINE u == task.locked_by
           h == task.history
           g == CloseLock(h, task.status, u)
           row == LockRow(ExtendAction(task.status), u)
           f == Append(g, row)
           new == ExtendLock(task, u)
<1>1. PICK p \in 1..Len(h) : LockRowAt(task, p)
  BY DEF Held
<1>2. /\ row \in Row /\ row.action = "EXTENDED_FOR_MAPPING" /\ row.text = "open"
      /\ task.status \in LockedStatus
  BY RowTypes DEF GoodTask, TaskRecord, IsLocked, LockRow, ExtendAction, TaskAction, ExtendActions
<1>3. h \in Seq(Row) /\ Len(h) \in Nat
  BY Positions DEF GoodTask, WellFormed
<1>4. new.history = f /\ new.status = task.status /\ new.locked_by = u
  BY DEF ExtendLock, GoodTask, TaskRecord
<1> HIDE DEF new, row
<1>5. \A j \in 1..Len(h) : j > p => h[j].action # task.status
  BY <1>1, <1>2 DEF LockRowAt, LockActions
<1>6. /\ g \in Seq(Row) /\ Len(g) = Len(h)
      /\ \A i \in 1..Len(h) : g[i] = h[i] \/ (h[i].action = task.status /\ g[i].action \in {task.status, "DELETED"})
      /\ g[p].action = task.status /\ g[p].user = u
      /\ KeepsRecords(h, g)
  BY <1>1, <1>2, <1>3, <1>5, CloseLockRows, CloseLockKeepsRecords DEF LockRowAt
<1> HIDE DEF g
<1>7. /\ f \in Seq(Row) /\ Len(f) = Len(h) + 1 /\ f[Len(h) + 1] = row
      /\ \A i \in 1..Len(h) : f[i] = g[i]
      /\ KeepsRecords(g, f)
  BY <1>2, <1>6, Appended, AppendKeeps
<1> HIDE DEF f
<1>8. \A j \in 1..Len(f) : j > p => f[j].action \notin LockActions
  <2>1. row.action \notin LockActions
    BY <1>2 DEF LockActions, LockedStatus, AutoActions
  <2>2. \A j \in 1..Len(h) : j > p => g[j].action \notin LockActions
    BY <1>1, <1>5, <1>6 DEF LockRowAt
  <2>3. \A j \in 1..Len(f) : j \in 1..Len(h) \/ j = Len(h) + 1
    BY <1>3, <1>7
  <2> QED BY <1>7, <2>1, <2>2, <2>3
<1>9. p \in 1..Len(f) /\ Len(h) + 1 >= p
  BY <1>3, <1>7
<1>10. Len(h) + 1 \in OpenLockRows(f)
  BY <1>2, <1>3, <1>7 DEF OpenLockRows, RowsOf, ExtendActions
<1>11. LockRowAt(new, p)
  BY <1>4, <1>6, <1>7, <1>8, <1>9 DEF LockRowAt
<1>12. Held(new)
  BY <1>4, <1>9, <1>10, <1>11 DEF Held, IsLocked
<1> QED BY <1>4, <1>6, <1>7, <1>12, KeepsTransitive DEF Preserves, new

\* Expiring rows either releases the lock or passes over its row and leaves an open one behind it.
LEMMA AutoUnlockPreserves ==
  ASSUME NEW task, GoodTask(task), Held(task), IsLocked(task), NEW k \in Int
  PROVE  Preserves(task, AutoUnlock(task, k))
<1> DEFINE h == task.history
           g == ExpireRows(h, k)
           expired == [task EXCEPT !.history = ExpireRows(@, k)]
           new == AutoUnlock(task, k)
           m == LastLockedOrAutoUnlocked(g)
<1>1. h \in Seq(Row) /\ Len(h) \in Nat
  BY Positions DEF GoodTask, WellFormed
<1>2. /\ g \in Seq(Row) /\ Len(g) = Len(h) /\ KeepsRecords(h, g)
      /\ \A i \in 1..Len(h) : IF i <= k /\ i \in OpenLockRows(h) THEN g[i].action \in AutoActions ELSE g[i] = h[i]
  BY <1>1, ExpireRowsRows
<1>3. expired.history = g /\ expired.status = task.status /\ expired.locked_by = task.locked_by
  BY DEF GoodTask, TaskRecord
<1>4. new = IF g[m].action \in AutoActions THEN ClearLock(expired) ELSE expired
  BY <1>3 DEF AutoUnlock
<1>5. GoodTask(expired)
  <2>1. KeepsChanges(h, g)
    BY <1>1, ExpireRowsKeeps
  <2>2. expired \in TaskRecord /\ expired.invalidations = task.invalidations
    BY <1>2 DEF GoodTask, TaskRecord
  <2> HIDE DEF expired, g
  <2> QED BY <1>3, <2>1, <2>2, NewHistory
<1> HIDE DEF expired, new, g, m
<1>6. CASE g[m].action \in AutoActions
  <2>1. new.history = g /\ new.locked_by = NoUser /\ ~IsLocked(new)
    BY <1>3, <1>4, <1>5, <1>6, ClearLockGood
  <2> QED BY <1>2, <2>1 DEF Preserves, Held, new
<1>7. CASE g[m].action \notin AutoActions
  <2>1. PICK p \in 1..Len(h) : LockRowAt(task, p) /\ \E q \in OpenLockRows(h) : q >= p
    BY DEF Held
  <2>2. PICK q \in OpenLockRows(h) : q >= p
    BY <2>1
  <2>3. q \in 1..Len(h)
    BY <1>1, Positions DEF OpenLockRows, RowsOf
  <2>4. h[p].action \in LockedStatus
    BY <2>1 DEF LockRowAt, IsLocked
  <2>5. g[p].action \in LockActions
    BY <1>2, <2>4 DEF LockActions
  <2>6. /\ m \in 1..Len(g) /\ g[m].action \in LockActions
        /\ \A j \in 1..Len(g) : g[j].action \in LockActions => j <= m
    <3>1. p \in RowsOf(g, LockActions)
      BY <1>1, <1>2, <2>5 DEF RowsOf
    <3> QED BY <1>2, <3>1, NewestRow DEF m, LastLockedOrAutoUnlocked, LockActions
  <2>7. m = p
    <3>1. p <= m
      BY <1>2, <2>5, <2>6
    <3>2. g[m] = h[m]
      BY <1>2, <1>7, <2>6
    <3>3. ~(m > p)
      BY <1>2, <2>1, <2>6, <3>2 DEF LockRowAt
    <3> QED BY <1>1, <1>2, <2>6, <3>1, <3>3
  <2>8. g[p] = h[p] /\ ~(p <= k /\ p \in OpenLockRows(h))
    BY <1>2, <1>7, <2>7
  <2>9. ~(q <= k)
    <3>1. SUFFICES ASSUME q <= k PROVE FALSE
      OBVIOUS
    <3>2. g[q].action \in LockActions
      BY <1>2, <2>3, <3>1 DEF LockActions
    <3>3. q <= p
      BY <1>2, <2>3, <2>6, <2>7, <3>2
    <3>4. q = p
      BY <2>2, <2>3, <3>3
    <3> QED BY <2>2, <2>8, <3>1, <3>4
  <2>10. q \in OpenLockRows(g)
    <3>1. g[q] = h[q]
      BY <1>2, <2>3, <2>9
    <3> QED BY <1>1, <1>2, <2>2, <2>3, <3>1 DEF OpenLockRows, RowsOf
  <2>11. \A j \in 1..Len(g) : j > p => g[j].action \notin LockActions
    BY <1>1, <1>2, <2>6, <2>7
  <2>12. new.history = g /\ new.status = task.status /\ new.locked_by = task.locked_by
    BY <1>3, <1>4, <1>7
  <2>13. LockRowAt(new, p) /\ p \in 1..Len(g)
    BY <1>2, <2>1, <2>8, <2>11, <2>12 DEF LockRowAt
  <2>14. Held(new)
    BY <2>2, <2>10, <2>12, <2>13 DEF Held, IsLocked
  <2> QED BY <1>2, <2>12, <2>14 DEF Preserves, new
<1> QED BY <1>6, <1>7

----------------------------------------------------------------------------
(* Steps.                                                                  *)

Locks == \A t \in Tasks : Held(tasks[t])

Preserved == \A t \in Tasks : Preserves(tasks[t], tasks'[t])

\* What one task goes through, the others do not.
LEMMA OneTask ==
  ASSUME Clean, Locks, NEW t \in Tasks, NEW new, tasks' = [tasks EXCEPT ![t] = new], Preserves(tasks[t], new)
  PROVE  Preserved
<1>1. \A x \in Tasks : tasks'[x] = IF x = t THEN new ELSE tasks[x]
  BY DEF Clean, TypeOK
<1>2. \A x \in Tasks : Preserves(tasks[x], tasks[x])
  BY KeepsItself DEF Locks, Preserves
<1> QED BY <1>1, <1>2 DEF Preserved

LEMMA UserStepPreserves ==
  ASSUME Clean, Locks, NEW u \in Users, NEW t \in Tasks, UserStep(u, t) PROVE Preserved
<1> DEFINE task == tasks[t]
<1>1. GoodTask(task) /\ Held(task) /\ WellFormed(task.history) /\ u \in UserOrNone
  BY DEF Clean, Locks, GoodTask, UserOrNone
<1>3. ASSUME NEW new \in TaskStatus, NEW comment \in Comments,
             UnlockAfterMapping(u, t, new, comment) \/ UnlockAfterValidation(u, t, new, comment)
      PROVE  Preserved
  <2> DEFINE after == UnlockTask(task, u, new, comment, FALSE)
  <2>1. new \in UnlockedStatus /\ IsLocked(task) /\ tasks' = [tasks EXCEPT ![t] = after]
    BY <1>3 DEF UnlockAfterMapping, UnlockAfterValidation, LockedForMappingBy,
                LockedForValidationBy, UnlockedStatus, LockedStatus, IsLocked
  <2>2. Preserves(task, after)
    BY <1>1, <2>1, UnlockTaskPreserves
  <2> QED BY <2>1, <2>2, OneTask
<1>4. ASSUME NEW comment \in Comments, StopMapping(u, t, comment) \/ StopValidating(u, t, comment)
      PROVE  Preserved
  <2> DEFINE after == ResetLock(task, u, comment)
  <2>1. IsLocked(task) /\ tasks' = [tasks EXCEPT ![t] = after]
    BY <1>4 DEF StopMapping, StopValidating, LockedForMappingBy, LockedForValidationBy, LockedStatus, IsLocked
  <2>2. Preserves(task, after)
    BY <1>1, <2>1, ResetLockPreserves
  <2> QED BY <2>1, <2>2, OneTask
<1>5. CASE AddTaskComment(u, t)
  <2>1. tasks' = [tasks EXCEPT ![t] = Commented(task, u, TRUE)]
    BY <1>5 DEF AddTaskComment
  <2>2. Preserves(task, Commented(task, u, TRUE))
    BY <1>1, CommentedPreserves
  <2> QED BY <2>1, <2>2, OneTask
<1>6. CASE UndoMapping(u, t)
  <2> DEFINE after == UnlockTask(task, u, GetUndoStatus(task.history), TRUE, TRUE)
  <2>1. tasks' = [tasks EXCEPT ![t] = after]
    BY <1>6 DEF UndoMapping
  <2>2. Preserves(task, after)
    BY <1>1, UndoStatusType, UnlockTaskPreserves
  <2> QED BY <2>1, <2>2, OneTask
<1>7. CASE ExtendTaskLockTime(u, t)
  <2>1. IsLocked(task) /\ task.locked_by = u /\ tasks' = [tasks EXCEPT ![t] = ExtendLock(task, u)]
    BY <1>7 DEF ExtendTaskLockTime
  <2>2. Preserves(task, ExtendLock(task, u))
    BY <1>1, <2>1, ExtendLockPreserves
  <2> QED BY <2>1, <2>2, OneTask
<1> QED BY <1>3, <1>4, <1>5, <1>6, <1>7 DEF UserStep

LEMMA StepPreserves == ASSUME Clean, Locks, Next PROVE Preserved
<1>0. ASSUME NEW u \in Users, NEW t \in Tasks, NEW away, LockForMapping(u, t, away)
      PROVE  Preserved
  <2>1. tasks' = [tasks EXCEPT ![t] = LockTask(tasks[t], "LOCKED_FOR_MAPPING", u)]
    BY <1>0 DEF LockForMapping
  <2>2. Preserves(tasks[t], LockTask(tasks[t], "LOCKED_FOR_MAPPING", u))
    BY LockTaskPreserves DEF Clean, Locks, LockedStatus
  <2> QED BY <2>1, <2>2, OneTask
<1>1. ASSUME NEW u \in Users, NEW requested \in SUBSET Tasks, NEW away,
             LockTasksForValidation(u, requested, away)
      PROVE  Preserved
  <2>1. ASSUME NEW t \in Tasks
        PROVE  /\ Preserves(tasks[t], tasks[t])
               /\ Preserves(tasks[t], LockTask(tasks[t], "LOCKED_FOR_VALIDATION", u))
    BY KeepsItself, LockTaskPreserves DEF Clean, Locks, Preserves, LockedStatus
  <2>2. tasks' = [t \in Tasks |-> IF t \in requested
                                  THEN LockTask(tasks[t], "LOCKED_FOR_VALIDATION", u) ELSE tasks[t]]
    BY <1>1 DEF LockTasksForValidation
  <2> QED BY <2>1, <2>2 DEF Preserved
<1>2. ASSUME NEW t \in Tasks, NEW k \in DOMAIN tasks[t].history, AutoUnlockTask(t, k)
      PROVE  Preserved
  <2>1. IsLocked(tasks[t]) /\ tasks' = [tasks EXCEPT ![t] = AutoUnlock(tasks[t], k)]
    BY <1>2 DEF AutoUnlockTask
  <2>2. GoodTask(tasks[t]) /\ Held(tasks[t]) /\ k \in Int
    BY Positions DEF Clean, Locks, GoodTask, WellFormed
  <2>3. Preserves(tasks[t], AutoUnlock(tasks[t], k))
    BY <2>1, <2>2, AutoUnlockPreserves
  <2> QED BY <2>1, <2>3, OneTask
<1> QED BY <1>0, <1>1, <1>2, UserStepPreserves DEF Next, LockSome, AutoUnlockStep

LEMMA LocksHold == Spec => []Locks
<1>1. Init => Locks
  BY DEF Init, Locks, Held, NewTask, IsLocked, LockedStatus
<1>2. ASSUME Clean, Locks, [Next]_vars PROVE Locks'
  <2>1. CASE Next
    <3>1. Preserved
      BY <1>2, <2>1, StepPreserves
    <3> QED BY <3>1 DEF Preserved, Preserves, Locks, Held, LockRowAt, IsLocked, OpenLockRows
  <2>2. CASE UNCHANGED vars
    BY <1>2, <2>2 DEF vars, Locks, Held, LockRowAt, IsLocked
  <2> QED BY <1>2, <2>1, <2>2
<1> QED BY CleanHolds, <1>1, <1>2, PTL DEF Spec

----------------------------------------------------------------------------
\* In a good task that is held, the row of the lock is what both queries find.
LEMMA LockRowFound ==
  ASSUME NEW task, GoodTask(task), IsLocked(task), NEW p, LockRowAt(task, p)
  PROVE  /\ p = LastLockedOrAutoUnlocked(task.history)
         /\ p = LastLocked(task.history)
         /\ p \in RowsOf(task.history, LockActions)
<1> DEFINE h == task.history
<1>1. h \in Seq(Row) /\ Len(h) \in Nat /\ DOMAIN h = 1..Len(h)
  BY Positions DEF GoodTask, WellFormed
<1>2. p \in 1..Len(h) /\ h[p].action \in LockedStatus /\ \A j \in 1..Len(h) : j > p => h[j].action \notin LockActions
  BY DEF LockRowAt, IsLocked
<1> HIDE DEF h
<1>3. ASSUME NEW actions, LockedStatus \subseteq actions, actions \subseteq LockActions
      PROVE  p \in RowsOf(h, actions) /\ p = Max(RowsOf(h, actions))
  <2>1. p \in RowsOf(h, actions)
    BY <1>1, <1>2, <1>3 DEF RowsOf
  <2> DEFINE m == Max(RowsOf(h, actions))
  <2>2. m \in 1..Len(h) /\ h[m].action \in actions /\ \A j \in 1..Len(h) : h[j].action \in actions => j <= m
    BY <1>1, <2>1, NewestRow
  <2> HIDE DEF m
  <2>3. p <= m /\ ~(m > p)
    BY <1>2, <1>3, <2>2
  <2>4. p = m
    BY <1>1, <1>2, <2>2, <2>3
  <2> QED BY <2>1, <2>4 DEF m
<1> QED BY <1>3 DEF LastLockedOrAutoUnlocked, LastLocked, LockActions, h

\* Locks that have their rows are on record.
LEMMA LocksRecorded == ASSUME Clean, Locks PROVE LockOnRecord
<1>1. ASSUME NEW t \in Tasks, IsLocked(tasks[t])
      PROVE  LET h == tasks[t].history
                 i == LastLockedOrAutoUnlocked(h)
             IN  /\ tasks[t].locked_by # NoUser
                 /\ RowsOf(h, LockedStatus \cup AutoActions) # {}
                 /\ h[i].action = tasks[t].status
                 /\ h[i].user = tasks[t].locked_by
  <2>1. tasks[t].locked_by # NoUser /\ \E p \in 1..Len(tasks[t].history) : LockRowAt(tasks[t], p)
    BY <1>1 DEF Locks, Held
  <2>2. PICK p \in 1..Len(tasks[t].history) : LockRowAt(tasks[t], p)
    BY <2>1
  <2>3. p = LastLockedOrAutoUnlocked(tasks[t].history) /\ p \in RowsOf(tasks[t].history, LockActions)
    BY <1>1, <2>2, LockRowFound DEF Clean
  <2> QED BY <2>1, <2>2, <2>3 DEF LockRowAt, LockActions
<1> QED BY <1>1 DEF LockOnRecord, Locks, Held

\* A task is locked exactly when it has a holder, and then the newest of its
\* LOCKED and AUTO_UNLOCKED rows is the holder's, for the lock that is held:
\* what record_auto_unlock and auto_unlock_expired_tasks take for granted.
THEOREM LockRecorded == Spec => []LockOnRecord
BY CleanHolds, LocksHold, LocksRecorded, PTL

\* A locked task keeps an open row no older than its lock, so auto_unlock_tasks
\* finds it however often the lock was extended or passed over.
THEOREM LockReapable == Spec => []LockIsReapable
<1>1. ASSUME Clean, Locks PROVE LockIsReapable
  <2>1. ASSUME NEW t \in Tasks, IsLocked(tasks[t])
        PROVE  \E i \in OpenLockRows(tasks[t].history) : i >= LastLocked(tasks[t].history)
    <3>1. PICK p \in 1..Len(tasks[t].history) :
            LockRowAt(tasks[t], p) /\ \E q \in OpenLockRows(tasks[t].history) : q >= p
      BY <1>1, <2>1 DEF Locks, Held
    <3>2. p = LastLocked(tasks[t].history)
      BY <1>1, <2>1, <3>1, LockRowFound DEF Clean
    <3> QED BY <3>1, <3>2
  <2> QED BY <2>1 DEF LockIsReapable
<1> QED BY CleanHolds, LocksHold, <1>1, PTL

\* No operation removes or rewrites a STATE_CHANGE or COMMENT row: deleting
\* duplicate rows of a lock and expiring rows stay clear of them.
THEOREM RecordsStay == Spec => RecordsKept
<1> DEFINE Kept == \A t \in Tasks : \A i \in RowsOf(tasks[t].history, {"STATE_CHANGE", "COMMENT"}) :
                     /\ i \in DOMAIN tasks[t].history'
                     /\ tasks[t].history'[i] = tasks[t].history[i]
<1>1. ASSUME Clean, Locks, Next PROVE Kept
  <2>1. Preserved
    BY <1>1, StepPreserves
  <2> QED BY <2>1 DEF Preserved, Preserves, KeepsRecords
<1>2. Clean /\ Locks /\ [Next]_vars => [Kept]_vars
  BY <1>1
<1> HIDE DEF Kept
<1>3. Spec => [][Kept]_vars
  BY CleanHolds, LocksHold, <1>2, PTL DEF Spec
<1> QED BY <1>3 DEF RecordsKept, Kept

----------------------------------------------------------------------------
(* Who gets a lock, in two projects whose tasks have the same ids.  Of the *)
(* tasks nothing is needed but that they have a holder.                    *)

\* The tasks of a project, as rows with a holder.
Fields(rows) == DOMAIN rows = Tasks /\ \A t \in Tasks : "locked_by" \in DOMAIN rows[t]

Frees(task, after) == "locked_by" \in DOMAIN after /\ after.locked_by \in {task.locked_by, NoUser}

\* Nobody gets a task.
Released(rows, after) ==
  Fields(after) /\ \A t \in Tasks : after[t].locked_by \in {rows[t].locked_by, NoUser}

HeldIn(rows, u) == {t \in Tasks : rows[t].locked_by = u}

\* Only u gets tasks, and if he holds some, here or elsewhere, of the same ids.
Taken(rows, after, u, away) ==
  /\ Fields(after)
  /\ \A v \in Users \ {u} : HeldIn(after, v) \subseteq HeldIn(rows, v)
  /\ HeldIn(rows, u) \cup away # {} => HeldIn(after, u) \subseteq HeldIn(rows, u) \cup away

LEMMA UserStepReleases ==
  ASSUME Fields(tasks), NEW u \in Users, NEW t \in Tasks, UserStep(u, t)
  PROVE  Released(tasks, tasks')
<1>1. ASSUME NEW new, tasks' = [tasks EXCEPT ![t] = new], Frees(tasks[t], new)
      PROVE  Released(tasks, tasks')
  BY <1>1 DEF Released, Fields, Frees
<1>2. Frees(tasks[t], tasks[t]) /\ "locked_by" \in DOMAIN tasks[t]
  BY DEF Fields, Frees
<1>3. ASSUME NEW new, NEW comment, NEW undo
      PROVE  Frees(tasks[t], UnlockTask(tasks[t], u, new, comment, undo))
  BY DEF Frees, UnlockTask
<1>4. ASSUME NEW comment PROVE Frees(tasks[t], Commented(tasks[t], u, comment))
  BY <1>2 DEF Frees, Commented
<1>5. ASSUME NEW comment PROVE Frees(tasks[t], ResetLock(tasks[t], u, comment))
  <2> DEFINE noted == Commented(tasks[t], u, comment)
             closed == [noted EXCEPT !.history = CloseLock(@, tasks[t].status, u)]
  <2>1. "locked_by" \in DOMAIN noted
    BY <1>4 DEF Frees
  <2> HIDE DEF noted
  <2>2. "locked_by" \in DOMAIN closed
    BY <2>1
  <2> HIDE DEF closed
  <2>3. Frees(tasks[t], ClearLock(closed))
    BY <2>2 DEF Frees, ClearLock
  <2> QED BY <2>3 DEF ResetLock, closed, noted
<1>6. Frees(tasks[t], ExtendLock(tasks[t], u))
  BY <1>2 DEF Frees, ExtendLock
<1> QED BY <1>1, <1>3, <1>4, <1>5, <1>6
        DEF UserStep, UnlockAfterMapping, StopMapping, AddTaskComment, UndoMapping,
            ExtendTaskLockTime, UnlockAfterValidation, StopValidating

LEMMA AutoUnlockReleases ==
  ASSUME Fields(tasks), NEW t \in Tasks, AutoUnlockStep(t) PROVE Released(tasks, tasks')
<1>1. PICK k \in DOMAIN tasks[t].history : AutoUnlockTask(t, k)
  BY DEF AutoUnlockStep
<1> DEFINE expired == [tasks[t] EXCEPT !.history = ExpireRows(@, k)]
<1>2. "locked_by" \in DOMAIN expired /\ expired.locked_by = tasks[t].locked_by
  BY DEF Fields
<1>3. AutoUnlock(tasks[t], k) \in {ClearLock(expired), expired}
  BY DEF AutoUnlock
<1> HIDE DEF expired
<1>4. Frees(tasks[t], AutoUnlock(tasks[t], k))
  BY <1>2, <1>3 DEF Frees, ClearLock
<1>5. tasks' = [tasks EXCEPT ![t] = AutoUnlock(tasks[t], k)]
  BY <1>1 DEF AutoUnlockTask
<1> QED BY <1>4, <1>5 DEF Released, Fields, Frees

LEMMA LockSomeTakes ==
  ASSUME Fields(tasks), NEW u \in Users, NEW away \in SUBSET Tasks, LockSome(u, Tasks, away)
  PROVE  Taken(tasks, tasks', u, away)
<1>1. ASSUME NEW t \in Tasks, NEW status
      PROVE  /\ "locked_by" \in DOMAIN LockTask(tasks[t], status, u)
             /\ LockTask(tasks[t], status, u).locked_by = u
  BY DEF Fields, LockTask
<1>2. ASSUME NEW t \in Tasks, LockForMapping(u, t, away) PROVE Taken(tasks, tasks', u, away)
  <2>1. tasks' = [tasks EXCEPT ![t] = LockTask(@, "LOCKED_FOR_MAPPING", u)]
    BY <1>2 DEF LockForMapping
  <2>2. tasks[t].locked_by = u \/ LockedTasksForUser(u) \cup away = {}
    BY <1>2 DEF LockForMapping, PermittedToMap
  <2>3. Fields(tasks') /\ \A x \in Tasks : tasks'[x].locked_by = IF x = t THEN u ELSE tasks[x].locked_by
    BY <1>1, <2>1 DEF Fields
  <2> QED BY <2>2, <2>3 DEF Taken, HeldIn, LockedTasksForUser
<1>3. ASSUME NEW requested \in SUBSET Tasks, LockTasksForValidation(u, requested, away)
      PROVE  Taken(tasks, tasks', u, away)
  <2>1. tasks' = [t \in Tasks |-> IF t \in requested
                                 THEN LockTask(tasks[t], "LOCKED_FOR_VALIDATION", u) ELSE tasks[t]]
    BY <1>3 DEF LockTasksForValidation
  <2>2. LockedTasksForUser(u) \cup away \in {{}, requested}
    BY <1>3 DEF LockTasksForValidation, MayLockForValidation
  <2>3. Fields(tasks') /\ \A x \in Tasks : tasks'[x].locked_by = IF x \in requested THEN u ELSE tasks[x].locked_by
    BY <1>1, <2>1 DEF Fields
  <2> QED BY <2>2, <2>3 DEF Taken, HeldIn, LockedTasksForUser
<1> QED BY <1>2, <1>3 DEF LockSome

LEMMA OtherUserStepReleases ==
  ASSUME Fields(otherTasks), NEW u \in Users, NEW t \in Tasks, Other!UserStep(u, t)
  PROVE  Released(otherTasks, otherTasks')
<1>1. ASSUME NEW new, otherTasks' = [otherTasks EXCEPT ![t] = new], Frees(otherTasks[t], new)
      PROVE  Released(otherTasks, otherTasks')
  BY <1>1 DEF Released, Fields, Frees
<1>2. Frees(otherTasks[t], otherTasks[t]) /\ "locked_by" \in DOMAIN otherTasks[t]
  BY DEF Fields, Frees
<1>3. ASSUME NEW new, NEW comment, NEW undo
      PROVE  Frees(otherTasks[t], Other!UnlockTask(otherTasks[t], u, new, comment, undo))
  BY DEF Frees, Other!UnlockTask
<1>4. ASSUME NEW comment PROVE Frees(otherTasks[t], Other!Commented(otherTasks[t], u, comment))
  BY <1>2 DEF Frees, Other!Commented
<1>5. ASSUME NEW comment PROVE Frees(otherTasks[t], Other!ResetLock(otherTasks[t], u, comment))
  <2> DEFINE noted == Other!Commented(otherTasks[t], u, comment)
             closed == [noted EXCEPT !.history = Other!CloseLock(@, otherTasks[t].status, u)]
  <2>1. "locked_by" \in DOMAIN noted
    BY <1>4 DEF Frees
  <2> HIDE DEF noted
  <2>2. "locked_by" \in DOMAIN closed
    BY <2>1
  <2> HIDE DEF closed
  <2>3. Frees(otherTasks[t], Other!ClearLock(closed))
    BY <2>2 DEF Frees, Other!ClearLock
  <2> QED BY <2>3 DEF Other!ResetLock, closed, noted
<1>6. Frees(otherTasks[t], Other!ExtendLock(otherTasks[t], u))
  BY <1>2 DEF Frees, Other!ExtendLock
<1> QED BY <1>1, <1>3, <1>4, <1>5, <1>6
        DEF Other!UserStep, Other!UnlockAfterMapping, Other!StopMapping, Other!AddTaskComment, Other!UndoMapping,
            Other!ExtendTaskLockTime, Other!UnlockAfterValidation, Other!StopValidating

LEMMA OtherAutoUnlockReleases ==
  ASSUME Fields(otherTasks), NEW t \in Tasks, Other!AutoUnlockStep(t) PROVE Released(otherTasks, otherTasks')
<1>1. PICK k \in DOMAIN otherTasks[t].history : Other!AutoUnlockTask(t, k)
  BY DEF Other!AutoUnlockStep
<1> DEFINE expired == [otherTasks[t] EXCEPT !.history = Other!ExpireRows(@, k)]
<1>2. "locked_by" \in DOMAIN expired /\ expired.locked_by = otherTasks[t].locked_by
  BY DEF Fields
<1>3. Other!AutoUnlock(otherTasks[t], k) \in {Other!ClearLock(expired), expired}
  BY DEF Other!AutoUnlock
<1> HIDE DEF expired
<1>4. Frees(otherTasks[t], Other!AutoUnlock(otherTasks[t], k))
  BY <1>2, <1>3 DEF Frees, Other!ClearLock
<1>5. otherTasks' = [otherTasks EXCEPT ![t] = Other!AutoUnlock(otherTasks[t], k)]
  BY <1>1 DEF Other!AutoUnlockTask
<1> QED BY <1>4, <1>5 DEF Released, Fields, Frees

LEMMA OtherLockSomeTakes ==
  ASSUME Fields(otherTasks), NEW u \in Users, NEW away \in SUBSET Tasks, Other!LockSome(u, Tasks, away)
  PROVE  Taken(otherTasks, otherTasks', u, away)
<1>1. ASSUME NEW t \in Tasks, NEW status
      PROVE  /\ "locked_by" \in DOMAIN Other!LockTask(otherTasks[t], status, u)
             /\ Other!LockTask(otherTasks[t], status, u).locked_by = u
  BY DEF Fields, Other!LockTask
<1>2. ASSUME NEW t \in Tasks, Other!LockForMapping(u, t, away) PROVE Taken(otherTasks, otherTasks', u, away)
  <2>1. otherTasks' = [otherTasks EXCEPT ![t] = Other!LockTask(@, "LOCKED_FOR_MAPPING", u)]
    BY <1>2 DEF Other!LockForMapping
  <2>2. otherTasks[t].locked_by = u \/ Other!LockedTasksForUser(u) \cup away = {}
    BY <1>2 DEF Other!LockForMapping, Other!PermittedToMap
  <2>3. Fields(otherTasks') /\ \A x \in Tasks : otherTasks'[x].locked_by = IF x = t THEN u ELSE otherTasks[x].locked_by
    BY <1>1, <2>1 DEF Fields
  <2> QED BY <2>2, <2>3 DEF Taken, HeldIn, Other!LockedTasksForUser
<1>3. ASSUME NEW requested \in SUBSET Tasks, Other!LockTasksForValidation(u, requested, away)
      PROVE  Taken(otherTasks, otherTasks', u, away)
  <2>1. otherTasks' = [t \in Tasks |-> IF t \in requested
                                 THEN Other!LockTask(otherTasks[t], "LOCKED_FOR_VALIDATION", u) ELSE otherTasks[t]]
    BY <1>3 DEF Other!LockTasksForValidation
  <2>2. Other!LockedTasksForUser(u) \cup away \in {{}, requested}
    BY <1>3 DEF Other!LockTasksForValidation, Other!MayLockForValidation
  <2>3. Fields(otherTasks') /\ \A x \in Tasks : otherTasks'[x].locked_by = IF x \in requested THEN u ELSE otherTasks[x].locked_by
    BY <1>1, <2>1 DEF Fields
  <2> QED BY <2>2, <2>3 DEF Taken, HeldIn, Other!LockedTasksForUser
<1> QED BY <1>2, <1>3 DEF Other!LockSome

-----------------------------------------------------------------------------
\* While a user holds a lock, the ids of the tasks he holds, of both projects
\* together, do not become more; that he gets no second task is false.
THEOREM LocksAreFew == TwoSpec => NoNewIds
<1> DEFINE Both == Fields(tasks) /\ Fields(otherTasks)
           Few == \A u \in Users : HeldIds(u) # {} => HeldIds(u)' \subseteq HeldIds(u)
<1>1. TwoInit => Both
  BY DEF TwoInit, Init, Other!Init, NewTask, Other!NewTask, Fields
<1>2. \A u \in Users : HeldIds(u) = HeldIn(tasks, u) \cup HeldIn(otherTasks, u)
  BY DEF HeldIds, HeldIn, LockedTasksForUser, Other!LockedTasksForUser
<1>3. \A u \in Users : HeldIds(u)' = HeldIn(tasks', u) \cup HeldIn(otherTasks', u)
  BY DEF HeldIds, HeldIn, LockedTasksForUser, Other!LockedTasksForUser
<1>4. ASSUME NEW rows, NEW after, Released(rows, after), NEW u \in Users
      PROVE  HeldIn(after, u) \subseteq HeldIn(rows, u)
  BY <1>4, NoUserAssumption DEF Released, HeldIn
<1>5. ASSUME Both, HereStep PROVE Both' /\ Few
  <2>1. otherTasks' = otherTasks
    BY <1>5 DEF HereStep
  <2>2. CASE Released(tasks, tasks')
    BY <1>2, <1>3, <1>4, <1>5, <2>1, <2>2 DEF Released
  <2>3. ASSUME NEW u \in Users, LockSome(u, Tasks, Other!LockedTasksForUser(u)) PROVE Both' /\ Few
    <3>1. Other!LockedTasksForUser(u) = HeldIn(otherTasks, u) /\ HeldIn(otherTasks, u) \in SUBSET Tasks
      BY DEF HeldIn, Other!LockedTasksForUser
    <3>2. Taken(tasks, tasks', u, HeldIn(otherTasks, u))
      BY <1>5, <2>3, <3>1, LockSomeTakes
    <3> QED BY <1>2, <1>3, <1>5, <2>1, <3>2 DEF Taken
  <2> QED BY <1>5, <2>2, <2>3, UserStepReleases, AutoUnlockReleases DEF HereStep
<1>6. ASSUME Both, OtherStep PROVE Both' /\ Few
  <2>1. tasks' = tasks
    BY <1>6 DEF OtherStep
  <2>2. CASE Released(otherTasks, otherTasks')
    BY <1>2, <1>3, <1>4, <1>6, <2>1, <2>2 DEF Released
  <2>3. ASSUME NEW u \in Users, Other!LockSome(u, Tasks, LockedTasksForUser(u)) PROVE Both' /\ Few
    <3>1. LockedTasksForUser(u) = HeldIn(tasks, u) /\ HeldIn(tasks, u) \in SUBSET Tasks
      BY DEF HeldIn, LockedTasksForUser
    <3>2. Taken(otherTasks, otherTasks', u, HeldIn(tasks, u))
      BY <1>6, <2>3, <3>1, OtherLockSomeTakes
    <3> QED BY <1>2, <1>3, <1>6, <2>1, <3>2 DEF Taken
  <2> QED BY <1>6, <2>2, <2>3, OtherUserStepReleases, OtherAutoUnlockReleases DEF OtherStep
<1>7. Both /\ [TwoNext]_twoVars => Both' /\ [Few]_twoVars
  BY <1>5, <1>6 DEF TwoNext, twoVars
<1> HIDE DEF Both, Few
<1>8. TwoSpec => [][Few]_twoVars
  BY <1>1, <1>7, PTL DEF TwoSpec
<1> QED BY <1>8 DEF NoNewIds, Few
=============================================================================
