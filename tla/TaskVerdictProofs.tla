-------------------------- MODULE TaskVerdictProofs --------------------------
(***************************************************************************)
(* What is on record about the verdicts of validators: who validated a     *)
(* task, that nobody but an administrator validated a task of their own,   *)
(* and which invalidation is pending; for any tasks, users, permissions    *)
(* and histories of any length.                                            *)
(*                                                                         *)
(* An undo makes these hard: it may put a task in any status of its past,  *)
(* with the user who undoes as mapper or validator.  History holds the     *)
(* argument: VALIDATED follows only MAPPED, BADIMAGERY or INVALIDATED on   *)
(* record, and an undo goes back to VALIDATED only from INVALIDATED, when  *)
(* no mapper is on record.  Checked says what the lock of a validator was  *)
(* given for, so that it still holds when the lock is released.            *)
(***************************************************************************)
EXTENDS TaskLifecycleProofs

Done == {"MAPPED", "BADIMAGERY"}
Judged == Done \cup {"INVALIDATED"}

InvalidatedRows(h) == {i \in Changes(h) : h[i].text = "INVALIDATED"}

\* The past on record and the people of the task agree.
Attributed(task) ==
  LET h == task.history
      last == GetLastStatus(h)
  IN  /\ last = "VALIDATED" =>
           /\ task.validated_by = h[Max(Changes(h))].user
           /\ task.validated_by # task.mapped_by \/ task.validated_by \in Admins
           /\ GetUndoStatus(h) \in Judged
      /\ last = "INVALIDATED" => task.mapped_by = NoUser
      /\ GetUndoStatus(h) = "VALIDATED" => last = "INVALIDATED"

\* Somebody mapped what has a mapper and what was ever invalidated.
Pending(task) ==
  LET h == task.history
      open == OpenEntries(task.invalidations)
  IN  /\ \E n : open \subseteq {n}
      /\ GetLastStatus(h) = "INVALIDATED" => open # {}
      /\ GetLastStatus(h) = "VALIDATED" => open = {}
      /\ task.mapped_by # NoUser \/ InvalidatedRows(h) # {} => MappedRows(h) # {}

\* What a lock was given for.
Checked(task) ==
  /\ IsLocked(task) => GetLastStatus(task.history) # "VALIDATED"
  /\ task.status = "LOCKED_FOR_VALIDATION" =>
       /\ GetLastStatus(task.history) \in Judged
       /\ task.mapped_by # task.locked_by \/ task.locked_by \in Admins

Lawful(task) == Attributed(task) /\ Pending(task) /\ Checked(task)

----------------------------------------------------------------------------
(* Histories.                                                              *)

\* The rows about changes, and get_last_status for an undo, depend on changes only.
LEMMA SamePast ==
  ASSUME NEW h, NEW g, WellFormed(h), KeepsChanges(h, g)
  PROVE  /\ GetUndoStatus(g) = GetUndoStatus(h)
         /\ InvalidatedRows(g) = InvalidatedRows(h)
         /\ Changes(h) # {} => g[Max(Changes(g))] = h[Max(Changes(h))]
<1> DEFINE C == Changes(h)
           last == Max(C)
<1>1. Changes(g) = C /\ \A i \in C : g[i] = h[i]
  BY DEF KeepsChanges
<1>2. Len(h) \in Nat /\ C \subseteq 1..Len(h)
  BY Positions DEF WellFormed, Changes
<1>3. InvalidatedRows(g) = InvalidatedRows(h)
  BY <1>1 DEF InvalidatedRows
<1>4. C # {} => last \in C
  BY <1>2, MaxOfPositions
<1>5. GetUndoStatus(g) = GetUndoStatus(h)
  <2>1. CASE Cardinality(C) <= 1
    BY <1>1, <2>1 DEF GetUndoStatus
  <2>2. CASE ~(Cardinality(C) <= 1)
    <3>1. C # {} /\ C \ {last} # {}
      <4>1. Cardinality({}) = 0 /\ Cardinality({last}) = 1
        BY FS_EmptySet, FS_Singleton
      <4>2. C \subseteq {last} => C \in {{}, {last}}
        OBVIOUS
      <4> HIDE DEF C, last
      <4> QED BY <2>2, <4>1, <4>2
    <3>2. Max(C \ {last}) \in C \ {last}
      BY <1>2, <3>1, MaxOfPositions
    <3>3. h[last] = g[last] /\ h[Max(C \ {last})] = g[Max(C \ {last})]
      BY <1>1, <1>4, <3>1, <3>2
    <3> QED BY <1>1, <3>3 DEF GetUndoStatus
  <2> QED BY <2>1, <2>2
<1> QED BY <1>1, <1>3, <1>4, <1>5

\* An undo goes back to READY or to a status on record.
LEMMA UndoFromRecord ==
  ASSUME NEW h, WellFormed(h), GetUndoStatus(h) = "INVALIDATED" PROVE InvalidatedRows(h) # {}
<1> DEFINE C == Changes(h)
           last == Max(C)
<1>1. Len(h) \in Nat /\ C \subseteq 1..Len(h)
  BY Positions DEF WellFormed, Changes
<1>2. ~(Cardinality(C) <= 1) /\ h[Max(C \ {last})].text = "INVALIDATED"
  BY DEF GetUndoStatus
<1>3. C \ {last} # {}
  <2>1. Cardinality({}) = 0 /\ Cardinality({last}) = 1
    BY FS_EmptySet, FS_Singleton
  <2>2. C \subseteq {last} => C \in {{}, {last}}
    OBVIOUS
  <2> HIDE DEF C, last
  <2> QED BY <1>2, <2>1, <2>2
<1>4. Max(C \ {last}) \in C
  BY <1>1, <1>3, MaxOfPositions
<1> QED BY <1>2, <1>4 DEF InvalidatedRows

\* What a new change of status makes of the answers.
LEMMA ChangeRecorded ==
  ASSUME NEW h, WellFormed(h), NEW status \in UnlockedStatus, NEW u \in UserOrNone
  PROVE  LET g == Append(h, StateChangeRow(status, u)) IN
         /\ Changes(g) # {} /\ g[Max(Changes(g))].user = u
         /\ GetUndoStatus(g) = IF status \in Done THEN "READY" ELSE GetLastStatus(h)
         /\ MappedRows(h) # {} \/ status \in Done => MappedRows(g) # {}
         /\ InvalidatedRows(g) # {} => InvalidatedRows(h) # {} \/ status = "INVALIDATED"
<1> DEFINE row == StateChangeRow(status, u)
           g == Append(h, row)
           n == Len(h) + 1
           C == Changes(h)
<1>1. row \in Row /\ row.action = "STATE_CHANGE" /\ row.text = status /\ row.user = u
  BY RowTypes DEF UnlockedStatus, StateChangeRow
<1>2. h \in Seq(Row) /\ Len(h) \in Nat /\ C \subseteq 1..Len(h)
  BY Positions DEF WellFormed, Changes
<1> HIDE DEF row
<1>3. /\ \A i \in 1..Len(h) : g[i] = h[i]
      /\ g[n] = row
      /\ Changes(g) = C \cup {n}
  BY <1>1, <1>2, Appended DEF Changes
<1> HIDE DEF g
<1>4. Max(Changes(g)) = n
  <2>1. Changes(g) \subseteq 1..n /\ Changes(g) # {} /\ n \in Nat
    BY <1>2, <1>3
  <2>2. Max(Changes(g)) \in Changes(g) /\ n <= Max(Changes(g))
    BY <2>1, <1>3, MaxOfPositions
  <2> QED BY <2>1, <2>2
<1>5. MappedRows(h) # {} \/ status \in Done => MappedRows(g) # {}
  <2>1. MappedRows(h) \subseteq MappedRows(g)
    BY <1>2, <1>3 DEF MappedRows
  <2>2. status \in Done => n \in MappedRows(g)
    BY <1>1, <1>3 DEF MappedRows, Done
  <2> QED BY <2>1, <2>2
<1>6. InvalidatedRows(g) # {} => InvalidatedRows(h) # {} \/ status = "INVALIDATED"
  BY <1>1, <1>2, <1>3 DEF InvalidatedRows
<1>7. GetUndoStatus(g) = IF status \in Done THEN "READY" ELSE GetLastStatus(h)
  <2>1. Changes(g) \ {n} = C
    BY <1>2, <1>3
  <2>2. CASE C = {}
    <3>1. Cardinality(Changes(g)) = 1
      <4>1. Changes(g) = {n}
        BY <1>3, <2>2
      <4> HIDE DEF n
      <4> QED BY <4>1, FS_Singleton
    <3> QED BY <2>2, <3>1 DEF GetUndoStatus, GetLastStatus
  <2>3. CASE C # {}
    <3>1. Max(C) \in C /\ g[Max(C)] = h[Max(C)]
      BY <1>2, <1>3, <2>3, MaxOfPositions
    <3>2. IsFiniteSet(C)
      <4>1. IsFiniteSet(1..Len(h))
        BY <1>2, FS_Interval
      <4> HIDE DEF C
      <4> QED BY <1>2, <4>1, FS_Subset
    <3>3. n \notin C
      BY <1>2
    <3> HIDE DEF C, n
    <3>4. Cardinality(Changes(g)) = Cardinality(C) + 1 /\ Cardinality(C) \in Nat /\ Cardinality(C) # 0
      BY <1>3, <2>3, <3>2, <3>3, FS_AddElement, FS_CardinalityType, FS_EmptySet
    <3>5. ~(Cardinality(Changes(g)) <= 1)
      BY <3>4
    <3> QED BY <1>1, <1>3, <1>4, <2>1, <2>3, <3>1, <3>5 DEF GetUndoStatus, GetLastStatus, Done, C
  <2> QED BY <2>2, <2>3
<1> QED BY <1>1, <1>3, <1>4, <1>5, <1>6, <1>7 DEF g, row

----------------------------------------------------------------------------
(* Operations.                                                             *)

\* new has the people, the invalidations and the changes of status of task.
Quiet(task, new) ==
  /\ KeepsChanges(task.history, new.history)
  /\ new.mapped_by = task.mapped_by
  /\ new.validated_by = task.validated_by
  /\ new.invalidations = task.invalidations

LEMMA QuietOperations ==
  ASSUME NEW task, GoodTask(task), NEW u \in UserOrNone
  PROVE  /\ \A status \in LockedStatus : Quiet(task, LockTask(task, status, u))
         /\ \A comment : Quiet(task, Commented(task, u, comment))
         /\ IsLocked(task) => \A comment : Quiet(task, ResetLock(task, u, comment))
         /\ IsLocked(task) => Quiet(task, ExtendLock(task, u))
         /\ \A k : Quiet(task, AutoUnlock(task, k))
<1>1. task \in TaskRecord /\ task.history \in Seq(Row)
  BY DEF GoodTask, WellFormed
<1>2. KeepsChanges(task.history, task.history)
  BY <1>1 DEF KeepsChanges
<1>3. ASSUME NEW comment PROVE Quiet(task, Commented(task, u, comment))
  <2>1. KeepsChanges(task.history, Append(task.history, CommentRow(u)))
    BY <1>1, RowTypes, AppendOther DEF CommentRow
  <2> QED BY <1>1, <1>2, <2>1 DEF Quiet, Commented, TaskRecord
<1>4. ASSUME NEW status \in LockedStatus PROVE Quiet(task, LockTask(task, status, u))
  <2>1. LockRow(status, u) \in Row /\ LockRow(status, u).action # "STATE_CHANGE"
    BY RowTypes DEF LockRow, LockedStatus, TaskAction
  <2>2. KeepsChanges(task.history, Append(task.history, LockRow(status, u)))
    BY <1>1, <2>1, AppendOther
  <2> QED BY <1>1, <2>2 DEF Quiet, LockTask, TaskRecord
<1>5. ASSUME IsLocked(task), NEW comment PROVE Quiet(task, ResetLock(task, u, comment))
  <2> DEFINE noted == Commented(task, u, comment)
             new == ResetLock(task, u, comment)
  <2>1. Quiet(task, noted) /\ noted \in TaskRecord /\ noted.history \in Seq(Row)
    BY <1>3, CommentedGood DEF GoodTask, WellFormed
  <2>2. /\ new.history = CloseLock(noted.history, task.status, u)
        /\ new.mapped_by = noted.mapped_by
        /\ new.validated_by = noted.validated_by
        /\ new.invalidations = noted.invalidations
    BY <2>1 DEF ResetLock, ClearLock, TaskRecord
  <2> HIDE DEF noted, new
  <2>3. KeepsChanges(noted.history, new.history)
    BY <1>5, <2>1, <2>2, CloseLockKeeps DEF IsLocked
  <2>4. Quiet(task, new)
    BY <2>1, <2>2, <2>3 DEF Quiet, KeepsChanges
  <2> QED BY <2>4 DEF new
<1>6. ASSUME IsLocked(task) PROVE Quiet(task, ExtendLock(task, u))
  <2> DEFINE closed == CloseLock(task.history, task.status, u)
             row == LockRow(ExtendAction(task.status), u)
  <2>1. KeepsChanges(task.history, closed)
    BY <1>1, <1>6, CloseLockKeeps DEF IsLocked
  <2>2. row \in Row /\ row.action # "STATE_CHANGE"
    BY RowTypes DEF ExtendAction, TaskAction, ExtendActions, LockRow
  <2>3. /\ ExtendLock(task, u).history = Append(closed, row)
        /\ ExtendLock(task, u).mapped_by = task.mapped_by
        /\ ExtendLock(task, u).validated_by = task.validated_by
        /\ ExtendLock(task, u).invalidations = task.invalidations
    BY <1>1 DEF ExtendLock, TaskRecord
  <2> HIDE DEF closed, row
  <2>4. KeepsChanges(closed, Append(closed, row))
    BY <2>1, <2>2, AppendOther DEF KeepsChanges
  <2> QED BY <2>1, <2>3, <2>4 DEF Quiet, KeepsChanges
<1>7. ASSUME NEW k PROVE Quiet(task, AutoUnlock(task, k))
  <2> DEFINE expired == [task EXCEPT !.history = ExpireRows(@, k)]
  <2>1. KeepsChanges(task.history, ExpireRows(task.history, k))
    BY <1>1, ExpireRowsKeeps
  <2>2. Quiet(task, expired) /\ Quiet(task, ClearLock(expired))
    BY <1>1, <2>1 DEF Quiet, ClearLock, TaskRecord
  <2>3. AutoUnlock(task, k) \in {expired, ClearLock(expired)}
    BY DEF AutoUnlock
  <2> QED BY <2>2, <2>3
<1> QED BY <1>3, <1>4, <1>5, <1>6, <1>7

\* A quiet step keeps what is on record.
LEMMA QuietKeeps ==
  ASSUME NEW task, GoodTask(task), Attributed(task), Pending(task), NEW new, Quiet(task, new)
  PROVE  Attributed(new) /\ Pending(new) /\ GetLastStatus(new.history) = GetLastStatus(task.history)
<1> DEFINE h == task.history
           g == new.history
<1>1. /\ GetLastStatus(g) = GetLastStatus(h)
      /\ MappedRows(g) = MappedRows(h)
      /\ GetUndoStatus(g) = GetUndoStatus(h)
      /\ InvalidatedRows(g) = InvalidatedRows(h)
      /\ Changes(h) # {} => g[Max(Changes(g))] = h[Max(Changes(h))]
  BY SameChanges, SamePast DEF GoodTask, Quiet
<1>2. GetLastStatus(h) = "VALIDATED" => Changes(h) # {}
  BY DEF GetLastStatus
<1> HIDE DEF h, g
<1>3. /\ Attributed(task) <=> Attributed(new)
      /\ Pending(task) <=> Pending(new)
  BY <1>1, <1>2 DEF Attributed, Pending, Quiet, h, g
<1> QED BY <1>1, <1>3 DEF h, g

\* So does one that leaves the lock as it was or lets it go.
LEMMA QuietLawful ==
  ASSUME NEW task, GoodTask(task), Lawful(task), NEW new, Quiet(task, new),
         \/ new.status = task.status /\ new.locked_by = task.locked_by
         \/ ~IsLocked(new)
  PROVE  Lawful(new)
<1>1. Attributed(new) /\ Pending(new) /\ GetLastStatus(new.history) = GetLastStatus(task.history)
  BY QuietKeeps DEF Lawful
<1>2. Checked(new)
  BY <1>1 DEF Checked, Lawful, IsLocked, Quiet, LockedStatus
<1> QED BY <1>1, <1>2 DEF Lawful

\* And a lock given for what Checked says.
LEMMA LockLawful ==
  ASSUME NEW task, GoodTask(task), Lawful(task), NEW status \in LockedStatus, NEW u \in Users,
         GetLastStatus(task.history) # "VALIDATED",
         status = "LOCKED_FOR_VALIDATION" => /\ GetLastStatus(task.history) \in Judged
                                             /\ task.mapped_by # u \/ u \in Admins
  PROVE  Lawful(LockTask(task, status, u))
<1> DEFINE new == LockTask(task, status, u)
<1>1. new.status = status /\ new.locked_by = u
  BY DEF LockTask, GoodTask, TaskRecord
<1>a. u \in UserOrNone
  BY DEF UserOrNone
<1>b. Quiet(task, new)
  BY <1>a, QuietOperations
<1> HIDE DEF new
<1>2. Attributed(new) /\ Pending(new) /\ GetLastStatus(new.history) = GetLastStatus(task.history)
  BY <1>b, QuietKeeps DEF Lawful
<1>3. Checked(new)
  BY <1>1, <1>b, <1>2 DEF Checked, Quiet
<1> QED BY <1>2, <1>3 DEF Lawful, new

\* A verdict, a mapping or an undo, under the conditions each is asked under.
LEMMA UnlockLawful ==
  ASSUME NEW task, GoodTask(task), Lawful(task), NEW u \in Users, NEW status \in UnlockedStatus,
         NEW comment, NEW undo, IsLocked(task) \/ undo = TRUE,
         status = "INVALIDATED" => MappedRows(task.history) # {},
         status = "VALIDATED" => /\ GetLastStatus(task.history) \in Judged
                                 /\ task.mapped_by # u \/ u \in Admins,
         GetLastStatus(task.history) = "VALIDATED" => status \in Judged
  PROVE  Lawful(UnlockTask(task, u, status, comment, undo))
<1> DEFINE new == UnlockTask(task, u, status, comment, undo)
           noted == Commented(task, u, comment)
           h == noted.history
           changed == Append(h, StateChangeRow(status, u))
           entries == task.invalidations
           g == new.history
<1>0. u \in UserOrNone
  BY DEF UserOrNone
<1>1. /\ GoodTask(noted) /\ WellFormed(h)
      /\ Attributed(noted) /\ Pending(noted) /\ Quiet(task, noted)
      /\ GetLastStatus(h) = GetLastStatus(task.history) /\ MappedRows(h) = MappedRows(task.history)
  BY <1>0, QuietOperations, QuietKeeps, CommentedGood DEF Lawful, GoodTask
<1>2. AtRest(new, status)
  BY <1>0, UnlockTaskGood
<1>3. /\ new.mapped_by = MappedBy(task, status, u) /\ new.validated_by = ValidatedBy(task, status, u)
      /\ g = IF undo THEN changed ELSE CloseLock(changed, task.status, u)
  BY DEF UnlockTask
<1>4. /\ status = "VALIDATED" => new.invalidations = RecordValidation(entries, changed, u)
      /\ status = "INVALIDATED" => new.invalidations = RecordInvalidation(entries, changed, u)
      /\ status \notin {"VALIDATED", "INVALIDATED"} => new.invalidations = entries
  <2>1. CASE status = "VALIDATED"
    BY <2>1 DEF UnlockTask
  <2>2. CASE status = "INVALIDATED"
    BY <2>2 DEF UnlockTask
  <2>3. CASE status \notin {"VALIDATED", "INVALIDATED"}
    BY <2>3 DEF UnlockTask
  <2> QED BY <2>1, <2>2, <2>3
<1> HIDE DEF new, noted
<1>5. /\ WellFormed(changed)
      /\ MappedRows(h) \subseteq MappedRows(changed)
      /\ Changes(changed) # {} /\ changed[Max(Changes(changed))].user = u
      /\ GetUndoStatus(changed) = IF status \in Done THEN "READY" ELSE GetLastStatus(h)
      /\ MappedRows(h) # {} \/ status \in Done => MappedRows(changed) # {}
      /\ InvalidatedRows(changed) # {} => InvalidatedRows(h) # {} \/ status = "INVALIDATED"
  <2> HIDE DEF h
  <2>1. WellFormed(changed) /\ MappedRows(h) \subseteq MappedRows(changed)
    BY <1>0, <1>1, AppendChange
  <2>2. /\ Changes(changed) # {} /\ changed[Max(Changes(changed))].user = u
        /\ GetUndoStatus(changed) = IF status \in Done THEN "READY" ELSE GetLastStatus(h)
        /\ MappedRows(h) # {} \/ status \in Done => MappedRows(changed) # {}
        /\ InvalidatedRows(changed) # {} => InvalidatedRows(h) # {} \/ status = "INVALIDATED"
    BY <1>0, <1>1, ChangeRecorded
  <2> HIDE DEF changed
  <2> QED BY <2>1, <2>2
<1> HIDE DEF changed, h
<1>6. KeepsChanges(changed, g)
  <2>1. changed \in Seq(Row) /\ KeepsChanges(changed, changed)
    BY <1>5 DEF WellFormed, KeepsChanges
  <2> QED BY <1>3, <2>1, CloseLockKeeps DEF IsLocked
<1> HIDE DEF g
<1>7. /\ GetUndoStatus(g) = IF status \in Done THEN "READY" ELSE GetLastStatus(task.history)
      /\ g[Max(Changes(g))].user = u
      /\ MappedRows(g) = MappedRows(changed)
      /\ InvalidatedRows(g) = InvalidatedRows(changed)
      /\ GetLastStatus(g) = status
  BY <1>1, <1>2, <1>5, <1>6, SameChanges, SamePast DEF AtRest, g
<1>8. Attributed(new)
  <2>1. status = "VALIDATED" => /\ new.validated_by = u /\ new.mapped_by = task.mapped_by
    BY <1>3 DEF ValidatedBy, MappedBy
  <2>2. status = "INVALIDATED" => new.mapped_by = NoUser
    BY <1>3 DEF MappedBy
  <2>3. GetUndoStatus(g) = "VALIDATED" => status = "INVALIDATED"
    BY <1>7 DEF Done, Judged
  <2> QED BY <1>7, <2>1, <2>2, <2>3 DEF Attributed, Done, Judged, g
<1>9. Pending(new)
  <2> DEFINE open == OpenEntries(new.invalidations)
  <2>1. entries \in Seq(InvalidationEntry) /\ entries = noted.invalidations
    BY <1>1 DEF GoodTask, TaskRecord, Quiet
  <2>2. OpenEntries(entries) # {} => MappedRows(changed) # {}
    BY <1>1, <1>5, <2>1 DEF GoodTask, h
  <2> HIDE DEF entries
  <2>3. /\ OpenEntries(RecordValidation(entries, changed, u)) = {}
        /\ OpenEntries(RecordInvalidation(entries, changed, u)) =
             IF MappedRows(changed) = {} THEN {} ELSE {Len(entries) + 1}
    BY <1>0, <1>5, <2>1, <2>2, InvalidationsGood
  <2>4. status = "INVALIDATED" => MappedRows(changed) # {}
    BY <1>1, <1>5
  <2>5. \E n : OpenEntries(entries) \subseteq {n}
    BY <1>1, <2>1 DEF Pending
  <2>6. /\ \E n : open \subseteq {n}
        /\ status = "INVALIDATED" => open # {}
        /\ status = "VALIDATED" => open = {}
    BY <1>4, <2>3, <2>4, <2>5
  <2>7. new.mapped_by # NoUser => status \in Done \/ noted.mapped_by # NoUser
    BY <1>1, <1>3 DEF MappedBy, Done, Quiet
  <2>8. new.mapped_by # NoUser \/ InvalidatedRows(g) # {} => MappedRows(g) # {}
    BY <1>1, <1>5, <1>7, <2>4, <2>7 DEF Pending, h
  <2> HIDE DEF open
  <2> QED BY <1>7, <2>6, <2>8 DEF Pending, open, g
<1>10. Checked(new)
  BY <1>2 DEF Checked, AtRest, IsLocked, LockedStatus
<1> QED BY <1>8, <1>9, <1>10 DEF Lawful, new

----------------------------------------------------------------------------
(* Steps.                                                                  *)

AllLawful == \A t \in Tasks : Lawful(tasks[t])

LEMMA OneTaskLawful ==
  ASSUME Clean, AllLawful, NEW t \in Tasks, NEW new, tasks' = [tasks EXCEPT ![t] = new], Lawful(new)
  PROVE  \A x \in Tasks : Lawful(tasks'[x])
<1>1. \A x \in Tasks : tasks'[x] = IF x = t THEN new ELSE tasks[x]
  BY DEF Clean, TypeOK
<1> QED BY <1>1 DEF AllLawful

LEMMA LockForMappingLawful ==
  ASSUME Clean, Locks, AllLawful, NEW u \in Users, NEW t \in Tasks, NEW away, LockForMapping(u, t, away)
  PROVE  \A x \in Tasks : Lawful(tasks'[x])
<1> DEFINE task == tasks[t]
           last == GetLastStatus(task.history)
<1>1. /\ GoodTask(task) /\ WellFormed(task.history) /\ Settled(task)
      /\ Held(task) /\ Lawful(task) /\ u \in UserOrNone /\ u # NoUser
  BY NoUserAssumption DEF Clean, Locks, AllLawful, GoodTask, UserOrNone
<1>2. LockForMapping(u, t, away)
  OBVIOUS
<1> QED
  <2> DEFINE after == LockTask(task, "LOCKED_FOR_MAPPING", u)
  <2>1. tasks' = [tasks EXCEPT ![t] = after] /\ (task.locked_by # u => IsMappable(task))
    BY <1>2 DEF LockForMapping
  <2>2. CASE task.locked_by = u
    <3>1. IsLocked(task)
      BY <1>1, <2>2 DEF Held
    <3>2. last # "VALIDATED"
      BY <1>1, <3>1 DEF Lawful, Checked
    <3>3. Lawful(after)
      BY <1>1, <3>2, LockLawful DEF LockedStatus
    <3> QED BY <2>1, <3>3, OneTaskLawful
  <2>3. CASE IsMappable(task)
    <3>1. last # "VALIDATED"
      BY <1>1, <2>3 DEF IsMappable, Settled, IsLocked, LockedStatus
    <3>2. Lawful(after)
      BY <1>1, <3>1, LockLawful DEF LockedStatus
    <3> QED BY <2>1, <3>2, OneTaskLawful
  <2> QED BY <2>1, <2>2, <2>3

LEMMA UserStepLawful ==
  ASSUME Clean, Locks, AllLawful, NEW u \in Users, NEW t \in Tasks, UserStep(u, t)
  PROVE  \A x \in Tasks : Lawful(tasks'[x])
<1> DEFINE task == tasks[t]
           last == GetLastStatus(task.history)
<1>1. /\ GoodTask(task) /\ WellFormed(task.history) /\ Settled(task)
      /\ Held(task) /\ Lawful(task) /\ u \in UserOrNone /\ u # NoUser
  BY NoUserAssumption DEF Clean, Locks, AllLawful, GoodTask, UserOrNone
<1>3. ASSUME NEW new \in TaskStatus, NEW comment \in Comments, UnlockAfterMapping(u, t, new, comment)
      PROVE  \A x \in Tasks : Lawful(tasks'[x])
  <2> DEFINE after == UnlockTask(task, u, new, comment, FALSE)
  <2>1. /\ new \in {"MAPPED", "BADIMAGERY", "READY"} /\ new \in UnlockedStatus
        /\ IsLocked(task) /\ tasks' = [tasks EXCEPT ![t] = after]
    BY <1>3 DEF UnlockAfterMapping, LockedForMappingBy, UnlockedStatus, LockedStatus, IsLocked
  <2>2. last # "VALIDATED"
    BY <1>1, <2>1 DEF Lawful, Checked
  <2>3. Lawful(after)
    BY <1>1, <2>1, <2>2, UnlockLawful
  <2> QED BY <2>1, <2>3, OneTaskLawful
<1>4. ASSUME NEW new \in TaskStatus, NEW comment \in Comments, UnlockAfterValidation(u, t, new, comment)
      PROVE  \A x \in Tasks : Lawful(tasks'[x])
  <2> DEFINE after == UnlockTask(task, u, new, comment, FALSE)
  <2>1. /\ new \in {"MAPPED", "INVALIDATED", "VALIDATED"} /\ new \in UnlockedStatus
        /\ new \in {"INVALIDATED", "VALIDATED"} => task.mapped_by # NoUser
        /\ task.status = "LOCKED_FOR_VALIDATION" /\ task.locked_by = u
        /\ IsLocked(task) /\ tasks' = [tasks EXCEPT ![t] = after]
    BY <1>4 DEF UnlockAfterValidation, LockedForValidationBy, UnlockedStatus, LockedStatus, IsLocked
  <2>2. /\ last # "VALIDATED" /\ last \in Judged /\ (task.mapped_by # u \/ u \in Admins)
        /\ new = "INVALIDATED" => MappedRows(task.history) # {}
    BY <1>1, <2>1 DEF Lawful, Checked, Pending
  <2>3. Lawful(after)
    BY <1>1, <2>1, <2>2, UnlockLawful
  <2> QED BY <2>1, <2>3, OneTaskLawful
<1>5. ASSUME NEW comment \in Comments, StopMapping(u, t, comment) \/ StopValidating(u, t, comment)
      PROVE  \A x \in Tasks : Lawful(tasks'[x])
  <2> DEFINE after == ResetLock(task, u, comment)
  <2>1. IsLocked(task) /\ tasks' = [tasks EXCEPT ![t] = after]
    BY <1>5 DEF StopMapping, StopValidating, LockedForMappingBy, LockedForValidationBy, LockedStatus, IsLocked
  <2>2. Quiet(task, after) /\ ~IsLocked(after)
    BY <1>1, <2>1, QuietOperations, ResetLockGood
  <2>3. Lawful(after)
    BY <1>1, <2>2, QuietLawful
  <2> QED BY <2>1, <2>3, OneTaskLawful
<1>6. CASE AddTaskComment(u, t)
  <2> DEFINE after == Commented(task, u, TRUE)
  <2>1. tasks' = [tasks EXCEPT ![t] = after]
    BY <1>6 DEF AddTaskComment
  <2>2. Quiet(task, after) /\ after.status = task.status /\ after.locked_by = task.locked_by
    BY <1>1, QuietOperations, CommentedGood
  <2>3. Lawful(after)
    BY <1>1, <2>2, QuietLawful
  <2> QED BY <2>1, <2>3, OneTaskLawful
<1>7. CASE UndoMapping(u, t)
  <2> DEFINE new == GetUndoStatus(task.history)
             after == UnlockTask(task, u, new, TRUE, TRUE)
  <2>1. tasks' = [tasks EXCEPT ![t] = after]
    BY <1>7 DEF UndoMapping
  <2>2. /\ new \in UnlockedStatus
        /\ new = "INVALIDATED" => MappedRows(task.history) # {}
        /\ new = "VALIDATED" => last \in Judged /\ task.mapped_by # u
        /\ last = "VALIDATED" => new \in Judged
    BY <1>1, UndoStatusType, UndoFromRecord DEF Lawful, Attributed, Pending, Judged
  <2> HIDE DEF new
  <2>3. Lawful(after)
    BY <1>1, <2>2, UnlockLawful
  <2> QED BY <2>1, <2>3, OneTaskLawful
<1>8. CASE ExtendTaskLockTime(u, t)
  <2> DEFINE after == ExtendLock(task, u)
  <2>1. IsLocked(task) /\ tasks' = [tasks EXCEPT ![t] = after]
    BY <1>8 DEF ExtendTaskLockTime
  <2>2. Quiet(task, after) /\ after.status = task.status /\ after.locked_by = task.locked_by
    BY <1>1, <2>1, QuietOperations, ExtendLockGood
  <2>3. Lawful(after)
    BY <1>1, <2>2, QuietLawful
  <2> QED BY <2>1, <2>3, OneTaskLawful
<1> QED BY <1>3, <1>4, <1>5, <1>6, <1>7, <1>8 DEF UserStep

LEMMA StepLawful ==
  ASSUME Clean, Locks, AllLawful, Next PROVE \A x \in Tasks : Lawful(tasks'[x])
<1>1. ASSUME NEW u \in Users, NEW requested \in SUBSET Tasks, NEW away,
             LockTasksForValidation(u, requested, away)
      PROVE  \A x \in Tasks : Lawful(tasks'[x])
  <2>1. ASSUME NEW t \in requested PROVE Lawful(LockTask(tasks[t], "LOCKED_FOR_VALIDATION", u))
    <3> DEFINE task == tasks[t]
               last == GetLastStatus(task.history)
    <3>1. GoodTask(task) /\ Settled(task) /\ Lawful(task)
      BY DEF Clean, AllLawful
    <3>2. \/ task.locked_by = u /\ task.status = "LOCKED_FOR_VALIDATION"
          \/ task.status \in Judged /\ (u \in Admins \/ task.mapped_by # u)
      BY <1>1 DEF LockTasksForValidation, UserCanValidateTask, Judged, Done
    <3>3. last # "VALIDATED" /\ last \in Judged /\ (task.mapped_by # u \/ u \in Admins)
      <4>1. CASE task.locked_by = u /\ task.status = "LOCKED_FOR_VALIDATION"
        BY <3>1, <4>1 DEF Lawful, Checked, Judged, Done
      <4>2. CASE task.status \in Judged /\ (u \in Admins \/ task.mapped_by # u)
        BY <3>1, <4>2 DEF Settled, IsLocked, LockedStatus, Judged, Done
      <4> QED BY <3>2, <4>1, <4>2
    <3> HIDE DEF last
    <3> QED BY <3>1, <3>3, LockLawful DEF LockedStatus, last
  <2>2. tasks' = [t \in Tasks |-> IF t \in requested
                                  THEN LockTask(tasks[t], "LOCKED_FOR_VALIDATION", u) ELSE tasks[t]]
    BY <1>1 DEF LockTasksForValidation
  <2> QED BY <2>1, <2>2 DEF AllLawful
<1>2. ASSUME NEW t \in Tasks, NEW k, AutoUnlockTask(t, k) PROVE \A x \in Tasks : Lawful(tasks'[x])
  <2> DEFINE after == AutoUnlock(tasks[t], k)
  <2>1. tasks' = [tasks EXCEPT ![t] = after]
    BY <1>2 DEF AutoUnlockTask
  <2>2. GoodTask(tasks[t]) /\ Lawful(tasks[t]) /\ NoUser \in UserOrNone
    BY DEF Clean, AllLawful, UserOrNone
  <2>3. /\ Quiet(tasks[t], after)
        /\ \/ after.status = tasks[t].status /\ after.locked_by = tasks[t].locked_by
           \/ ~IsLocked(after)
    BY <2>2, QuietOperations, AutoUnlockGood
  <2>4. Lawful(after)
    BY <2>2, <2>3, QuietLawful
  <2> QED BY <2>1, <2>4, OneTaskLawful
<1> QED BY <1>1, <1>2, UserStepLawful, LockForMappingLawful DEF Next, LockSome, AutoUnlockStep

LEMMA LawHolds == Spec => []AllLawful
<1>1. Init => AllLawful
  <2>1. Lawful(NewTask)
    <3>1. /\ Changes(<<>>) = {} /\ OpenEntries(<<>>) = {} /\ InvalidatedRows(<<>>) = {}
          /\ GetLastStatus(<<>>) = "READY" /\ GetUndoStatus(<<>>) = "READY"
      BY FS_EmptySet DEF Changes, RowsOf, OpenEntries, InvalidatedRows, GetLastStatus, GetUndoStatus
    <3> QED BY <3>1 DEF Lawful, Attributed, Pending, Checked, NewTask, IsLocked, LockedStatus
  <2> QED BY <2>1 DEF Init, AllLawful
<1>2. ASSUME Clean, Locks, AllLawful, [Next]_vars PROVE AllLawful'
  <2>1. CASE Next
    <3>1. \A x \in Tasks : Lawful(tasks'[x])
      BY <1>2, <2>1, StepLawful
    <3> QED BY <3>1 DEF AllLawful, Lawful, Attributed, Pending, Checked, IsLocked
  <2>2. CASE UNCHANGED vars
    BY <1>2, <2>2 DEF vars, AllLawful, Lawful, Attributed, Pending, Checked, IsLocked
  <2> QED BY <1>2, <2>1, <2>2
<1> QED BY CleanHolds, LocksHold, <1>1, <1>2, PTL DEF Spec

----------------------------------------------------------------------------
\* The validator of a validated task is the user of its last change of status,
\* also after undos that return to VALIDATED.
THEOREM ValidatorRecorded == Spec => []ValidatorOnRecord
<1>1. Clean /\ AllLawful => ValidatorOnRecord
  BY DEF Clean, Settled, IsLocked, LockedStatus, AllLawful, Lawful, Attributed, ValidatorOnRecord
<1> QED BY CleanHolds, LawHolds, <1>1, PTL

\* Nobody but an administrator is the validator of a task recorded as mapped
\* by the same user, whatever undos and re-locks led there.
THEOREM ValidatorIsAnother == Spec => []NoSelfValidation
<1>1. Clean /\ AllLawful => NoSelfValidation
  BY DEF Clean, Settled, IsLocked, LockedStatus, AllLawful, Lawful, Attributed, NoSelfValidation
<1> QED BY CleanHolds, LawHolds, <1>1, PTL

\* A task has one pending invalidation at most, exactly one while INVALIDATED is
\* last on record and none once VALIDATED is.
THEOREM InvalidationsCorrect == Spec => []InvalidationPending
<1>1. ASSUME AllLawful PROVE InvalidationPending
  <2>1. ASSUME NEW t \in Tasks
        PROVE  LET pending == Cardinality(OpenEntries(tasks[t].invalidations))
                   last == GetLastStatus(tasks[t].history)
               IN  /\ pending <= 1
                   /\ last = "INVALIDATED" => pending = 1
                   /\ last = "VALIDATED" => pending = 0
    <3> DEFINE open == OpenEntries(tasks[t].invalidations)
               last == GetLastStatus(tasks[t].history)
    <3>1. /\ \E n : open \subseteq {n}
          /\ last = "INVALIDATED" => open # {}
          /\ last = "VALIDATED" => open = {}
      BY <1>1 DEF AllLawful, Lawful, Pending
    <3>2. PICK n : open \subseteq {n}
      BY <3>1
    <3>3. open = {} \/ open = {n}
      BY <3>2
    <3>4. Cardinality({}) = 0 /\ Cardinality({n}) = 1
      BY FS_EmptySet, FS_Singleton
    <3> HIDE DEF open, last
    <3>5. /\ Cardinality(open) <= 1
          /\ last = "INVALIDATED" => Cardinality(open) = 1
          /\ last = "VALIDATED" => Cardinality(open) = 0
      BY <3>1, <3>3, <3>4
    <3> QED BY <3>5 DEF open, last
  <2> QED BY <2>1 DEF InvalidationPending
<1> QED BY LawHolds, <1>1, PTL
=============================================================================
