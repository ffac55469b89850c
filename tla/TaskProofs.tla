----------------------------- MODULE TaskProofs -----------------------------
(***************************************************************************)
(* Lemmas about the operators of TaskHistory and Task: what each operation *)
(* of backend/models/postgis/task.py keeps true of one task, for any       *)
(* number of users and any history.                                        *)
(*                                                                         *)
(* Two facts are carried through: a STATE_CHANGE row never names a lock    *)
(* (WellFormed), and a pending invalidation has a MAPPED row to name the   *)
(* mapper from (GoodTask). Without the first, get_last_status could put a  *)
(* task that is released back into a lock; without the second,             *)
(* record_validation would read a mapper from a row that is not there.     *)
(***************************************************************************)
EXTENDS Task, TLAPS, FiniteSetTheorems, WellFoundedInduction

\* A function on 1..n is a sequence of length n: the operations on rows that
\* rebuild a history (a row closed, a row deleted) are written as functions.
LEMMA SeqOfFunction ==
  ASSUME NEW S, NEW n \in Nat, NEW f \in [1..n -> S]
  PROVE  f \in Seq(S) /\ Len(f) = n /\ DOMAIN f = 1..n
OBVIOUS

\* The newest of some rows exists and is one of them: the queries ordered by
\* action_date DESC that take the first row (get_last_status, get_last_action).
LEMMA MaxOfPositions ==
  ASSUME NEW n \in Nat, NEW P, P \subseteq 1..n, P # {}
  PROVE  Max(P) \in P /\ \A i \in P : i <= Max(P)
<1> DEFINE less == OpToRel(<, Nat)
           distances == {n - i : i \in P}
<1>1. IsWellFoundedOn(less, Nat)
  BY NatLessThanWellFounded
<1>2. ASSUME NEW x \in Nat, NEW y \in Nat
      PROVE  <<y, x>> \in less <=> y < x
  BY DEF OpToRel
<1> HIDE DEF less
<1>3. \A i \in P : i \in Int /\ n - i \in Nat /\ n - i \in distances
  OBVIOUS
<1>4. distances \subseteq Nat
  BY <1>3
<1>5. distances # {}
  BY <1>3
<1>6. PICK x \in distances : \A y \in distances : <<y, x>> \notin less
  <2> HIDE DEF distances
  <2> QED  BY <1>1, <1>4, <1>5, WFMin
<1>7. PICK m \in P : x = n - m
  BY <1>6
<1>8. ASSUME NEW i \in P  PROVE m >= i
  <2>1. x \in Nat /\ n - i \in Nat /\ n - i \in distances
    BY <1>3, <1>4
  <2>2. ~ (n - i < x)
    BY <2>1, <1>2, <1>6
  <2> QED  BY <2>1, <2>2, <1>3, <1>7
<1>9. QED
  BY <1>3, <1>8 DEF Max

-----------------------------------------------------------------------------
\* The statuses a task has while nobody holds it.
UnlockedStatus == TaskStatus \ LockedStatus

\* A history whose STATE_CHANGE rows name no lock (set_state_change_action is
\* only given the status a lock is released with).
WellFormed(h) ==
  /\ h \in Seq(Row)
  /\ \A i \in Changes(h) : h[i].text \in UnlockedStatus

\* The rows a query selects are positions of the history.
LEMMA Positions ==
  ASSUME NEW h \in Seq(Row), NEW actions
  PROVE  /\ Len(h) \in Nat
         /\ DOMAIN h = 1..Len(h)
         /\ h \in [1..Len(h) -> Row]
         /\ RowsOf(h, actions) \subseteq 1..Len(h)
         /\ \A i \in 1..Len(h) : h[i] \in Row
BY DEF RowsOf

\* The first row of a query ordered by date is of an action the query asks for
\* and no row of such an action is newer.
LEMMA NewestRow ==
  ASSUME NEW h \in Seq(Row), NEW actions, RowsOf(h, actions) # {}
  PROVE  LET i == Max(RowsOf(h, actions))
         IN  /\ i \in 1..Len(h)
             /\ h[i].action \in actions
             /\ \A j \in 1..Len(h) : h[j].action \in actions => j <= i
<1>1. Len(h) \in Nat /\ RowsOf(h, actions) \subseteq 1..Len(h)
  BY Positions
<1>2. /\ Max(RowsOf(h, actions)) \in RowsOf(h, actions)
      /\ \A i \in RowsOf(h, actions) : i <= Max(RowsOf(h, actions))
  BY <1>1, MaxOfPositions
<1>3. QED
  BY <1>1, <1>2, Positions DEF RowsOf

\* get_last_status never answers that the task is locked.
LEMMA LastStatusType ==
  ASSUME NEW h, WellFormed(h)
  PROVE  GetLastStatus(h) \in UnlockedStatus
<1>1. CASE Changes(h) = {}
  BY <1>1 DEF GetLastStatus, UnlockedStatus, TaskStatus, LockedStatus
<1>2. CASE Changes(h) # {}
  <2>1. Max(Changes(h)) \in Changes(h)
    BY <1>2, MaxOfPositions, Positions DEF WellFormed, Changes
  <2>2. QED
    BY <1>2, <2>1 DEF GetLastStatus, WellFormed
<1>3. QED
  BY <1>1, <1>2

\* get_last_status for an undo never answers that the task is locked, also
\* when the history holds fewer than two changes of status.
LEMMA UndoStatusType ==
  ASSUME NEW h, WellFormed(h)
  PROVE  GetUndoStatus(h) \in UnlockedStatus
<1> DEFINE last == Max(Changes(h))
           rest == Changes(h) \ {last}
<1>0. "READY" \in UnlockedStatus
  BY DEF UnlockedStatus, TaskStatus, LockedStatus
<1>1. CASE rest = {}
  <2>1. Cardinality(Changes(h)) <= 1
    <3>1. Changes(h) \subseteq {last}
      BY <1>1
    <3>2. IsFiniteSet({last}) /\ Cardinality({last}) = 1
      BY FS_Singleton
    <3>3. QED
      BY <3>1, <3>2, FS_Subset
  <2>2. GetUndoStatus(h) = "READY"
    BY <2>1 DEF GetUndoStatus
  <2>3. QED
    BY <2>2, <1>0
<1>2. CASE rest # {}
  <2>1. Max(rest) \in rest
    <3>1. rest \subseteq 1..Len(h) /\ Len(h) \in Nat
      BY Positions DEF WellFormed, Changes
    <3>2. QED
      BY <1>2, <3>1, MaxOfPositions
  <2>2. QED
    BY <1>0, <2>1 DEF GetUndoStatus, WellFormed
<1>3. QED
  BY <1>1, <1>2

-----------------------------------------------------------------------------
\* g differs from h in rows that are no changes of status.
KeepsChanges(h, g) ==
  /\ g \in Seq(Row)
  /\ Changes(g) = Changes(h)
  /\ \A i \in Changes(h) : g[i] = h[i]

\* An operation that leaves the STATE_CHANGE rows alone leaves the answers of
\* get_last_status and the MAPPED rows alone.
LEMMA SameChanges ==
  ASSUME NEW h, NEW g, WellFormed(h), KeepsChanges(h, g)
  PROVE  /\ WellFormed(g)
         /\ GetLastStatus(g) = GetLastStatus(h)
         /\ MappedRows(g) = MappedRows(h)
<1>1. WellFormed(g)
  BY DEF WellFormed, KeepsChanges
<1>2. GetLastStatus(g) = GetLastStatus(h)
  <2>1. CASE Changes(h) = {}
    BY <2>1 DEF KeepsChanges, GetLastStatus
  <2>2. CASE Changes(h) # {}
    <3>1. Max(Changes(h)) \in Changes(h)
      BY <2>2, MaxOfPositions, Positions DEF WellFormed, Changes
    <3>2. QED
      BY <2>2, <3>1 DEF KeepsChanges, GetLastStatus
  <2>3. QED
    BY <2>1, <2>2
<1>3. MappedRows(g) = MappedRows(h)
  BY DEF KeepsChanges, MappedRows
<1>4. QED
  BY <1>1, <1>2, <1>3

\* The rows set_task_history makes are rows of the table.
LEMMA RowTypes ==
  ASSUME NEW u \in UserOrNone
  PROVE  /\ \A action \in TaskAction : LockRow(action, u) \in Row
         /\ CommentRow(u) \in Row
         /\ \A status \in TaskStatus : StateChangeRow(status, u) \in Row
BY DEF UserOrNone, LockRow, CommentRow, StateChangeRow, Row, TaskAction

\* What the queries select after a row is inserted (set_task_history): what they
\* selected before, and the new row if it is of an action asked for.
LEMMA Appended ==
  ASSUME NEW h \in Seq(Row), NEW row \in Row
  PROVE  /\ Append(h, row) \in Seq(Row)
         /\ Len(Append(h, row)) = Len(h) + 1
         /\ \A i \in 1..Len(h) : Append(h, row)[i] = h[i]
         /\ Append(h, row)[Len(h) + 1] = row
         /\ \A actions :
              RowsOf(Append(h, row), actions) =
                RowsOf(h, actions) \cup IF row.action \in actions THEN {Len(h) + 1} ELSE {}
<1> DEFINE g == Append(h, row)
<1>1. /\ g \in Seq(Row)
      /\ Len(g) = Len(h) + 1
      /\ \A i \in 1..Len(h) : g[i] = h[i]
      /\ g[Len(h) + 1] = row
  OBVIOUS
<1>2. DOMAIN g = 1..Len(h) + 1 /\ DOMAIN h = 1..Len(h) /\ Len(h) \in Nat
  BY <1>1, Positions
<1>3. 1..Len(h) + 1 = 1..Len(h) \cup {Len(h) + 1}
  BY <1>2
<1>4. ASSUME NEW actions
      PROVE  RowsOf(g, actions) =
               RowsOf(h, actions) \cup IF row.action \in actions THEN {Len(h) + 1} ELSE {}
  <2> HIDE DEF g
  <2> QED  BY <1>1, <1>2, <1>3 DEF RowsOf
<1>5. QED
  BY <1>1, <1>4

\* Inserting a lock or a comment leaves the changes of status alone.
LEMMA AppendOther ==
  ASSUME NEW h \in Seq(Row), NEW row \in Row, row.action # "STATE_CHANGE"
  PROVE  KeepsChanges(h, Append(h, row))
<1>1. Len(h) \in Nat /\ Changes(h) \subseteq 1..Len(h)
  BY Positions DEF Changes
<1>2. Changes(Append(h, row)) =
        Changes(h) \cup IF row.action \in {"STATE_CHANGE"} THEN {Len(h) + 1} ELSE {}
  BY Appended DEF Changes
<1>3. QED
  BY <1>1, <1>2, Appended DEF KeepsChanges

\* Inserting a change of status (set_state_change_action) makes it the answer of
\* get_last_status, and forgets no MAPPED row.
LEMMA AppendChange ==
  ASSUME NEW h, WellFormed(h), NEW status \in UnlockedStatus, NEW u \in UserOrNone
  PROVE  LET g == Append(h, StateChangeRow(status, u))
         IN  /\ WellFormed(g)
             /\ GetLastStatus(g) = status
             /\ MappedRows(h) \subseteq MappedRows(g)
<1> DEFINE row == StateChangeRow(status, u)
           g == Append(h, row)
           n == Len(h) + 1
<1>1. row \in Row /\ row.action = "STATE_CHANGE" /\ row.text = status
  BY RowTypes DEF UnlockedStatus, StateChangeRow
<1>2. h \in Seq(Row) /\ Len(h) \in Nat /\ Changes(h) \subseteq 1..Len(h)
  BY Positions DEF WellFormed, Changes
<1> HIDE DEF row
<1>3. /\ g \in Seq(Row)
      /\ \A i \in 1..Len(h) : g[i] = h[i]
      /\ g[n] = row
      /\ Changes(g) = Changes(h) \cup {n}
  BY <1>1, <1>2, Appended DEF Changes
<1> HIDE DEF g
<1>4. WellFormed(g)
  BY <1>1, <1>2, <1>3 DEF WellFormed
<1>5. GetLastStatus(g) = status
  <2>1. Max(Changes(g)) = n
    <3>1. Changes(g) \subseteq 1..n /\ Changes(g) # {} /\ n \in Nat
      BY <1>2, <1>3
    <3>2. Max(Changes(g)) \in Changes(g) /\ n <= Max(Changes(g))
      BY <3>1, <1>3, MaxOfPositions
    <3>3. QED
      BY <3>1, <3>2
  <2>2. QED
    BY <1>1, <1>3, <2>1 DEF GetLastStatus
<1>6. MappedRows(h) \subseteq MappedRows(g)
  BY <1>2, <1>3 DEF MappedRows
<1>7. QED
  BY <1>4, <1>5, <1>6 DEF g, row

\* update_task_locked_with_duration, which closes a row about a lock and deletes
\* its duplicates, touches no change of status and moves no row.
LEMMA CloseLockKeeps ==
  ASSUME NEW h \in Seq(Row), NEW action \in LockedStatus \cup ExtendActions, NEW u
  PROVE  /\ KeepsChanges(h, CloseLock(h, action, u))
         /\ Len(CloseLock(h, action, u)) = Len(h)
<1> DEFINE mine == {i \in RowsOf(h, {action}) : h[i].user = u}
           open == {i \in mine : h[i].text = "open"}
           keep == Max(open)
           dupes == {i \in mine : \E j \in open \ {keep} : i <= j}
           g == [i \in DOMAIN h |-> IF i = keep THEN [h[i] EXCEPT !.text = "closed"]
                                    ELSE IF i \in dupes THEN Deleted ELSE h[i]]
<1>1. /\ Len(h) \in Nat
      /\ DOMAIN h = 1..Len(h)
      /\ \A i \in 1..Len(h) : h[i] \in Row
      /\ RowsOf(h, {action}) \subseteq 1..Len(h)
      /\ action # "STATE_CHANGE" /\ action # "DELETED"
  BY Positions DEF LockedStatus, ExtendActions
<1>2. CASE open = {}
  BY <1>2 DEF CloseLock, KeepsChanges
<1>3. CASE open # {}
  <2>1. CloseLock(h, action, u) = g
    BY <1>3 DEF CloseLock
  <2>2. keep \in open
    BY <1>1, <1>3, MaxOfPositions
  <2>3. \A i \in {keep} \cup dupes : i \in 1..Len(h) /\ h[i].action = action
    BY <1>1, <2>2 DEF RowsOf
  <2> HIDE DEF keep, dupes
  <2>4. \A i \in 1..Len(h) : [h[i] EXCEPT !.text = "closed"] \in Row
    BY <1>1 DEF Row
  <2>5. Deleted \in Row
    BY DEF Deleted, Row
  <2>6. g \in [1..Len(h) -> Row]
    BY <1>1, <2>4, <2>5
  <2>7. \A i \in 1..Len(h) : g[i].action = "STATE_CHANGE" <=> h[i].action = "STATE_CHANGE"
    BY <1>1, <2>3 DEF Deleted, Row
  <2>8. \A i \in 1..Len(h) : h[i].action = "STATE_CHANGE" => g[i] = h[i]
    BY <1>1, <2>3
  <2>9. g \in Seq(Row) /\ Len(g) = Len(h) /\ DOMAIN g = 1..Len(h)
    BY <1>1, <2>6, SeqOfFunction
  <2> HIDE DEF g
  <2>10. QED
    BY <1>1, <2>1, <2>7, <2>8, <2>9 DEF KeepsChanges, Changes, RowsOf
<1>4. QED
  BY <1>2, <1>3

\* record_auto_unlock, which rewrites and closes rows about locks, touches no
\* change of status and moves no row.
LEMMA ExpireRowsKeeps ==
  ASSUME NEW h \in Seq(Row), NEW k
  PROVE  /\ KeepsChanges(h, ExpireRows(h, k))
         /\ Len(ExpireRows(h, k)) = Len(h)
<1> DEFINE g == ExpireRows(h, k)
<1>1. /\ Len(h) \in Nat
      /\ DOMAIN h = 1..Len(h)
      /\ \A i \in 1..Len(h) : h[i] \in Row
  BY Positions
<1>2. \A i \in OpenLockRows(h) : h[i].action \in LockedStatus \cup ExtendActions
  BY DEF OpenLockRows, RowsOf
<1>3. \A i \in 1..Len(h) : \/ g[i] = h[i]
                           \/ /\ i \in OpenLockRows(h)
                              /\ g[i].action \in AutoActions
                              /\ g[i].text = "closed"
                              /\ g[i].user = h[i].user
                              /\ g[i] \in Row
  BY <1>1 DEF ExpireRows, Row, AutoActions, TaskAction
<1>4. g \in [1..Len(h) -> Row]
  <2>1. g = [i \in 1..Len(h) |-> g[i]]
    BY <1>1 DEF ExpireRows
  <2> HIDE DEF g
  <2>2. QED
    BY <1>1, <1>3, <2>1
<1> HIDE DEF g
<1>5. g \in Seq(Row) /\ Len(g) = Len(h) /\ DOMAIN g = 1..Len(h)
  BY <1>1, <1>4, SeqOfFunction
<1>6. \A i \in 1..Len(h) : /\ h[i].action = "STATE_CHANGE" => g[i] = h[i]
                           /\ g[i].action = "STATE_CHANGE" => g[i] = h[i]
  BY <1>2, <1>3 DEF LockedStatus, ExtendActions, AutoActions
<1>7. KeepsChanges(h, g)
  BY <1>1, <1>5, <1>6 DEF KeepsChanges, Changes, RowsOf
<1>8. QED
  BY <1>5, <1>7 DEF g

-----------------------------------------------------------------------------
\* A task of the right type with a well-formed history, where a pending
\* invalidation implies that somebody once mapped the task.
GoodTask(task) ==
  /\ task \in TaskRecord
  /\ WellFormed(task.history)
  /\ OpenEntries(task.invalidations) # {} => MappedRows(task.history) # {}

\* What unlock_task promises: nobody holds the task, and it is in the given
\* status, which is also the last one on record.
AtRest(task, status) ==
  /\ GoodTask(task)
  /\ GetLastStatus(task.history) = status
  /\ task.status = status
  /\ task.locked_by = NoUser
  /\ ~IsLocked(task)

\* A task just created (Task.from_geojson_feature) is good and READY.
LEMMA NewTaskGood == GoodTask(NewTask) /\ GetLastStatus(NewTask.history) = "READY"
<1>1. NewTask \in TaskRecord
  BY DEF NewTask, TaskRecord, TaskStatus, UserOrNone
<1>2. Changes(<<>>) = {} /\ OpenEntries(<<>>) = {}
  BY DEF Changes, RowsOf, OpenEntries
<1>3. QED
  BY <1>1, <1>2 DEF GoodTask, WellFormed, NewTask, GetLastStatus

\* A good task stays good when only rows about locks and comments change.
LEMMA NewHistory ==
  ASSUME NEW task, GoodTask(task), NEW new \in TaskRecord,
         KeepsChanges(task.history, new.history),
         new.invalidations = task.invalidations
  PROVE  /\ GoodTask(new)
         /\ GetLastStatus(new.history) = GetLastStatus(task.history)
BY SameChanges DEF GoodTask

\* lock_task_for_mapping and lock_task_for_validating leave the last status on
\* record what it was.
LEMMA LockTaskGood ==
  ASSUME NEW task, GoodTask(task), NEW status \in LockedStatus, NEW u \in UserOrNone
  PROVE  /\ GoodTask(LockTask(task, status, u))
         /\ GetLastStatus(LockTask(task, status, u).history) = GetLastStatus(task.history)
<1> DEFINE new == LockTask(task, status, u)
<1>1. /\ LockRow(status, u) \in Row
      /\ LockRow(status, u).action # "STATE_CHANGE"
      /\ status \in TaskStatus
  BY RowTypes DEF LockedStatus, TaskAction, LockRow, TaskStatus
<1>2. KeepsChanges(task.history, Append(task.history, LockRow(status, u)))
  BY <1>1, AppendOther DEF GoodTask, WellFormed
<1>3. /\ new \in TaskRecord
      /\ new.history = Append(task.history, LockRow(status, u))
      /\ new.invalidations = task.invalidations
  BY <1>1, <1>2 DEF LockTask, GoodTask, TaskRecord, KeepsChanges
<1> HIDE DEF new
<1>4. QED
  BY <1>2, <1>3, NewHistory DEF new

\* A comment (add_task_comment, or the comment of an unlock) changes no column
\* of the task and no answer about its statuses.
LEMMA CommentedGood ==
  ASSUME NEW task, GoodTask(task), NEW u \in UserOrNone, NEW comment
  PROVE  LET new == Commented(task, u, comment)
         IN  /\ GoodTask(new)
             /\ GetLastStatus(new.history) = GetLastStatus(task.history)
             /\ MappedRows(new.history) = MappedRows(task.history)
             /\ new.status = task.status
             /\ new.locked_by = task.locked_by
             /\ new.mapped_by = task.mapped_by
             /\ new.validated_by = task.validated_by
             /\ new.invalidations = task.invalidations
<1> DEFINE new == Commented(task, u, comment)
           g == Append(task.history, CommentRow(u))
<1>1. CASE comment
  <2>1. CommentRow(u) \in Row /\ CommentRow(u).action # "STATE_CHANGE"
    BY RowTypes DEF CommentRow
  <2>2. KeepsChanges(task.history, g)
    BY <2>1, AppendOther DEF GoodTask, WellFormed
  <2> HIDE DEF g
  <2>3. /\ new \in TaskRecord
        /\ new = [task EXCEPT !.history = g]
        /\ new.history = g
        /\ new.status = task.status
        /\ new.locked_by = task.locked_by
        /\ new.mapped_by = task.mapped_by
        /\ new.validated_by = task.validated_by
        /\ new.invalidations = task.invalidations
    BY <1>1, <2>2 DEF Commented, GoodTask, TaskRecord, KeepsChanges, g
  <2> HIDE DEF new
  <2>4. QED
    BY <2>2, <2>3, NewHistory DEF KeepsChanges, MappedRows, new
<1>2. CASE ~comment
  BY <1>2 DEF Commented
<1>3. QED
  BY <1>1, <1>2

\* clear_lock leaves the task with its last status on record and no holder.
LEMMA ClearLockGood ==
  ASSUME NEW task, GoodTask(task)
  PROVE  LET new == ClearLock(task)
         IN  /\ GoodTask(new)
             /\ new.history = task.history
             /\ new.status = GetLastStatus(task.history)
             /\ new.locked_by = NoUser
             /\ ~IsLocked(new)
<1> DEFINE new == ClearLock(task)
<1>1. GetLastStatus(task.history) \in UnlockedStatus
  BY LastStatusType DEF GoodTask
<1>2. /\ new \in TaskRecord
      /\ new.history = task.history
      /\ new.status = GetLastStatus(task.history)
      /\ new.locked_by = NoUser
      /\ new.invalidations = task.invalidations
  BY <1>1 DEF ClearLock, GoodTask, TaskRecord, UnlockedStatus, UserOrNone
<1>3. ~IsLocked(new)
  BY <1>1, <1>2 DEF IsLocked, UnlockedStatus
<1> HIDE DEF new
<1>4. GoodTask(new)
  BY <1>2 DEF GoodTask
<1>5. QED
  BY <1>2, <1>3, <1>4 DEF new

\* reset_lock (stop mapping, stop validating, reset by a project manager) leaves
\* the task with the status it had before the lock.
LEMMA ResetLockGood ==
  ASSUME NEW task, GoodTask(task), IsLocked(task),
         NEW u \in UserOrNone, NEW comment
  PROVE  LET new == ResetLock(task, u, comment)
         IN  /\ GoodTask(new)
             /\ GetLastStatus(new.history) = GetLastStatus(task.history)
             /\ new.status = GetLastStatus(task.history)
             /\ new.locked_by = NoUser
             /\ ~IsLocked(new)
<1> DEFINE noted == Commented(task, u, comment)
           g == CloseLock(noted.history, task.status, u)
           closed == [noted EXCEPT !.history = CloseLock(@, task.status, u)]
<1>1. /\ GoodTask(noted)
      /\ GetLastStatus(noted.history) = GetLastStatus(task.history)
  BY CommentedGood
<1>2. KeepsChanges(noted.history, g)
  BY <1>1, CloseLockKeeps DEF GoodTask, WellFormed, IsLocked
<1>3. ResetLock(task, u, comment) = ClearLock(closed)
  BY DEF ResetLock
<1> HIDE DEF noted
<1>4. /\ closed \in TaskRecord
      /\ closed.history = g
      /\ closed.invalidations = noted.invalidations
  BY <1>1, <1>2 DEF GoodTask, TaskRecord, KeepsChanges
<1> HIDE DEF closed, g
<1>5. /\ GoodTask(closed)
      /\ GetLastStatus(closed.history) = GetLastStatus(task.history)
  BY <1>1, <1>2, <1>4, NewHistory
<1>6. QED
  BY <1>3, <1>5, ClearLockGood

\* extend_task_lock_time leaves the task locked by its holder.
LEMMA ExtendLockGood ==
  ASSUME NEW task, GoodTask(task), IsLocked(task), NEW u \in UserOrNone
  PROVE  LET new == ExtendLock(task, u)
         IN  /\ GoodTask(new)
             /\ GetLastStatus(new.history) = GetLastStatus(task.history)
             /\ new.status = task.status
             /\ new.locked_by = task.locked_by
<1> DEFINE new == ExtendLock(task, u)
           closed == CloseLock(task.history, task.status, u)
           row == LockRow(ExtendAction(task.status), u)
<1>1. KeepsChanges(task.history, closed)
  BY CloseLockKeeps DEF GoodTask, WellFormed, IsLocked
<1>2. row \in Row /\ row.action # "STATE_CHANGE"
  BY RowTypes DEF ExtendAction, TaskAction, ExtendActions, LockRow
<1> HIDE DEF row
<1>3. KeepsChanges(closed, Append(closed, row))
  BY <1>1, <1>2, AppendOther DEF KeepsChanges
<1> HIDE DEF closed
<1>4. KeepsChanges(task.history, Append(closed, row))
  BY <1>1, <1>3 DEF KeepsChanges
<1>5. /\ new \in TaskRecord
      /\ new.history = Append(closed, row)
      /\ new.status = task.status
      /\ new.locked_by = task.locked_by
      /\ new.invalidations = task.invalidations
  BY <1>4 DEF ExtendLock, GoodTask, TaskRecord, KeepsChanges, closed, row
<1> HIDE DEF new
<1>6. QED
  BY <1>4, <1>5, NewHistory DEF new

\* auto_unlock_expired_tasks leaves a task locked as it was, or with the status
\* it had before the lock and no holder.
LEMMA AutoUnlockGood ==
  ASSUME NEW task, GoodTask(task), NEW k
  PROVE  LET new == AutoUnlock(task, k)
         IN  /\ GoodTask(new)
             /\ GetLastStatus(new.history) = GetLastStatus(task.history)
             /\ \/ /\ new.status = task.status
                   /\ new.locked_by = task.locked_by
                \/ /\ new.status = GetLastStatus(task.history)
                   /\ new.locked_by = NoUser
                   /\ ~IsLocked(new)
<1> DEFINE g == ExpireRows(task.history, k)
           expired == [task EXCEPT !.history = ExpireRows(@, k)]
<1>1. KeepsChanges(task.history, g)
  BY ExpireRowsKeeps DEF GoodTask, WellFormed
<1>2. /\ expired \in TaskRecord
      /\ expired.history = g
      /\ expired.status = task.status
      /\ expired.locked_by = task.locked_by
      /\ expired.invalidations = task.invalidations
  BY <1>1 DEF GoodTask, TaskRecord, KeepsChanges
<1>3. AutoUnlock(task, k) \in {expired, ClearLock(expired)}
  BY DEF AutoUnlock
<1> HIDE DEF expired, g
<1>4. /\ GoodTask(expired)
      /\ GetLastStatus(expired.history) = GetLastStatus(task.history)
  BY <1>1, <1>2, NewHistory
<1>5. QED
  BY <1>2, <1>3, <1>4, ClearLockGood

\* record_validation closes every pending invalidation; record_invalidation
\* leaves exactly the new one pending, or none when nobody mapped the task.
LEMMA InvalidationsGood ==
  ASSUME NEW entries \in Seq(InvalidationEntry), NEW h, WellFormed(h), NEW u \in UserOrNone,
         OpenEntries(entries) # {} => MappedRows(h) # {}
  PROVE  /\ RecordValidation(entries, h, u) \in Seq(InvalidationEntry)
         /\ OpenEntries(RecordValidation(entries, h, u)) = {}
         /\ RecordInvalidation(entries, h, u) \in Seq(InvalidationEntry)
         /\ OpenEntries(RecordInvalidation(entries, h, u)) =
              IF MappedRows(h) = {} THEN {} ELSE {Len(entries) + 1}
<1> DEFINE mapper == GetLastMappedAction(h).user
           n == Len(entries)
           validated == RecordValidation(entries, h, u)
           closed == CloseAllForTask(entries)
           new == [mapper |-> mapper, invalidator |-> u,
                   validator |-> NoUser, is_closed |-> FALSE]
<1>1. /\ n \in Nat
      /\ DOMAIN entries = 1..n
      /\ \A i \in 1..n : entries[i] \in InvalidationEntry
  OBVIOUS
<1>2. ASSUME MappedRows(h) # {}  PROVE mapper \in UserOrNone
  <2>1. /\ Len(h) \in Nat
        /\ MappedRows(h) \subseteq 1..Len(h)
        /\ \A i \in 1..Len(h) : h[i] \in Row
    BY Positions DEF WellFormed, MappedRows, Changes, RowsOf
  <2>2. Max(MappedRows(h)) \in 1..Len(h)
    BY <1>2, <2>1, MaxOfPositions
  <2>3. QED
    BY <2>1, <2>2 DEF GetLastMappedAction, Row, UserOrNone
<1> HIDE DEF mapper
<1>3. /\ validated \in Seq(InvalidationEntry)
      /\ OpenEntries(validated) = {}
  <2>1. /\ DOMAIN validated = 1..n
        /\ \A i \in 1..n : validated[i] \in InvalidationEntry /\ validated[i].is_closed
    BY <1>1, <1>2 DEF RecordValidation, OpenEntries, InvalidationEntry, mapper
  <2>2. validated = [i \in 1..n |-> validated[i]]
    BY <1>1 DEF RecordValidation
  <2> HIDE DEF validated
  <2>3. validated \in [1..n -> InvalidationEntry]
    BY <2>1, <2>2
  <2>4. QED
    BY <1>1, <2>1, <2>3, SeqOfFunction DEF OpenEntries
<1>4. /\ closed \in Seq(InvalidationEntry)
      /\ Len(closed) = n
      /\ DOMAIN closed = 1..n
      /\ OpenEntries(closed) = {}
      /\ \A i \in 1..n : closed[i].is_closed
  <2>1. /\ DOMAIN closed = 1..n
        /\ \A i \in 1..n : closed[i] \in InvalidationEntry /\ closed[i].is_closed
    BY <1>1 DEF CloseAllForTask, InvalidationEntry
  <2>2. closed = [i \in 1..n |-> closed[i]]
    BY <1>1 DEF CloseAllForTask
  <2> HIDE DEF closed
  <2>3. closed \in [1..n -> InvalidationEntry]
    BY <2>1, <2>2
  <2>4. QED
    BY <1>1, <2>1, <2>3, SeqOfFunction DEF OpenEntries
<1>5. CASE MappedRows(h) = {}
  BY <1>3, <1>4, <1>5 DEF RecordInvalidation
<1>6. CASE MappedRows(h) # {}
  <2>1. new \in InvalidationEntry /\ ~new.is_closed
    BY <1>2, <1>6 DEF InvalidationEntry, UserOrNone
  <2>2. RecordInvalidation(entries, h, u) = Append(closed, new)
    BY <1>6 DEF RecordInvalidation, mapper
  <2> HIDE DEF closed, new
  <2>3. /\ Append(closed, new) \in Seq(InvalidationEntry)
        /\ DOMAIN Append(closed, new) = 1..n + 1
        /\ \A i \in 1..n : Append(closed, new)[i] = closed[i]
        /\ Append(closed, new)[n + 1] = new
    BY <1>1, <1>4, <2>1
  <2>4. OpenEntries(Append(closed, new)) = {n + 1}
    BY <1>1, <1>4, <2>1, <2>3 DEF OpenEntries
  <2>5. QED
    BY <1>3, <1>6, <2>2, <2>3, <2>4
<1>7. QED
  BY <1>5, <1>6

\* unlock_task, with the status a lock is released with or the one an undo goes
\* back to, leaves the task at rest in that status.
LEMMA UnlockTaskGood ==
  ASSUME NEW task, GoodTask(task), NEW u \in UserOrNone,
         NEW status \in UnlockedStatus, NEW comment, NEW undo,
         IsLocked(task) \/ undo = TRUE
  PROVE  AtRest(UnlockTask(task, u, status, comment, undo), status)
<1> DEFINE new == UnlockTask(task, u, status, comment, undo)
           noted == Commented(task, u, comment)
           changed == Append(noted.history, StateChangeRow(status, u))
           entries == task.invalidations
<1>1. /\ GoodTask(noted)
      /\ MappedRows(noted.history) = MappedRows(task.history)
  BY CommentedGood
<1> HIDE DEF noted
<1>2. /\ WellFormed(changed)
      /\ GetLastStatus(changed) = status
      /\ MappedRows(noted.history) \subseteq MappedRows(changed)
  BY <1>1, AppendChange DEF GoodTask
<1> HIDE DEF changed
<1>3. OpenEntries(entries) # {} => MappedRows(changed) # {}
  BY <1>1, <1>2 DEF GoodTask
<1>4. entries \in Seq(InvalidationEntry)
  BY DEF GoodTask, TaskRecord
<1>5. KeepsChanges(changed, new.history)
  <2>1. changed \in Seq(Row) /\ KeepsChanges(changed, changed)
    BY <1>2 DEF WellFormed, KeepsChanges
  <2>2. new.history = IF undo THEN changed ELSE CloseLock(changed, task.status, u)
    BY DEF UnlockTask, changed, noted
  <2>3. QED
    BY <2>1, <2>2, CloseLockKeeps DEF IsLocked
<1>6. /\ WellFormed(new.history)
      /\ GetLastStatus(new.history) = status
      /\ MappedRows(new.history) = MappedRows(changed)
  BY <1>2, <1>5, SameChanges
<1>7. new.invalidations \in {RecordValidation(entries, changed, u),
                             RecordInvalidation(entries, changed, u), entries}
  <2>1. CASE status = "VALIDATED"
    BY <2>1 DEF UnlockTask, changed, noted
  <2>2. CASE status = "INVALIDATED"
    BY <2>2 DEF UnlockTask, changed, noted
  <2>3. CASE status \notin {"VALIDATED", "INVALIDATED"}
    BY <2>3 DEF UnlockTask, changed, noted
  <2>4. QED
    BY <2>1, <2>2, <2>3
<1>8. /\ new.invalidations \in Seq(InvalidationEntry)
      /\ OpenEntries(new.invalidations) # {} => MappedRows(changed) # {}
  <2>1. /\ RecordValidation(entries, changed, u) \in Seq(InvalidationEntry)
        /\ OpenEntries(RecordValidation(entries, changed, u)) = {}
        /\ RecordInvalidation(entries, changed, u) \in Seq(InvalidationEntry)
        /\ OpenEntries(RecordInvalidation(entries, changed, u)) =
             IF MappedRows(changed) = {} THEN {} ELSE {Len(entries) + 1}
    <3> HIDE DEF entries
    <3> QED  BY <1>2, <1>3, <1>4, InvalidationsGood
  <2> HIDE DEF entries, new
  <2>2. CASE new.invalidations = RecordValidation(entries, changed, u)
    BY <2>1, <2>2
  <2>3. CASE new.invalidations = RecordInvalidation(entries, changed, u)
    BY <2>1, <2>3
  <2>4. CASE new.invalidations = entries
    BY <1>3, <1>4, <2>4
  <2>5. QED
    BY <1>7, <2>2, <2>3, <2>4
<1>9. /\ new.status = status
      /\ new.locked_by = NoUser
      /\ new.mapped_by \in UserOrNone
      /\ new.validated_by \in UserOrNone
  BY DEF UnlockTask, MappedBy, ValidatedBy, GoodTask, TaskRecord, UserOrNone
<1>10. new \in TaskRecord
  <2>1. new = [status |-> new.status, locked_by |-> new.locked_by,
               mapped_by |-> new.mapped_by, validated_by |-> new.validated_by,
               history |-> new.history, invalidations |-> new.invalidations]
    BY DEF UnlockTask
  <2>2. ASSUME NEW s \in TaskStatus, NEW l \in UserOrNone, NEW m \in UserOrNone,
               NEW v \in UserOrNone, NEW h \in Seq(Row), NEW i \in Seq(InvalidationEntry)
        PROVE  [status |-> s, locked_by |-> l, mapped_by |-> m, validated_by |-> v,
                history |-> h, invalidations |-> i] \in TaskRecord
    BY DEF TaskRecord
  <2>3. /\ new.status \in TaskStatus
        /\ new.locked_by \in UserOrNone
        /\ new.history \in Seq(Row)
    BY <1>6, <1>9 DEF UnlockedStatus, WellFormed, UserOrNone
  <2> HIDE DEF new
  <2>4. QED
    BY <1>8, <1>9, <2>1, <2>2, <2>3
<1> HIDE DEF new
<1>11. QED
  BY <1>6, <1>8, <1>9, <1>10 DEF AtRest, GoodTask, IsLocked, UnlockedStatus, new
=============================================================================
