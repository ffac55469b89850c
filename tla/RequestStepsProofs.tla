------------------------ MODULE RequestStepsProofs ------------------------
(***************************************************************************)
(* What one worker that serves requests in steps commits: StepsInv,        *)
(* HeldIffLocked and LockExclusive whenever and however often it stops,    *)
(* and, if it never stops, that a request in steps is a whole request of   *)
(* TaskLifecycle (WholeRequests); for any tasks, users and permissions and *)
(* histories of any length.                                                *)
(*                                                                         *)
(* The invariant says what a worker under way may still rely on (Current): *)
(* the columns its session loaded are those of the database, but while an  *)
(* unlock is finished, and what it found of the task when it read it still *)
(* holds.  With a second worker neither is true.                           *)
(***************************************************************************)
EXTENDS SerialRequests, TaskLifecycleProofs

\* At most one request is served at a time.
OneWorker == \A v, w \in Workers : v = w

\* Every row that is not deleted is a user's.
Signed(h) == \A i \in 1..Len(h) : h[i].action # "DELETED" => h[i].user \in Users

ColumnsOf(task) == [status |-> task.status, locked_by |-> task.locked_by,
                    mapped_by |-> task.mapped_by, validated_by |-> task.validated_by]

\* What a request found when it read the task, as far as a later step needs it.
Found(r, task) ==
  \/ /\ r.op = "lock_mapping"
     /\ r.pc \in {"permit", "lock"}
     /\ IsMappable(task) \/ task.locked_by = r.user
  \/ /\ r.op = "lock_validation"
     /\ r.pc \in {"permit", "lock"}
     /\ \/ task.locked_by = r.user /\ task.status = "LOCKED_FOR_VALIDATION"
        \/ ~IsLocked(task) /\ UserCanValidateTask(r.user, task.mapped_by)
  \/ /\ r.op = "unlock"
     /\ r.pc \in {"notify", "count", "rows"}
     /\ IsLocked(task) /\ task.locked_by = r.user /\ r.new \in UnlockedStatus
  \/ /\ r.op = "unlock"
     /\ r.pc = "finish"
     /\ IsLocked(task) /\ r.new = GetLastStatus(task.history)
  \/ /\ r.op = "undo"
     /\ r.pc \in {"count", "rows"}
     /\ ~IsLocked(task) /\ task.status # "READY"
     /\ r.new = GetUndoStatus(task.history)
  \/ /\ r.op = "stop"
     /\ r.pc \in {"close", "load", "clear"}
     /\ IsLocked(task)
  \/ /\ r.op = "extend"
     /\ r.pc \in {"close", "extend"}
     /\ IsLocked(task)
  \/ /\ r.op = "sweep"
     /\ r.pc \in {"expire", "load", "clear"}
     /\ IsLocked(task)

\* A request and the columns its session loaded.
Current(r, task) ==
  /\ r \in Request
  /\ r.op # "sweep" => r.user \in Users
  /\ r.pc # "finish" => r.seen = ColumnsOf(task)
  /\ Found(r, task)

\* A task that is committed.
Consistent(task) ==
  /\ GoodTask(task)
  /\ Settled(task)
  /\ Signed(task.history)
  /\ IsLocked(task) => task.locked_by # NoUser
  /\ task.status = "LOCKED_FOR_VALIDATION" => UserCanValidateTask(task.locked_by, task.mapped_by)

StepsGood ==
  /\ TypeOK
  /\ request \in [Workers -> {Idle} \cup Request]
  /\ crashes \in 0..MaxCrashes
  /\ \A t \in Tasks : Consistent(tasks[t])
  /\ \A w \in Workers : request[w] # Idle => Current(request[w], tasks[request[w].task])

\* A holder keeps the task or loses it.
HolderStays(task, new) == task.locked_by # NoUser => new.locked_by \in {task.locked_by, NoUser}

\* What a step of the worker is shown to do.
GoodStep == StepsGood' /\ \A t \in Tasks : HolderStays(tasks[t], tasks'[t])

----------------------------------------------------------------------------
(* Rows and tasks.                                                         *)

\* Inserting a row of a user.
LEMMA SignedAppend ==
  ASSUME NEW h \in Seq(Row), Signed(h), NEW row \in Row, row.user \in Users
  PROVE  Signed(Append(h, row))
<1>1. Len(h) \in Nat /\ Len(Append(h, row)) = Len(h) + 1
      /\ \A i \in 1..Len(h) : Append(h, row)[i] = h[i]
      /\ Append(h, row)[Len(h) + 1] = row
  BY Positions, Appended
<1>2. \A i \in 1..Len(h) + 1 : i \in 1..Len(h) \/ i = Len(h) + 1
  BY <1>1
<1> QED BY <1>1, <1>2 DEF Signed

\* Closing or deleting rows.
LEMMA SignedClose ==
  ASSUME NEW h \in Seq(Row), Signed(h), NEW action \in LockedStatus, NEW u
  PROVE  Signed(CloseLock(h, action, u))
<1> DEFINE mine == {i \in RowsOf(h, {action}) : h[i].user = u}
           open == {i \in mine : h[i].text = "open"}
           keep == Max(open)
           dupes == {i \in mine : \E j \in open \ {keep} : i <= j}
           g == [i \in DOMAIN h |-> IF i = keep THEN [h[i] EXCEPT !.text = "closed"]
                                    ELSE IF i \in dupes THEN Deleted ELSE h[i]]
<1>1. /\ Len(h) \in Nat /\ DOMAIN h = 1..Len(h)
      /\ \A i \in 1..Len(h) : /\ [h[i] EXCEPT !.text = "closed"].action = h[i].action
                              /\ [h[i] EXCEPT !.text = "closed"].user = h[i].user
  BY Positions DEF Row
<1>2. Len(CloseLock(h, action, u)) = Len(h)
  BY CloseLockKeeps
<1>3. CASE open = {}
  BY <1>3 DEF CloseLock
<1>4. CASE open # {}
  <2>1. CloseLock(h, action, u) = g
    BY <1>4 DEF CloseLock
  <2> HIDE DEF keep, dupes
  <2>2. \A i \in 1..Len(h) : \/ g[i] = Deleted
                             \/ g[i].action = h[i].action /\ g[i].user = h[i].user
    BY <1>1
  <2> HIDE DEF g
  <2> QED BY <1>2, <2>1, <2>2 DEF Signed, Deleted
<1> QED BY <1>3, <1>4

\* Expiring rows.
LEMMA SignedExpire ==
  ASSUME NEW h \in Seq(Row), Signed(h), NEW k PROVE Signed(ExpireRows(h, k))
<1>1. Len(ExpireRows(h, k)) = Len(h) /\ DOMAIN h = 1..Len(h)
  BY ExpireRowsKeeps, Positions
<1>2. \A i \in 1..Len(h) : \/ ExpireRows(h, k)[i] = h[i]
                           \/ i \in OpenLockRows(h) /\ ExpireRows(h, k)[i].user = h[i].user
  BY <1>1 DEF ExpireRows
<1>3. \A i \in OpenLockRows(h) : h[i].action # "DELETED"
  BY DEF OpenLockRows, RowsOf, LockedStatus, ExtendActions
<1> QED BY <1>1, <1>2, <1>3 DEF Signed

\* A task that has changed status has a last action, by a user (undo_mapping
\* takes the counters back from that user).
LEMMA LastActionSigned ==
  ASSUME NEW h \in Seq(Row), Signed(h), GetLastStatus(h) # "READY"
  PROVE  GetLastAction(h).user \in Users
<1>1. RowsOf(h, TaskAction) # {}
  BY DEF GetLastStatus, Changes, RowsOf, TaskAction
<1>2. LET i == Max(RowsOf(h, TaskAction)) IN i \in 1..Len(h) /\ h[i].action \in TaskAction
  BY <1>1, NewestRow
<1>3. "DELETED" \notin TaskAction
  BY DEF TaskAction, LockedStatus, ExtendActions, AutoActions
<1> QED BY <1>2, <1>3 DEF Signed, GetLastAction

\* Other rows about locks and comments, the columns as they were.
LEMMA OtherRows ==
  ASSUME NEW task, Consistent(task), NEW g, KeepsChanges(task.history, g), Signed(g)
  PROVE  LET new == [task EXCEPT !.history = g]
         IN  /\ Consistent(new)
             /\ new.history = g
             /\ ColumnsOf(new) = ColumnsOf(task)
             /\ GetLastStatus(g) = GetLastStatus(task.history)
             /\ new.invalidations = task.invalidations
<1> DEFINE new == [task EXCEPT !.history = g]
<1>1. task \in TaskRecord /\ g \in Seq(Row)
  BY DEF Consistent, GoodTask, KeepsChanges
<1>2. /\ new \in TaskRecord /\ new.history = g
      /\ new.status = task.status /\ new.locked_by = task.locked_by
      /\ new.mapped_by = task.mapped_by /\ new.validated_by = task.validated_by
      /\ new.invalidations = task.invalidations
  BY <1>1 DEF TaskRecord
<1> HIDE DEF new
<1>3. GoodTask(new) /\ GetLastStatus(g) = GetLastStatus(task.history)
  BY <1>2, NewHistory DEF Consistent
<1> QED BY <1>2, <1>3 DEF Consistent, Settled, IsLocked, ColumnsOf, new

\* lock_task_for_mapping and lock_task_for_validating.
LEMMA LockConsistent ==
  ASSUME NEW task, Consistent(task), NEW status \in LockedStatus, NEW u \in Users,
         status = "LOCKED_FOR_VALIDATION" => UserCanValidateTask(u, task.mapped_by)
  PROVE  Consistent(LockTask(task, status, u))
<1> DEFINE new == LockTask(task, status, u)
<1>1. GoodTask(new)
  BY LockTaskGood DEF Consistent, UserOrNone
<1>2. /\ new.history = Append(task.history, LockRow(status, u))
      /\ new.status = status /\ new.locked_by = u /\ new.mapped_by = task.mapped_by
  BY DEF LockTask, Consistent, GoodTask, TaskRecord
<1>3. LockRow(status, u) \in Row /\ LockRow(status, u).user \in Users
  BY RowTypes DEF LockRow, TaskAction, UserOrNone
<1>4. Signed(new.history)
  BY <1>2, <1>3, SignedAppend DEF Consistent, GoodTask, WellFormed
<1> HIDE DEF new
<1> QED BY <1>1, <1>2, <1>4, NoUserAssumption DEF Consistent, Settled, IsLocked, new

\* Task.clear_lock.
LEMMA ClearConsistent ==
  ASSUME NEW task, Consistent(task) PROVE Consistent(ClearLock(task)) /\ ClearLock(task).locked_by = NoUser
<1>1. /\ GoodTask(ClearLock(task)) /\ ClearLock(task).locked_by = NoUser
      /\ ClearLock(task).history = task.history
      /\ ClearLock(task).status = GetLastStatus(task.history)
      /\ GetLastStatus(task.history) \in UnlockedStatus
  BY LastStatusType DEF Consistent, ClearLock, GoodTask, TaskRecord, UserOrNone, UnlockedStatus
<1> QED BY <1>1 DEF Consistent, Settled, IsLocked, UnlockedStatus, LockedStatus

\* Task.unlock_task.
LEMMA UnlockConsistent ==
  ASSUME NEW task, Consistent(task), NEW u \in Users, NEW new \in UnlockedStatus,
         NEW comment, NEW undo \in BOOLEAN, IsLocked(task) \/ undo
  PROVE  LET set == UnlockTask(task, u, new, comment, undo)
         IN  AtRest(set, new) /\ Consistent(set)
<1> DEFINE set == UnlockTask(task, u, new, comment, undo)
           noted == Commented(task, u, comment).history
           changed == Append(noted, StateChangeRow(new, u))
<1>1. AtRest(set, new)
  BY UnlockTaskGood DEF Consistent, UserOrNone
<1>2. /\ CommentRow(u) \in Row /\ CommentRow(u).user \in Users
      /\ StateChangeRow(new, u) \in Row /\ StateChangeRow(new, u).user \in Users
  BY RowTypes DEF CommentRow, StateChangeRow, UserOrNone, UnlockedStatus
<1>3. task.history \in Seq(Row) /\ Signed(task.history)
  BY DEF Consistent, GoodTask, WellFormed
<1>4. noted \in {task.history, Append(task.history, CommentRow(u))}
  BY DEF Commented, Consistent, GoodTask, TaskRecord
<1>5. Append(task.history, CommentRow(u)) \in Seq(Row) /\ Signed(Append(task.history, CommentRow(u)))
  BY <1>2, <1>3, SignedAppend, Appended
<1>6. noted \in Seq(Row) /\ Signed(noted)
  BY <1>3, <1>4, <1>5
<1> HIDE DEF noted
<1>7. changed \in Seq(Row) /\ Signed(changed)
  BY <1>2, <1>6, SignedAppend, Appended
<1> HIDE DEF changed
<1>8. set.history = IF undo THEN changed ELSE CloseLock(changed, task.status, u)
  BY DEF UnlockTask, changed, noted
<1>9. Signed(set.history)
  <2>1. ~undo => Signed(CloseLock(changed, task.status, u))
    BY <1>7, SignedClose DEF IsLocked
  <2> QED BY <1>7, <1>8, <2>1
<1> HIDE DEF set
<1>10. Consistent(set)
  BY <1>1, <1>9 DEF AtRest, Consistent, Settled, IsLocked, LockedStatus
<1> QED BY <1>1, <1>10 DEF set
----------------------------------------------------------------------------
(* Steps.                                                                  *)

\* The one worker's step that commits something about one task.
LEMMA CommitStep ==
  ASSUME OneWorker, StepsGood, NEW w \in Workers, NEW t \in Tasks, NEW new, NEW r,
         tasks' = [tasks EXCEPT ![t] = new],
         request' = [request EXCEPT ![w] = r],
         project' \in [Counted -> Int], tally' \in [Users -> [Tallied -> Int]],
         UNCHANGED crashes,
         Consistent(new), HolderStays(tasks[t], new),
         r = Idle \/ (r.task = t /\ Current(r, new))
  PROVE  GoodStep
<1>1. /\ tasks' \in [Tasks -> TaskRecord]
      /\ \A x \in Tasks : tasks'[x] = IF x = t THEN new ELSE tasks[x]
  BY DEF StepsGood, TypeOK, Consistent, GoodTask
<1>2. r \in {Idle} \cup Request
  BY DEF Current
<1>3. /\ request' \in [Workers -> {Idle} \cup Request]
      /\ \A v \in Workers : request'[v] = r
  BY <1>2 DEF StepsGood, OneWorker
<1>4. \A x \in Tasks : Consistent(tasks'[x]) /\ HolderStays(tasks[x], tasks'[x])
  BY <1>1 DEF StepsGood, HolderStays
<1>5. \A v \in Workers : request'[v] # Idle => Current(request'[v], tasks'[request'[v].task])
  BY <1>1, <1>3
<1>6. TypeOK'
  BY <1>1 DEF TypeOK
<1>7. crashes' \in 0..MaxCrashes
  BY DEF StepsGood
<1> QED BY <1>3, <1>4, <1>5, <1>6, <1>7 DEF StepsGood, GoodStep

\* A step of the worker that commits nothing.
LEMMA ReadStep ==
  ASSUME OneWorker, StepsGood, NEW w \in Workers, NEW r,
         request' = [request EXCEPT ![w] = r],
         UNCHANGED <<tasks, project, tally>>, crashes' \in 0..MaxCrashes,
         r = Idle \/ Current(r, tasks[r.task])
  PROVE  GoodStep
<1>1. r \in {Idle} \cup Request
  BY DEF Current
<1>2. /\ request' \in [Workers -> {Idle} \cup Request]
      /\ \A v \in Workers : request'[v] = r
  BY <1>1 DEF StepsGood, OneWorker
<1>3. TypeOK' /\ \A x \in Tasks : Consistent(tasks'[x]) /\ HolderStays(tasks[x], tasks'[x])
  BY DEF StepsGood, TypeOK, HolderStays
<1>4. \A v \in Workers : request'[v] # Idle => Current(request'[v], tasks'[request'[v].task])
  BY <1>2
<1> QED BY <1>2, <1>3, <1>4 DEF StepsGood, GoodStep

\* A request as it is made.
Made(op, u, t, pc, new, cut) ==
  [op |-> op, user |-> u, task |-> t, new |-> new, cut |-> cut,
   seen |-> Columns(t), counts |-> NoCounts, pc |-> pc]

LEMMA RequestMade ==
  ASSUME NEW op, NEW u, NEW t, NEW pc PROVE NewRequest(op, u, t, pc) = Made(op, u, t, pc, "none", 0)
BY DEF NewRequest, Made

LEMMA UnlockMade ==
  ASSUME NEW u, NEW t, NEW pc, NEW new PROVE Unlock(u, t, new, pc) = Made("unlock", u, t, pc, new, 0)
BY DEF NewRequest, Made, Unlock

LEMMA UndoMade ==
  ASSUME NEW u, NEW t, NEW new
  PROVE  [NewRequest("undo", u, t, "count") EXCEPT !.new = new] = Made("undo", u, t, "count", new, 0)
BY DEF NewRequest, Made

LEMMA SweepMade ==
  ASSUME NEW t, NEW k
  PROVE  [NewRequest("sweep", NoUser, t, "expire") EXCEPT !.cut = k] = Made("sweep", NoUser, t, "expire", "none", k)
BY DEF NewRequest, Made

\* The worker starts a request.
LEMMA StartStep ==
  ASSUME OneWorker, StepsGood, NEW w \in Workers, NEW u \in Users, NEW t \in Tasks, Read(w, u, t),
         UNCHANGED crashes
  PROVE  GoodStep
<1> DEFINE task == tasks[t]
           Req(op, pc, new) == Made(op, u, t, pc, new, 0)
<1>1. /\ TypeOK /\ u \in UserOrNone /\ Consistent(task) /\ crashes' \in 0..MaxCrashes
      /\ task \in TaskRecord
  BY DEF StepsGood, UserOrNone, TypeOK
<1>2. ASSUME NEW op \in {"lock_mapping", "lock_validation", "unlock", "undo", "stop", "extend"},
             NEW pc \in {"permit", "lock", "notify", "count", "close"},
             NEW new \in TaskStatus \cup {"none"},
             \A r : /\ r.op = op /\ r.user = u /\ r.task = t /\ r.pc = pc /\ r.new = new
                    => Found(r, task),
             Start(w, Req(op, pc, new))
      PROVE  GoodStep
  <2>1. /\ Req(op, pc, new) \in Request
        /\ Req(op, pc, new).op = op /\ Req(op, pc, new).user = u /\ Req(op, pc, new).task = t
        /\ Req(op, pc, new).pc = pc /\ Req(op, pc, new).new = new
        /\ Req(op, pc, new).seen = ColumnsOf(task)
    <3>1. /\ op \in {"lock_mapping", "lock_validation", "unlock", "undo", "stop", "extend", "sweep"}
          /\ pc \in {"permit", "lock", "notify", "count", "close", "expire"}
          /\ 0 \in Nat
      BY <1>2
    <3> QED BY <1>1, <3>1 DEF Made, Request, Columns, ColumnsOf, TaskRecord
  <2>2. request' = [request EXCEPT ![w] = Req(op, pc, new)] /\ UNCHANGED <<tasks, project, tally>>
    BY <1>2 DEF Start
  <2> HIDE DEF Req
  <2>3. Current(Req(op, pc, new), tasks[Req(op, pc, new).task])
    BY <1>2, <2>1 DEF Current
  <2> QED BY <1>1, <2>2, <2>3, ReadStep
<1>3. \A op, pc : NewRequest(op, u, t, pc) = Req(op, pc, "none")
  BY RequestMade
<1> HIDE DEF Req
<1>5. CASE ReadForMapping(w, u, t)
  <2>1. \A r, pc : r.op = "lock_mapping" /\ r.user = u /\ r.pc \in {"permit", "lock"} => Found(r, task)
    BY <1>5 DEF ReadForMapping, Found, Start
  <2>2. \E pc \in {"permit", "lock"} : Start(w, Req("lock_mapping", pc, "none"))
    BY <1>3, <1>5 DEF ReadForMapping
  <2> QED BY <1>2, <2>1, <2>2
<1>6. CASE ReadForValidation(w, u, t)
  <2>1. \A r, pc : r.op = "lock_validation" /\ r.user = u /\ r.pc = "permit" => Found(r, task)
    BY <1>6 DEF ReadForValidation, Found, IsLocked, LockedStatus
  <2>2. Start(w, Req("lock_validation", "permit", "none"))
    BY <1>3, <1>6 DEF ReadForValidation
  <2> QED BY <1>2, <2>1, <2>2
<1>7. ASSUME NEW new \in TaskStatus, ReadToUnlock(w, u, t, new) PROVE GoodStep
  <2>1. IsLocked(task) /\ task.locked_by = u /\ new \in UnlockedStatus
    BY <1>7 DEF ReadToUnlock, LockedForMappingBy, LockedForValidationBy, IsLocked, UnlockedStatus, LockedStatus
  <2>2. \A r : r.op = "unlock" /\ r.user = u /\ r.pc \in {"notify", "count"} /\ r.new = new => Found(r, task)
    BY <2>1 DEF Found
  <2>3. \E pc \in {"notify", "count"} : Start(w, Req("unlock", pc, new))
    BY <1>7, UnlockMade DEF ReadToUnlock, Req
  <2> QED BY <1>2, <2>2, <2>3
<1>8. CASE ReadToUndo(w, u, t)
  <2> DEFINE new == GetUndoStatus(task.history)
  <2>1. ~IsLocked(task) /\ task.status # "READY" /\ Start(w, Req("undo", "count", new))
    <3>1. ~IsLocked(task) /\ task.status # "READY"
      BY <1>8 DEF ReadToUndo, IsTaskUndoable, IsLocked
    <3>2. Start(w, [NewRequest("undo", u, t, "count") EXCEPT !.new = new])
      BY <1>8 DEF ReadToUndo
    <3>3. [NewRequest("undo", u, t, "count") EXCEPT !.new = new] = Req("undo", "count", new)
      BY UndoMade DEF Req
    <3> QED BY <3>1, <3>2, <3>3, Zenon
  <2>2. new \in TaskStatus
    BY <1>1, UndoStatusType DEF Consistent, GoodTask, UnlockedStatus
  <2>3. \A r : r.op = "undo" /\ r.pc = "count" /\ r.new = new => Found(r, task)
    BY <2>1 DEF Found
  <2> HIDE DEF new
  <2> QED BY <1>2, <2>1, <2>2, <2>3
<1>9. CASE ReadToStop(w, u, t)
  <2>1. IsLocked(task) /\ Start(w, Req("stop", "close", "none"))
    BY <1>3, <1>9 DEF ReadToStop, LockedForMappingBy, LockedForValidationBy, IsLocked, LockedStatus
  <2>2. \A r : r.op = "stop" /\ r.pc = "close" => Found(r, task)
    BY <2>1 DEF Found
  <2> QED BY <1>2, <2>1, <2>2
<1>10. CASE ReadToExtend(w, u, t)
  <2>1. IsLocked(task) /\ Start(w, Req("extend", "close", "none"))
    BY <1>3, <1>10 DEF ReadToExtend
  <2>2. \A r : r.op = "extend" /\ r.pc = "close" => Found(r, task)
    BY <2>1 DEF Found
  <2> QED BY <1>2, <2>1, <2>2
<1> QED BY <1>5, <1>6, <1>7, <1>8, <1>9, <1>10 DEF Read
\* find_tasks_with_expired_locks.
LEMMA FindExpiredStep ==
  ASSUME OneWorker, StepsGood, NEW w \in Workers, NEW t \in Tasks,
         NEW k \in DOMAIN tasks[t].history, FindExpired(w, t, k), UNCHANGED crashes
  PROVE  GoodStep
<1> DEFINE r == Made("sweep", NoUser, t, "expire", "none", k)
<1>1. /\ TypeOK /\ Consistent(tasks[t]) /\ crashes' \in 0..MaxCrashes /\ tasks[t] \in TaskRecord
      /\ k \in Nat
  <2>1. /\ TypeOK /\ Consistent(tasks[t]) /\ crashes' \in 0..MaxCrashes /\ tasks[t] \in TaskRecord
        /\ tasks[t].history \in Seq(Row)
    BY DEF StepsGood, TypeOK, Consistent, GoodTask, WellFormed
  <2> QED BY <2>1, Positions
<1>2. /\ IsLocked(tasks[t]) /\ UNCHANGED <<tasks, project, tally>>
      /\ request' = [request EXCEPT ![w] = r]
  BY SweepMade DEF FindExpired, Start
<1>3. /\ r \in Request /\ r.op = "sweep" /\ r.pc = "expire" /\ r.task = t
      /\ r.seen = ColumnsOf(tasks[t])
  BY <1>1 DEF Made, Request, Columns, ColumnsOf, TaskRecord, UserOrNone
<1> HIDE DEF r
<1>4. Current(r, tasks[r.task])
  BY <1>2, <1>3 DEF Current, Found
<1> QED BY <1>1, <1>2, <1>4, ReadStep

\* What a worker under way knows.
LEMMA Busy ==
  ASSUME StepsGood, NEW w \in Workers, NEW pc, At(w, pc)
  PROVE  LET r == request[w]
             task == tasks[r.task]
         IN  /\ r \in Request /\ r.task \in Tasks /\ r.pc = pc
             /\ Current(r, task) /\ Consistent(task) /\ task \in TaskRecord
             /\ task.history \in Seq(Row) /\ Signed(task.history)
             /\ crashes \in 0..MaxCrashes
             /\ project \in [Counted -> Int] /\ tally \in [Users -> [Tallied -> Int]]
<1>1. request[w] \in Request /\ request[w].pc = pc /\ Current(request[w], tasks[request[w].task])
  BY DEF StepsGood, At
<1>2. request[w].task \in Tasks
  BY <1>1 DEF Request
<1> QED BY <1>1, <1>2 DEF StepsGood, TypeOK, Consistent, GoodTask, WellFormed

\* A request that goes on.
LEMMA Moved ==
  ASSUME NEW r \in Request,
         NEW pc \in {"permit", "lock", "notify", "count", "rows", "finish",
                     "close", "extend", "expire", "load", "clear"}
  PROVE  LET s == [r EXCEPT !.pc = pc]
         IN  /\ s \in Request /\ s.op = r.op /\ s.user = r.user /\ s.task = r.task
             /\ s.new = r.new /\ s.cut = r.cut /\ s.seen = r.seen /\ s.counts = r.counts
             /\ s.pc = pc
BY DEF Request

LEMMA Reloaded ==
  ASSUME NEW r \in Request, NEW task \in TaskRecord, NEW pc \in {"count", "clear"}
  PROVE  LET s == [r EXCEPT !.seen = ColumnsOf(task), !.pc = pc]
         IN  /\ s \in Request /\ s.op = r.op /\ s.user = r.user /\ s.task = r.task
             /\ s.new = r.new /\ s.cut = r.cut /\ s.seen = ColumnsOf(task) /\ s.counts = r.counts
             /\ s.pc = pc
<1> DEFINE columns == ColumnsOf(task)
           s == [r EXCEPT !.seen = columns, !.pc = pc]
<1>1. columns \in [status: TaskStatus, locked_by: UserOrNone, mapped_by: UserOrNone,
                   validated_by: UserOrNone]
  BY DEF ColumnsOf, TaskRecord
<1> HIDE DEF columns
<1>2. /\ s \in Request /\ s.op = r.op /\ s.user = r.user /\ s.task = r.task
      /\ s.new = r.new /\ s.cut = r.cut /\ s.seen = columns /\ s.counts = r.counts
      /\ s.pc = pc
  BY <1>1 DEF Request
<1> QED BY <1>2 DEF columns

\* is_user_permitted_to_map, is_user_permitted_to_validate.
LEMMA PermitStep ==
  ASSUME OneWorker, StepsGood, NEW w \in Workers, Permit(w), UNCHANGED crashes
  PROVE  GoodStep
<1> DEFINE r == request[w]
           s == [r EXCEPT !.pc = "lock"]
<1>1. r \in Request /\ r.pc = "permit" /\ Current(r, tasks[r.task]) /\ crashes' \in 0..MaxCrashes
  BY Busy DEF Permit
<1>2. /\ s \in Request /\ s.op = r.op /\ s.user = r.user /\ s.task = r.task
      /\ s.new = r.new /\ s.seen = r.seen /\ s.pc = "lock"
  BY <1>1, Moved
<1>3. /\ \/ request' = [request EXCEPT ![w] = s]
         \/ request' = [request EXCEPT ![w] = Idle]
      /\ UNCHANGED <<tasks, project, tally>>
  BY DEF Permit, GoTo, End
<1> HIDE DEF r, s
<1>4. Current(s, tasks[s.task])
  BY <1>1, <1>2 DEF Current, Found
<1>5. CASE request' = [request EXCEPT ![w] = s]
  BY <1>1, <1>3, <1>4, <1>5, ReadStep
<1>6. CASE request' = [request EXCEPT ![w] = Idle]
  BY <1>1, <1>3, <1>6, ReadStep
<1> QED BY <1>3, <1>5, <1>6

\* A column that is written as it was loaded, or as it is set.
LEMMA WrittenBack == ASSUME NEW x, NEW set PROVE Written(x, x, set) = set
BY DEF Written

\* The lock a request takes is the one lock_task_for_mapping or
\* lock_task_for_validating gives.
LockWritten(task, seen, status, u) ==
  [task EXCEPT !.history = Append(@, LockRow(status, u)),
               !.status = Written(@, seen.status, status),
               !.locked_by = Written(@, seen.locked_by, u)]

LEMMA LockWrites ==
  ASSUME NEW task \in TaskRecord, NEW seen, seen.status = task.status, seen.locked_by = task.locked_by,
         NEW status, NEW u
  PROVE  LockWritten(task, seen, status, u) = LockTask(task, status, u)
BY WrittenBack DEF LockTask, LockWritten, TaskRecord

LEMMA LockResult ==
  ASSUME StepsGood, NEW w \in Workers, Lock(w)
  PROVE  LET r == request[w]
             t == r.task
         IN  /\ tasks' = [tasks EXCEPT ![t] = LockTask(tasks[t], LockStatus(r.op), r.user)]
             /\ request' = [request EXCEPT ![w] = Idle]
             /\ UNCHANGED <<project, tally>>
<1> DEFINE r == request[w]
           t == r.task
           task == tasks[t]
           status == LockStatus(r.op)
           new == LockTask(task, status, r.user)
<1>1. r.pc = "lock" /\ Current(r, task) /\ task \in TaskRecord
  BY Busy DEF Lock
<1>2. r.seen.status = task.status /\ r.seen.locked_by = task.locked_by
  BY <1>1 DEF Current, Found, ColumnsOf
<1>3. /\ tasks' = [tasks EXCEPT ![t] = LockWritten(task, r.seen, status, r.user)]
      /\ request' = [request EXCEPT ![w] = Idle]
      /\ UNCHANGED <<project, tally>>
  BY DEF Lock, End, LockWritten
<1> HIDE DEF r, t, task, status
<1>4. LockWritten(task, r.seen, status, r.user) = new
  BY <1>1, <1>2, LockWrites
<1> QED BY <1>3, <1>4 DEF r, t, task, status

LEMMA LockStep ==
  ASSUME OneWorker, StepsGood, NEW w \in Workers, Lock(w), UNCHANGED crashes
  PROVE  GoodStep
<1> DEFINE r == request[w]
           t == r.task
           task == tasks[t]
           status == LockStatus(r.op)
           new == LockTask(task, status, r.user)
<1>1. /\ r \in Request /\ t \in Tasks /\ r.pc = "lock" /\ Current(r, task) /\ Consistent(task)
      /\ task \in TaskRecord
      /\ project \in [Counted -> Int] /\ tally \in [Users -> [Tallied -> Int]]
  BY Busy DEF Lock
<1>2. r.op \in {"lock_mapping", "lock_validation"} /\ r.user \in Users /\ r.seen = ColumnsOf(task)
  BY <1>1 DEF Current, Found
<1>4. /\ tasks' = [tasks EXCEPT ![t] = new]
      /\ request' = [request EXCEPT ![w] = Idle]
      /\ UNCHANGED <<project, tally>>
  BY LockResult
<1>5. Settled(task) /\ (task.status = "LOCKED_FOR_VALIDATION" => UserCanValidateTask(task.locked_by, task.mapped_by))
  BY <1>1 DEF Consistent
<1> HIDE DEF r, t, task
<1>6. status \in LockedStatus /\ (status = "LOCKED_FOR_VALIDATION" => UserCanValidateTask(r.user, task.mapped_by))
  BY <1>1, <1>2, <1>5 DEF LockStatus, LockedStatus, Current, Found
<1>7. HolderStays(task, new)
  <2>1. new.locked_by = r.user
    BY <1>1 DEF LockTask, TaskRecord
  <2>2. task.locked_by \in {NoUser, r.user}
    BY <1>1, <1>2, <1>5 DEF Current, Found, Settled, IsMappable, IsLocked, LockedStatus
  <2> QED BY <2>1, <2>2 DEF HolderStays
<1> HIDE DEF status
<1>8. Consistent(new)
  BY <1>1, <1>2, <1>6, LockConsistent
<1> HIDE DEF new
<1> QED BY <1>1, <1>4, <1>7, <1>8, CommitStep DEF task

\* The message to the mapper is committed.
LEMMA NotifyStep ==
  ASSUME OneWorker, StepsGood, NEW w \in Workers, Notify(w), UNCHANGED crashes
  PROVE  GoodStep
<1> DEFINE r == request[w]
           task == tasks[r.task]
           s == [r EXCEPT !.seen = ColumnsOf(task), !.pc = "count"]
<1>1. /\ r \in Request /\ r.pc = "notify" /\ Current(r, tasks[r.task]) /\ crashes' \in 0..MaxCrashes
      /\ tasks[r.task] \in TaskRecord
  BY Busy DEF Notify
<1>2. Columns(r.task) = ColumnsOf(tasks[r.task])
  BY DEF Columns, ColumnsOf
<1>3. /\ s \in Request /\ s.op = r.op /\ s.user = r.user /\ s.task = r.task
      /\ s.new = r.new /\ s.seen = ColumnsOf(tasks[r.task]) /\ s.pc = "count"
  BY <1>1, Reloaded
<1>4. /\ \/ request' = [request EXCEPT ![w] = s]
         \/ request' = [request EXCEPT ![w] = Idle]
      /\ UNCHANGED <<tasks, project, tally>>
  BY <1>2 DEF Notify, End
<1> HIDE DEF r, s
<1>5. Current(s, tasks[s.task])
  BY <1>1, <1>3 DEF Current, Found
<1>6. CASE request' = [request EXCEPT ![w] = s]
  BY <1>1, <1>4, <1>5, <1>6, ReadStep
<1>7. CASE request' = [request EXCEPT ![w] = Idle]
  BY <1>1, <1>4, <1>7, ReadStep
<1> QED BY <1>4, <1>6, <1>7
----------------------------------------------------------------------------
(* Unlocking and undoing: the counters, the rows and the columns.          *)

CountsRead ==
  [last: TaskStatus, project: [Counted -> Int], user: Users, credits: [Tallied -> Int]]

\* A request that has written the counters.
LEMMA Recounted ==
  ASSUME NEW r \in Request, NEW task \in TaskRecord
  PROVE  LET s == [r EXCEPT !.counts = NoCounts, !.seen = ColumnsOf(task)]
         IN  /\ s \in Request /\ s.op = r.op /\ s.user = r.user /\ s.task = r.task
             /\ s.new = r.new /\ s.cut = r.cut /\ s.seen = ColumnsOf(task) /\ s.counts = NoCounts
             /\ s.pc = r.pc
<1> DEFINE columns == ColumnsOf(task)
           s == [r EXCEPT !.counts = NoCounts, !.seen = columns]
<1>1. columns \in [status: TaskStatus, locked_by: UserOrNone, mapped_by: UserOrNone,
                   validated_by: UserOrNone]
  BY DEF ColumnsOf, TaskRecord
<1> HIDE DEF columns
<1>2. /\ s \in Request /\ s.op = r.op /\ s.user = r.user /\ s.task = r.task
      /\ s.new = r.new /\ s.cut = r.cut /\ s.seen = columns /\ s.counts = NoCounts
      /\ s.pc = r.pc
  BY <1>1 DEF Request
<1> QED BY <1>2 DEF columns

\* Whose counters an unlock or an undo changes is a user.
LEMMA CreditedUser ==
  ASSUME NEW task, Consistent(task), NEW r, Current(r, task), r.op \in {"unlock", "undo"}
  PROVE  (IF r.op = "undo" THEN GetLastAction(task.history).user ELSE r.user) \in Users
<1>1. CASE r.op = "undo"
  <2>1. GetLastStatus(task.history) # "READY"
    BY <1>1 DEF Current, Found, Consistent, Settled
  <2> QED BY <1>1, <2>1, LastActionSigned DEF Consistent, GoodTask, WellFormed
<1>2. CASE r.op # "undo"
  BY <1>2 DEF Current
<1> QED BY <1>1, <1>2

LEMMA CountStep ==
  ASSUME OneWorker, StepsGood, NEW w \in Workers, Count(w), UNCHANGED crashes
  PROVE  GoodStep
<1> DEFINE r == request[w]
           task == tasks[r.task]
           h == task.history
           undo == r.op = "undo"
           credited == IF undo THEN GetLastAction(h).user ELSE r.user
           c == [last |-> IF undo THEN r.seen.status ELSE GetLastStatus(h),
                 project |-> project, user |-> credited, credits |-> tally[credited]]
           s == [r EXCEPT !.counts = c, !.pc = "rows"]
<1>1. /\ r \in Request /\ r.pc = "count" /\ Current(r, task) /\ crashes' \in 0..MaxCrashes
      /\ Consistent(task) /\ task \in TaskRecord
      /\ project \in [Counted -> Int] /\ tally \in [Users -> [Tallied -> Int]]
  BY Busy DEF Count
<1>2. request' = [request EXCEPT ![w] = s] /\ UNCHANGED <<tasks, project, tally>>
  BY DEF Count
<1> HIDE DEF r, task
<1>3. r.op \in {"unlock", "undo"}
  BY <1>1 DEF Current, Found
<1>4. credited \in Users
  BY <1>1, <1>3, CreditedUser
<1>5. r.seen.status \in TaskStatus /\ GetLastStatus(h) \in TaskStatus
  BY <1>1, LastStatusType DEF Request, Consistent, GoodTask, UnlockedStatus
<1> HIDE DEF credited, h
<1>6. c \in CountsRead \cup {NoCounts}
  BY <1>1, <1>4, <1>5 DEF CountsRead
<1> HIDE DEF c
<1>7. /\ s \in Request /\ s.op = r.op /\ s.user = r.user /\ s.task = r.task
      /\ s.new = r.new /\ s.seen = r.seen /\ s.pc = "rows"
  BY <1>1, <1>6 DEF Request, CountsRead
<1> HIDE DEF s
<1>8. Current(s, tasks[s.task])
  BY <1>1, <1>3, <1>7 DEF Current, Found, task
<1> QED BY <1>1, <1>2, <1>8, ReadStep

\* The counters, if they are written back, are numbers.
LEMMA WriteCountsType ==
  ASSUME project \in [Counted -> Int], tally \in [Users -> [Tallied -> Int]],
         NEW r \in Request, WriteCounts(r)
  PROVE  project' \in [Counted -> Int] /\ tally' \in [Users -> [Tallied -> Int]]
<1> DEFINE c == r.counts
           action == IF r.op = "undo" THEN "undo" ELSE "change"
           set == Recount(c.project, c.last, r.new)
           credits == Credit(c.credits, c.last, r.new, action)
<1>1. CASE c = NoCounts
  BY <1>1 DEF WriteCounts
<1>2. CASE c # NoCounts
  <2>1. c \in CountsRead
    BY <1>2 DEF Request, CountsRead
  <2>2. set \in [Counted -> Int] /\ credits \in [Tallied -> Int]
    BY <2>1 DEF CountsRead, Recount, Credit, One
  <2>3. c.user \in Users
    BY <2>1 DEF CountsRead
  <2>4. /\ project' = [s \in Counted |-> Written(project[s], c.project[s], set[s])]
        /\ tally' = [tally EXCEPT ![c.user] =
             [s \in Tallied |-> Written(@[s], c.credits[s], credits[s])]]
    BY <1>2 DEF WriteCounts
  <2> HIDE DEF set, credits, c
  <2>5. project' \in [Counted -> Int]
    BY <2>2, <2>4 DEF Written
  <2>6. [s \in Tallied |-> Written(tally[c.user][s], c.credits[s], credits[s])] \in [Tallied -> Int]
    BY <2>2, <2>3 DEF Written
  <2> QED BY <2>3, <2>4, <2>5, <2>6
<1> QED BY <1>1, <1>2

LEMMA CommitCountsStep ==
  ASSUME OneWorker, StepsGood, NEW w \in Workers, CommitCounts(w), UNCHANGED crashes
  PROVE  GoodStep
<1> DEFINE r == request[w]
           t == r.task
           task == tasks[t]
           s == [r EXCEPT !.counts = NoCounts, !.seen = ColumnsOf(task)]
<1>1. /\ r \in Request /\ r.pc = "rows" /\ Current(r, task) /\ t \in Tasks
      /\ Consistent(task) /\ task \in TaskRecord
      /\ project \in [Counted -> Int] /\ tally \in [Users -> [Tallied -> Int]]
  BY Busy DEF CommitCounts
<1>2. request' = [request EXCEPT ![w] = s] /\ WriteCounts(r) /\ tasks' = tasks
  BY DEF CommitCounts, Columns, ColumnsOf
<1>3. /\ s \in Request /\ s.op = r.op /\ s.user = r.user /\ s.task = t
      /\ s.new = r.new /\ s.seen = ColumnsOf(task) /\ s.pc = "rows"
  BY <1>1, Recounted
<1>4. tasks' = [tasks EXCEPT ![t] = task]
  BY <1>2 DEF StepsGood, TypeOK
<1> HIDE DEF r
<1>5. project' \in [Counted -> Int] /\ tally' \in [Users -> [Tallied -> Int]]
  BY <1>1, <1>2, WriteCountsType
<1> HIDE DEF s, t, task
<1>6. Current(s, task)
  BY <1>1, <1>3 DEF Current, Found
<1>7. HolderStays(tasks[t], task)
  BY DEF HolderStays, task
<1> QED BY <1>1, <1>2, <1>3, <1>4, <1>5, <1>6, <1>7, CommitStep

\* The task as the session sees it: the columns as loaded, the rows as they are.
Loaded(task, seen) == [c \in DOMAIN task |-> IF c \in DOMAIN seen THEN seen[c] ELSE task[c]]

LEMMA LoadedTask == ASSUME NEW task \in TaskRecord PROVE Loaded(task, ColumnsOf(task)) = task
<1>1. task = [c \in DOMAIN task |-> task[c]]
  BY DEF TaskRecord
<1>2. DOMAIN task = {"status", "locked_by", "mapped_by", "validated_by", "history", "invalidations"}
  BY DEF TaskRecord
<1>3. \A c \in DOMAIN ColumnsOf(task) : ColumnsOf(task)[c] = task[c]
  BY DEF ColumnsOf
<1> QED BY <1>1, <1>3 DEF Loaded

\* What the last commit but one of unlock_task writes, and what its last.
RowsWritten(task, seen, set) ==
  [task EXCEPT !.history = set.history, !.invalidations = set.invalidations,
               !.mapped_by = Written(@, seen.mapped_by, set.mapped_by),
               !.validated_by = Written(@, seen.validated_by, set.validated_by)]

AllWritten(rows, seen, new) ==
  [rows EXCEPT !.status = Written(@, seen.status, new),
               !.locked_by = Written(@, seen.locked_by, NoUser)]

\* The task with everything but its status and its holder.
StillHeld(task, set) == [set EXCEPT !.status = task.status, !.locked_by = task.locked_by]

\* A task is its columns and rows.
LEMMA SameTask ==
  ASSUME NEW a \in TaskRecord, NEW b \in TaskRecord,
         a.status = b.status, a.locked_by = b.locked_by, a.mapped_by = b.mapped_by,
         a.validated_by = b.validated_by, a.history = b.history, a.invalidations = b.invalidations
  PROVE  a = b
BY DEF TaskRecord

LEMMA StillHeldType ==
  ASSUME NEW task \in TaskRecord, NEW set \in TaskRecord
  PROVE  LET held == StillHeld(task, set)
         IN  /\ held \in TaskRecord /\ held.status = task.status /\ held.locked_by = task.locked_by
             /\ held.mapped_by = set.mapped_by /\ held.validated_by = set.validated_by
             /\ held.history = set.history /\ held.invalidations = set.invalidations
BY DEF StillHeld, TaskRecord

LEMMA RowsWrites ==
  ASSUME NEW task \in TaskRecord, NEW set \in TaskRecord, NEW seen, seen = ColumnsOf(task)
  PROVE  /\ RowsWritten(task, seen, set) = StillHeld(task, set)
         /\ set.locked_by = NoUser => AllWritten(StillHeld(task, set), seen, set.status) = set
<1> DEFINE held == StillHeld(task, set)
<1>1. /\ seen.status = task.status /\ seen.locked_by = task.locked_by
      /\ seen.mapped_by = task.mapped_by /\ seen.validated_by = task.validated_by
  BY DEF ColumnsOf
<1>2. /\ held \in TaskRecord /\ held.status = task.status /\ held.locked_by = task.locked_by
      /\ held.mapped_by = set.mapped_by /\ held.validated_by = set.validated_by
      /\ held.history = set.history /\ held.invalidations = set.invalidations
  BY StillHeldType
<1>3. RowsWritten(task, seen, set) = StillHeld(task, set)
  <2> DEFINE m == Written(task.mapped_by, seen.mapped_by, set.mapped_by)
             v == Written(task.validated_by, seen.validated_by, set.validated_by)
             a == [task EXCEPT !.history = set.history, !.invalidations = set.invalidations,
                               !.mapped_by = m, !.validated_by = v]
  <2>1. m = set.mapped_by /\ v = set.validated_by
    BY <1>1, WrittenBack
  <2>2. RowsWritten(task, seen, set) = a
    BY DEF RowsWritten
  <2>3. /\ set.mapped_by \in UserOrNone /\ set.validated_by \in UserOrNone
        /\ set.history \in Seq(Row) /\ set.invalidations \in Seq(InvalidationEntry)
    BY DEF TaskRecord
  <2> HIDE DEF m, v
  <2>4. /\ a \in TaskRecord /\ a.status = task.status /\ a.locked_by = task.locked_by
        /\ a.mapped_by = m /\ a.validated_by = v
        /\ a.history = set.history /\ a.invalidations = set.invalidations
    BY <2>1, <2>3 DEF TaskRecord
  <2> HIDE DEF a
  <2>5. a = held
    BY <1>2, <2>1, <2>4, SameTask
  <2> QED BY <2>2, <2>5
<1>4. ASSUME set.locked_by = NoUser PROVE AllWritten(StillHeld(task, set), seen, set.status) = set
  <2> DEFINE s == Written(held.status, seen.status, set.status)
             l == Written(held.locked_by, seen.locked_by, NoUser)
             a == [held EXCEPT !.status = s, !.locked_by = l]
  <2>1. s = set.status /\ l = set.locked_by
    BY <1>1, <1>2, <1>4, WrittenBack
  <2>2. AllWritten(held, seen, set.status) = a
    BY DEF AllWritten
  <2>3. set.status \in TaskStatus /\ set.locked_by \in UserOrNone
    BY DEF TaskRecord
  <2> HIDE DEF s, l, held
  <2>4. /\ a \in TaskRecord /\ a.status = s /\ a.locked_by = l
        /\ a.mapped_by = held.mapped_by /\ a.validated_by = held.validated_by
        /\ a.history = held.history /\ a.invalidations = held.invalidations
    BY <1>2, <2>1, <2>3 DEF TaskRecord
  <2> HIDE DEF a
  <2>5. a = set
    BY <1>2, <2>1, <2>4, SameTask
  <2> QED BY <2>2, <2>5 DEF held
<1> QED BY <1>3, <1>4
\* unlock_task with the columns its session loaded is Task.unlock_task, but for
\* the status and the holder if a row is closed.
LEMMA RowsResult ==
  ASSUME StepsGood, NEW w \in Workers, Rows(w)
  PROVE  LET r == request[w]
             t == r.task
             undo == r.op = "undo"
             set == UnlockTask(tasks[t], r.user, r.new, undo, undo)
         IN  /\ t \in Tasks /\ r.op \in {"unlock", "undo"}
             /\ AtRest(set, r.new) /\ Consistent(set)
             /\ WriteCounts(r)
             /\ IF HasRow(r)
                THEN /\ r.op = "unlock"
                     /\ tasks' = [tasks EXCEPT ![t] = StillHeld(tasks[t], set)]
                     /\ request' = [request EXCEPT ![w] = [r EXCEPT !.counts = NoCounts, !.pc = "finish"]]
                ELSE /\ tasks' = [tasks EXCEPT ![t] = set]
                     /\ request' = [request EXCEPT ![w] = Idle]
<1> DEFINE r == request[w]
           t == r.task
           task == tasks[t]
           undo == r.op = "undo"
           set == UnlockTask(task, r.user, r.new, undo, undo)
           loaded == Loaded(task, r.seen)
           rows == RowsWritten(task, r.seen, UnlockTask(loaded, r.user, r.new, undo, undo))
<1>1. /\ r \in Request /\ t \in Tasks /\ r.pc = "rows" /\ Current(r, task) /\ Consistent(task)
      /\ task \in TaskRecord
  BY Busy DEF Rows
<1>2. /\ WriteCounts(r)
      /\ IF HasRow(r)
         THEN /\ tasks' = [tasks EXCEPT ![t] = rows]
              /\ request' = [request EXCEPT ![w] = [r EXCEPT !.counts = NoCounts, !.pc = "finish"]]
         ELSE /\ tasks' = [tasks EXCEPT ![t] = AllWritten(rows, r.seen, r.new)]
              /\ request' = [request EXCEPT ![w] = Idle]
  BY DEF Rows, End, RowsWritten, AllWritten, Loaded
<1>3. HasRow(r) => r.op = "unlock"
  BY DEF HasRow
<1> HIDE DEF r, t, task
<1>4. /\ r.op \in {"unlock", "undo"} /\ r.user \in Users /\ r.seen = ColumnsOf(task)
      /\ (IsLocked(task) \/ undo)
  BY <1>1 DEF Current, Found
<1>5. r.new \in UnlockedStatus
  BY <1>1, UndoStatusType DEF Current, Found, Consistent, GoodTask
<1>6. loaded = task
  BY <1>1, <1>4, LoadedTask
<1>7. undo \in BOOLEAN
  OBVIOUS
<1>8. AtRest(set, r.new) /\ Consistent(set)
  <2> HIDE DEF undo
  <2> QED BY <1>1, <1>4, <1>5, <1>7, UnlockConsistent
<1>9. set \in TaskRecord /\ set.locked_by = NoUser /\ set.status = r.new
  BY <1>8 DEF AtRest, GoodTask
<1>10. rows = RowsWritten(task, r.seen, set)
  BY <1>6
<1> HIDE DEF set, rows
<1>11. rows = StillHeld(task, set) /\ AllWritten(rows, r.seen, r.new) = set
  BY <1>1, <1>4, <1>9, <1>10, RowsWrites
<1> QED BY <1>1, <1>2, <1>3, <1>4, <1>8, <1>11 DEF r, t, task, set

\* A task whose rows are written, and whose lock is not yet taken off.
LEMMA StillHeldConsistent ==
  ASSUME NEW task, Consistent(task), IsLocked(task), NEW set, AtRest(set, GetLastStatus(set.history)),
         Consistent(set), set.mapped_by \in {task.mapped_by, NoUser} \/ task.status # "LOCKED_FOR_VALIDATION"
  PROVE  LET held == StillHeld(task, set)
         IN  /\ Consistent(held) /\ IsLocked(held) /\ held.locked_by = task.locked_by
             /\ held.history = set.history
<1> DEFINE held == StillHeld(task, set)
<1>1. /\ held \in TaskRecord /\ held.status = task.status /\ held.locked_by = task.locked_by
      /\ held.mapped_by = set.mapped_by
      /\ held.history = set.history /\ held.invalidations = set.invalidations
  BY StillHeldType DEF Consistent, GoodTask
<1> HIDE DEF held
<1>2. GoodTask(held)
  BY <1>1 DEF Consistent, GoodTask
<1> QED BY <1>1, <1>2 DEF Consistent, Settled, IsLocked, UserCanValidateTask, held

LEMMA RowsStep ==
  ASSUME OneWorker, StepsGood, NEW w \in Workers, Rows(w), UNCHANGED crashes
  PROVE  GoodStep
<1> DEFINE r == request[w]
           t == r.task
           task == tasks[t]
           undo == r.op = "undo"
           set == UnlockTask(task, r.user, r.new, undo, undo)
           held == StillHeld(task, set)
           s == [r EXCEPT !.counts = NoCounts, !.pc = "finish"]
<1>1. /\ r \in Request /\ t \in Tasks /\ r.pc = "rows" /\ Current(r, task) /\ Consistent(task)
      /\ task \in TaskRecord
      /\ project \in [Counted -> Int] /\ tally \in [Users -> [Tallied -> Int]]
  BY Busy DEF Rows
<1>2. /\ AtRest(set, r.new) /\ Consistent(set) /\ WriteCounts(r)
      /\ IF HasRow(r)
         THEN /\ r.op = "unlock"
              /\ tasks' = [tasks EXCEPT ![t] = held]
              /\ request' = [request EXCEPT ![w] = s]
         ELSE /\ tasks' = [tasks EXCEPT ![t] = set]
              /\ request' = [request EXCEPT ![w] = Idle]
  BY RowsResult
<1>3. set.mapped_by \in {task.mapped_by, NoUser} \/ task.status # "LOCKED_FOR_VALIDATION"
  BY DEF UnlockTask, MappedBy
<1> HIDE DEF r
<1>4. project' \in [Counted -> Int] /\ tally' \in [Users -> [Tallied -> Int]]
  BY <1>1, <1>2, WriteCountsType
<1>5. /\ s \in Request /\ s.op = r.op /\ s.user = r.user /\ s.task = t
      /\ s.new = r.new /\ s.pc = "finish"
  BY <1>1 DEF Request
<1> HIDE DEF set, s, t, task
<1>6. CASE HasRow(r)
  <2>1. r.op = "unlock" /\ IsLocked(task)
    BY <1>1, <1>2, <1>6 DEF Current, Found
  <2>2. AtRest(set, GetLastStatus(set.history)) /\ r.new = GetLastStatus(set.history)
    BY <1>2 DEF AtRest
  <2>3. Consistent(held) /\ IsLocked(held) /\ held.locked_by = task.locked_by /\ held.history = set.history
    BY <1>1, <1>2, <1>3, <2>1, <2>2, StillHeldConsistent
  <2> HIDE DEF held
  <2>4. Current(s, held)
    BY <1>1, <1>5, <2>1, <2>2, <2>3 DEF Current, Found
  <2>5. HolderStays(tasks[t], held)
    BY <2>3 DEF HolderStays, task
  <2> QED BY <1>1, <1>2, <1>4, <1>5, <1>6, <2>3, <2>4, <2>5, CommitStep
<1>7. CASE ~HasRow(r)
  <2>1. HolderStays(tasks[t], set)
    BY <1>2 DEF HolderStays, AtRest
  <2> QED BY <1>1, <1>2, <1>4, <1>7, <2>1, CommitStep
<1> QED BY <1>6, <1>7

\* Setting the status and the holder after the last commit takes the lock off.
LEMMA FinishStep ==
  ASSUME OneWorker, StepsGood, NEW w \in Workers, Finish(w), UNCHANGED crashes
  PROVE  GoodStep
<1> DEFINE r == request[w]
           t == r.task
           task == tasks[t]
           new == ClearLock(task)
<1>1. /\ r \in Request /\ t \in Tasks /\ r.pc = "finish" /\ Current(r, task) /\ Consistent(task)
      /\ task \in TaskRecord /\ tasks \in [Tasks -> TaskRecord]
      /\ project \in [Counted -> Int] /\ tally \in [Users -> [Tallied -> Int]]
  BY Busy DEF Finish, StepsGood, TypeOK
<1>2. r.new = GetLastStatus(task.history)
  BY <1>1 DEF Current, Found
<1>3. /\ tasks' = [tasks EXCEPT ![t] = [task EXCEPT !.status = r.new, !.locked_by = NoUser]]
      /\ request' = [request EXCEPT ![w] = Idle]
      /\ UNCHANGED <<project, tally>>
  <2>1. /\ tasks' = [tasks EXCEPT ![t].status = r.new, ![t].locked_by = NoUser]
        /\ request' = [request EXCEPT ![w] = Idle]
        /\ UNCHANGED <<project, tally>>
    BY DEF Finish, End
  <2> HIDE DEF r, t
  <2> QED BY <1>1, <2>1
<1>4. tasks' = [tasks EXCEPT ![t] = new]
  BY <1>2, <1>3 DEF ClearLock
<1> HIDE DEF r, t, task
<1>5. Consistent(new) /\ new.locked_by = NoUser
  BY <1>1, ClearConsistent
<1> HIDE DEF new
<1>6. HolderStays(tasks[t], new)
  BY <1>5 DEF HolderStays
<1> QED BY <1>1, <1>3, <1>4, <1>5, <1>6, CommitStep DEF task
----------------------------------------------------------------------------
(* Stopping, extending and the automatic release: rows, then columns.      *)

\* A step that changes rows about locks of a task that stays locked.
LEMMA OtherRowsStep ==
  ASSUME OneWorker, StepsGood, NEW w \in Workers, NEW pc, At(w, pc), NEW g, NEW s,
         UNCHANGED <<project, tally, crashes>>,
         request' = [request EXCEPT ![w] = s],
         LET r == request[w]
             t == r.task
         IN  /\ tasks' = [tasks EXCEPT ![t].history = g]
             /\ KeepsChanges(tasks[t].history, g) /\ Signed(g)
             /\ \/ s = Idle
                \/ \E next \in {"extend", "load"} :
                     /\ s = [r EXCEPT !.pc = next]
                     /\ r.op \in (IF next = "extend" THEN {"extend"} ELSE {"stop", "sweep"})
  PROVE  GoodStep
<1> DEFINE r == request[w]
           t == r.task
           task == tasks[t]
           new == [task EXCEPT !.history = g]
<1>1. /\ r \in Request /\ t \in Tasks /\ r.pc = pc /\ Current(r, task) /\ Consistent(task)
      /\ task \in TaskRecord /\ tasks \in [Tasks -> TaskRecord]
      /\ project \in [Counted -> Int] /\ tally \in [Users -> [Tallied -> Int]]
  BY Busy DEF StepsGood, TypeOK
<1>2. tasks' = [tasks EXCEPT ![t] = new]
  OBVIOUS
<1>3. KeepsChanges(task.history, g) /\ Signed(g)
  OBVIOUS
<1>4. /\ Consistent(new) /\ ColumnsOf(new) = ColumnsOf(task)
  BY <1>1, <1>3, OtherRows
<1>5. new.status = task.status /\ new.locked_by = task.locked_by
  BY <1>1 DEF TaskRecord
<1>6. HolderStays(task, new)
  BY <1>5 DEF HolderStays
<1>7. ASSUME NEW next \in {"extend", "load"}, s = [r EXCEPT !.pc = next],
             r.op \in (IF next = "extend" THEN {"extend"} ELSE {"stop", "sweep"})
      PROVE  s.task = t /\ Current(s, new)
  <2>1. /\ s \in Request /\ s.op = r.op /\ s.user = r.user /\ s.task = r.task
        /\ s.seen = r.seen /\ s.pc = next
    <3> HIDE DEF r
    <3> QED BY <1>1, <1>7 DEF Request
  <2>2. IsLocked(new)
    <3>1. IsLocked(task)
      BY <1>1, <1>7 DEF Current, Found
    <3> QED BY <1>5, <3>1 DEF IsLocked
  <2>3. r.seen = ColumnsOf(new) /\ (r.op # "sweep" => r.user \in Users)
    BY <1>1, <1>4, <1>7 DEF Current, Found
  <2> HIDE DEF r, new, t, task
  <2>4. Found(s, new)
    BY <1>7, <2>1, <2>2 DEF Found
  <2> QED BY <1>7, <2>1, <2>3, <2>4 DEF Current, t
<1>8. s = Idle \/ (s.task = t /\ Current(s, new))
  BY <1>7
<1> HIDE DEF r, t, new
<1> QED BY <1>1, <1>2, <1>4, <1>6, <1>8, CommitStep DEF task

\* update_task_locked_with_duration.
LEMMA CloseStep ==
  ASSUME OneWorker, StepsGood, NEW w \in Workers, Close(w), UNCHANGED crashes
  PROVE  GoodStep
<1> DEFINE r == request[w]
           task == tasks[r.task]
           g == CloseLock(task.history, r.seen.status, r.user)
           next == IF r.op = "extend" THEN "extend" ELSE "load"
           s == [r EXCEPT !.pc = next]
<1>1. /\ r.pc = "close" /\ Current(r, task) /\ task.history \in Seq(Row) /\ Signed(task.history)
  BY Busy DEF Close
<1>2. /\ tasks' = [tasks EXCEPT ![r.task].history = g]
      /\ request' = [request EXCEPT ![w] = s]
      /\ UNCHANGED <<project, tally>> /\ At(w, "close")
  BY DEF Close, GoTo
<1>3. r.op \in {"stop", "extend"} /\ r.seen.status \in LockedStatus
  BY <1>1 DEF Current, Found, ColumnsOf, IsLocked
<1>4. KeepsChanges(task.history, g) /\ Signed(g)
  BY <1>1, <1>3, CloseLockKeeps, SignedClose
<1>5. /\ next \in {"extend", "load"}
      /\ r.op \in (IF next = "extend" THEN {"extend"} ELSE {"stop", "sweep"})
  BY <1>3
<1> HIDE DEF g
<1>6. \E n \in {"extend", "load"} :
        /\ s = [r EXCEPT !.pc = n]
        /\ r.op \in (IF n = "extend" THEN {"extend"} ELSE {"stop", "sweep"})
  BY <1>5
<1> HIDE DEF s, next
<1> QED BY <1>2, <1>4, <1>6, OtherRowsStep

\* update_expired_and_locked_actions.
LEMMA ExpireStep ==
  ASSUME OneWorker, StepsGood, NEW w \in Workers, Expire(w), UNCHANGED crashes
  PROVE  GoodStep
<1> DEFINE r == request[w]
           task == tasks[r.task]
           g == ExpireRows(task.history, r.cut)
           s == [r EXCEPT !.pc = "load"]
<1>1. /\ r.pc = "expire" /\ Current(r, task) /\ task.history \in Seq(Row) /\ Signed(task.history)
  BY Busy DEF Expire
<1>2. /\ tasks' = [tasks EXCEPT ![r.task].history = g]
      /\ request' = [request EXCEPT ![w] = s]
      /\ UNCHANGED <<project, tally>> /\ At(w, "expire")
  BY DEF Expire, GoTo
<1>3. r.op \in {"stop", "sweep"}
  BY <1>1 DEF Current, Found
<1>4. KeepsChanges(task.history, g) /\ Signed(g)
  BY <1>1, ExpireRowsKeeps, SignedExpire
<1> HIDE DEF g
<1>5. \E n \in {"extend", "load"} :
        /\ s = [r EXCEPT !.pc = n]
        /\ r.op \in (IF n = "extend" THEN {"extend"} ELSE {"stop", "sweep"})
  BY <1>3
<1> HIDE DEF s
<1> QED BY <1>2, <1>4, <1>5, OtherRowsStep

\* The row an extension inserts.
LEMMA ExtendStep ==
  ASSUME OneWorker, StepsGood, NEW w \in Workers, Extend(w), UNCHANGED crashes
  PROVE  GoodStep
<1> DEFINE r == request[w]
           task == tasks[r.task]
           row == LockRow(ExtendAction(r.seen.status), r.user)
           g == Append(task.history, row)
<1>1. /\ r.pc = "extend" /\ Current(r, task) /\ task.history \in Seq(Row) /\ Signed(task.history)
  BY Busy DEF Extend
<1>2. /\ tasks' = [tasks EXCEPT ![r.task].history = g]
      /\ request' = [request EXCEPT ![w] = Idle]
      /\ UNCHANGED <<project, tally>> /\ At(w, "extend")
  BY DEF Extend, End
<1>3. r.user \in Users
  BY <1>1 DEF Current, Found
<1>4. row \in Row /\ row.action # "STATE_CHANGE" /\ row.user \in Users
  BY <1>3, RowTypes DEF LockRow, ExtendAction, UserOrNone, TaskAction, ExtendActions
<1> HIDE DEF row
<1>5. KeepsChanges(task.history, g) /\ Signed(g)
  BY <1>1, <1>4, AppendOther, SignedAppend
<1> HIDE DEF g
<1> QED BY <1>2, <1>5, OtherRowsStep

\* The task is loaded again.
LEMMA LoadStep ==
  ASSUME OneWorker, StepsGood, NEW w \in Workers, Load(w), UNCHANGED crashes
  PROVE  GoodStep
<1> DEFINE r == request[w]
           task == tasks[r.task]
           s == [r EXCEPT !.seen = ColumnsOf(task), !.pc = "clear"]
<1>1. /\ r \in Request /\ r.pc = "load" /\ Current(r, task) /\ crashes' \in 0..MaxCrashes
      /\ task \in TaskRecord
  BY Busy DEF Load
<1>2. /\ \/ request' = [request EXCEPT ![w] = s]
         \/ request' = [request EXCEPT ![w] = Idle]
      /\ UNCHANGED <<tasks, project, tally>>
  BY DEF Load, End, Columns, ColumnsOf
<1>3. /\ s \in Request /\ s.op = r.op /\ s.user = r.user /\ s.task = r.task
      /\ s.seen = ColumnsOf(task) /\ s.pc = "clear"
  BY <1>1, Reloaded
<1> HIDE DEF r, s
<1>4. Current(s, tasks[s.task])
  BY <1>1, <1>3 DEF Current, Found
<1>5. CASE request' = [request EXCEPT ![w] = s]
  BY <1>1, <1>2, <1>4, <1>5, ReadStep
<1>6. CASE request' = [request EXCEPT ![w] = Idle]
  BY <1>1, <1>2, <1>6, ReadStep
<1> QED BY <1>2, <1>5, <1>6

\* clear_lock with the columns its session loaded is Task.clear_lock.
ClearWritten(task, seen) ==
  [task EXCEPT !.status = Written(@, seen.status, GetLastStatus(task.history)),
               !.locked_by = Written(@, seen.locked_by, NoUser)]

LEMMA ClearResult ==
  ASSUME StepsGood, NEW w \in Workers, Clear(w)
  PROVE  LET t == request[w].task
         IN  tasks' = [tasks EXCEPT ![t] = ClearLock(tasks[t])]
<1> DEFINE r == request[w]
           t == r.task
           task == tasks[t]
           a == ClearWritten(task, r.seen)
           b == ClearLock(task)
<1>1. r.pc = "clear" /\ Current(r, task)
  BY Busy DEF Clear
<1>2. tasks' = [tasks EXCEPT ![t] = a]
  BY DEF Clear, ClearWritten
<1>3. r.seen.status = task.status /\ r.seen.locked_by = task.locked_by
  BY <1>1 DEF Current, Found, ColumnsOf
<1> HIDE DEF r, t, task
<1>4. /\ Written(task.status, r.seen.status, GetLastStatus(task.history)) = GetLastStatus(task.history)
      /\ Written(task.locked_by, r.seen.locked_by, NoUser) = NoUser
  BY <1>3, WrittenBack
<1>5. a = b
  BY <1>4 DEF ClearWritten, ClearLock
<1> QED BY <1>2, <1>5 DEF t, r, task

LEMMA ClearStep ==
  ASSUME OneWorker, StepsGood, NEW w \in Workers, Clear(w), UNCHANGED crashes
  PROVE  GoodStep
<1> DEFINE r == request[w]
           t == r.task
           task == tasks[t]
           new == ClearLock(task)
<1>1. /\ t \in Tasks /\ Consistent(task)
      /\ project \in [Counted -> Int] /\ tally \in [Users -> [Tallied -> Int]]
  BY Busy DEF Clear
<1>2. tasks' = [tasks EXCEPT ![t] = new]
  BY ClearResult
<1>3. /\ request' = [request EXCEPT ![w] = Idle]
      /\ UNCHANGED <<project, tally>>
  BY DEF Clear, End
<1> HIDE DEF r, t, task
<1>4. Consistent(new) /\ new.locked_by = NoUser
  BY <1>1, ClearConsistent
<1> HIDE DEF new
<1>5. HolderStays(tasks[t], new)
  BY <1>4 DEF HolderStays
<1> QED BY <1>1, <1>2, <1>3, <1>4, <1>5, CommitStep DEF task
----------------------------------------------------------------------------
(* The invariant.                                                          *)

LEMMA CommentStep ==
  ASSUME OneWorker, StepsGood, NEW w \in Workers, NEW u \in Users, NEW t \in Tasks, Comment(w, u, t),
         UNCHANGED crashes
  PROVE  GoodStep
<1> DEFINE task == tasks[t]
           new == Commented(task, u, TRUE)
           g == Append(task.history, CommentRow(u))
<1>1. /\ tasks' = [tasks EXCEPT ![t] = new]
      /\ UNCHANGED <<project, tally, request>> /\ request[w] = Idle
  BY DEF Comment, AddTaskComment
<1>2. /\ Consistent(task) /\ task.history \in Seq(Row) /\ Signed(task.history)
      /\ task \in TaskRecord
      /\ project \in [Counted -> Int] /\ tally \in [Users -> [Tallied -> Int]]
  BY DEF StepsGood, TypeOK, Consistent, GoodTask, WellFormed
<1>3. request' = [request EXCEPT ![w] = Idle]
  BY <1>1 DEF StepsGood
<1>4. new = [task EXCEPT !.history = g]
  BY DEF Commented
<1>5. new.locked_by = task.locked_by
  BY <1>2, <1>4 DEF TaskRecord
<1>6. CommentRow(u) \in Row /\ CommentRow(u).action # "STATE_CHANGE" /\ CommentRow(u).user \in Users
  BY RowTypes DEF CommentRow, UserOrNone
<1> HIDE DEF new
<1>7. KeepsChanges(task.history, g) /\ Signed(g)
  BY <1>2, <1>6, AppendOther, SignedAppend
<1> HIDE DEF g
<1>8. Consistent(new)
  BY <1>2, <1>4, <1>7, OtherRows
<1>9. HolderStays(task, new)
  BY <1>5 DEF HolderStays
<1> QED BY <1>1, <1>2, <1>3, <1>8, <1>9, CommitStep

\* A worker that stops leaves what it has committed.
LEMMA CrashStep ==
  ASSUME OneWorker, StepsGood, NEW w \in Workers, Crash(w)
  PROVE  GoodStep
<1>1. crashes' \in 0..MaxCrashes
  BY MaxCrashesAssumption DEF Crash, StepsGood
<1>2. request' = [request EXCEPT ![w] = Idle] /\ UNCHANGED <<tasks, project, tally>>
  BY DEF Crash, End
<1> QED BY <1>1, <1>2, ReadStep

LEMMA StepsAreGood == ASSUME OneWorker, StepsGood, StepsNext PROVE GoodStep
<1>1. PICK w \in Workers : Serve(w) \/ Crash(w)
  BY DEF StepsNext
<1>2. CASE Crash(w)
  BY <1>2, CrashStep
<1>3. CASE Serve(w)
  <2>1. UNCHANGED crashes
    BY <1>3 DEF Serve
  <2>2. CASE \E u \in Users, t \in Tasks : Read(w, u, t) \/ Comment(w, u, t)
    BY <2>1, <2>2, StartStep, CommentStep
  <2>3. CASE \E t \in Tasks : \E k \in DOMAIN tasks[t].history : FindExpired(w, t, k)
    BY <2>1, <2>3, FindExpiredStep
  <2>4. CASE Work(w)
    BY <2>1, <2>4, PermitStep, LockStep, NotifyStep, CountStep, CommitCountsStep, RowsStep, FinishStep,
       CloseStep, ExtendStep, ExpireStep, LoadStep, ClearStep DEF Work
  <2> QED BY <1>3, <2>2, <2>3, <2>4 DEF Serve
<1> QED BY <1>1, <1>2, <1>3

LEMMA StepsInitGood == StepsInit => StepsGood
<1> SUFFICES ASSUME StepsInit PROVE StepsGood
  OBVIOUS
<1>1. TypeOK
  BY InitInv DEF StepsInit, Inv, Clean
<1>2. Consistent(NewTask)
  <2>1. Settled(NewTask) /\ ~IsLocked(NewTask) /\ Signed(NewTask.history)
    BY NewTaskGood DEF Settled, NewTask, IsLocked, LockedStatus, Signed
  <2> QED BY <2>1, NewTaskGood DEF Consistent, IsLocked, LockedStatus
<1>3. \A t \in Tasks : tasks[t] = NewTask
  BY DEF StepsInit, Init
<1> QED BY <1>1, <1>2, <1>3, MaxCrashesAssumption DEF StepsInit, StepsGood

LEMMA StepsGoodUnchanged == ASSUME StepsGood, UNCHANGED stepVars PROVE StepsGood'
  BY DEF stepVars, StepsGood, TypeOK

LEMMA StepsGoodHolds == ASSUME OneWorker PROVE StepsSpec => []StepsGood
<1>1. ASSUME StepsGood, [StepsNext]_stepVars PROVE StepsGood'
  BY <1>1, StepsAreGood, StepsGoodUnchanged DEF GoodStep
<1> QED BY StepsInitGood, <1>1, PTL DEF StepsSpec

\* However often the worker stops between two commits of a request, a task
\* nobody holds is in the status its rows tell, so that a later release puts it
\* back there, and nobody but an administrator is left to validate a task he
\* is recorded to have mapped.
THEOREM StepsInvHolds == ASSUME OneWorker PROVE StepsSpec => []StepsInv
<1>1. ASSUME StepsGood PROVE StepsInv
  <2>1. StepsTypeOK
    BY <1>1 DEF StepsGood, StepsTypeOK
  <2>2. StatusOnRecord
    BY <1>1 DEF StepsGood, Consistent, Settled, StatusOnRecord
  <2>3. ValidatorIsNotMapper
    BY <1>1 DEF StepsGood, Consistent, UserCanValidateTask, ValidatorIsNotMapper
  <2> QED BY <2>1, <2>2, <2>3 DEF StepsInv
<1> QED BY StepsGoodHolds, <1>1, PTL

\* No commit leaves a task locked without a holder, which nobody could unlock,
\* or held without a lock, which would keep its holder from every other task.
THEOREM HeldTasksLocked == ASSUME OneWorker PROVE StepsSpec => []HeldIffLocked
<1>1. StepsGood => HeldIffLocked
  BY DEF StepsGood, Consistent, Settled, HeldIffLocked
<1> QED BY StepsGoodHolds, <1>1, PTL

\* With one worker a task that is held gets no other holder before it is free;
\* with two workers it may, as each has looked at the task before either locks it.
THEOREM OneWorkerLocks == ASSUME OneWorker PROVE StepsSpec => LockExclusive
<1> DEFINE Body == \A t \in Tasks : tasks[t].locked_by # NoUser =>
                     tasks'[t].locked_by \in {tasks[t].locked_by, NoUser}
<1>1. ASSUME StepsGood, [StepsNext]_stepVars PROVE [Body]_stepVars
  BY <1>1, StepsAreGood DEF GoodStep, HolderStays
<1> HIDE DEF Body
<1>2. StepsSpec => [][Body]_stepVars
  BY StepsGoodHolds, <1>1, PTL DEF StepsSpec
<1> QED BY <1>2 DEF LockExclusive, Body
----------------------------------------------------------------------------
(* Requests in steps are whole requests.  What has been committed (now) is *)
(* compared with what was when the worker was last idle (old).             *)

\* What Whole defines as TaskLifecycle does.
LEMMA WholeQueries ==
  ASSUME NEW h, NEW k
  PROVE  /\ Whole!GetLastStatus(h) = GetLastStatus(h)
         /\ Whole!GetUndoStatus(h) = GetUndoStatus(h)
         /\ Whole!GetLastAction(h) = GetLastAction(h)
         /\ Whole!OpenLockRows(h) = OpenLockRows(h)
<1>1. Whole!GetLastStatus(h) = GetLastStatus(h)
  BY DEF Whole!GetLastStatus, GetLastStatus, Whole!Changes, Changes, Whole!RowsOf, RowsOf, Whole!Max, Max
<1>2. Whole!GetUndoStatus(h) = GetUndoStatus(h)
  BY DEF Whole!GetUndoStatus, GetUndoStatus, Whole!Changes, Changes, Whole!RowsOf, RowsOf, Whole!Max, Max,
         Whole!Cardinality, Cardinality
<1>3. Whole!GetLastAction(h) = GetLastAction(h)
  BY DEF Whole!GetLastAction, GetLastAction, Whole!RowsOf, RowsOf, Whole!Max, Max, Whole!TaskAction, TaskAction,
         Whole!LockedStatus, LockedStatus, Whole!ExtendActions, ExtendActions, Whole!AutoActions, AutoActions
<1>4. Whole!OpenLockRows(h) = OpenLockRows(h)
  BY DEF Whole!OpenLockRows, OpenLockRows, Whole!RowsOf, RowsOf, Whole!LockedStatus, LockedStatus,
         Whole!ExtendActions, ExtendActions
<1> QED BY <1>1, <1>2, <1>3, <1>4

LEMMA WholeUnlockTask ==
  ASSUME NEW task, NEW u, NEW new, NEW comment, NEW undo
  PROVE  Whole!UnlockTask(task, u, new, comment, undo) = UnlockTask(task, u, new, comment, undo)
BY DEF Whole!UnlockTask, UnlockTask, Whole!Commented, Commented, Whole!CommentRow, CommentRow,
       Whole!StateChangeRow, StateChangeRow, Whole!MappedBy, MappedBy, Whole!ValidatedBy, ValidatedBy,
       Whole!RecordValidation, RecordValidation, Whole!RecordInvalidation, RecordInvalidation,
       Whole!CloseAllForTask, CloseAllForTask, Whole!GetLastMappedAction, GetLastMappedAction,
       Whole!MappedRows, MappedRows, Whole!Changes, Changes, Whole!RowsOf, RowsOf, Whole!Max, Max,
       Whole!CloseLock, CloseLock, Whole!Deleted, Deleted

LEMMA WholeOperations ==
  ASSUME NEW task, NEW status, NEW u, NEW k
  PROVE  /\ Whole!LockTask(task, status, u) = LockTask(task, status, u)
         /\ Whole!Commented(task, u, TRUE) = Commented(task, u, TRUE)
         /\ Whole!ResetLock(task, u, FALSE) = ResetLock(task, u, FALSE)
         /\ Whole!ExtendLock(task, u) = ExtendLock(task, u)
         /\ Whole!AutoUnlock(task, k) = AutoUnlock(task, k)
<1>1. Whole!LockTask(task, status, u) = LockTask(task, status, u)
  BY DEF Whole!LockTask, LockTask, Whole!LockRow, LockRow
<1>2. Whole!Commented(task, u, TRUE) = Commented(task, u, TRUE)
  BY DEF Whole!Commented, Commented, Whole!CommentRow, CommentRow
<1>3. Whole!ResetLock(task, u, FALSE) = ResetLock(task, u, FALSE)
  BY DEF Whole!ResetLock, ResetLock, Whole!Commented, Commented, Whole!CommentRow, CommentRow,
         Whole!ClearLock, ClearLock, Whole!GetLastStatus, GetLastStatus, Whole!Changes, Changes,
         Whole!RowsOf, RowsOf, Whole!Max, Max, Whole!CloseLock, CloseLock, Whole!Deleted, Deleted
<1>4. Whole!ExtendLock(task, u) = ExtendLock(task, u)
  BY DEF Whole!ExtendLock, ExtendLock, Whole!LockRow, LockRow, Whole!ExtendAction, ExtendAction,
         Whole!RowsOf, RowsOf, Whole!Max, Max, Whole!CloseLock, CloseLock, Whole!Deleted, Deleted
<1>5. Whole!AutoUnlock(task, k) = AutoUnlock(task, k)
  BY DEF Whole!AutoUnlock, AutoUnlock, Whole!ClearLock, ClearLock, Whole!GetLastStatus, GetLastStatus,
         Whole!Changes, Changes, Whole!RowsOf, RowsOf, Whole!Max, Max, Whole!ExpireRows, ExpireRows,
         Whole!OpenLockRows, OpenLockRows, Whole!LockedStatus, LockedStatus, Whole!ExtendActions, ExtendActions,
         Whole!LastLockedOrAutoUnlocked, LastLockedOrAutoUnlocked, Whole!AutoActions, AutoActions
<1> QED BY <1>1, <1>2, <1>3, <1>4, <1>5

LEMMA WholeStats ==
  ASSUME NEW counters, NEW credits, NEW last, NEW new, NEW action
  PROVE  /\ Whole!Recount(counters, last, new) = Recount(counters, last, new)
         /\ Whole!Credit(credits, last, new, action) = Credit(credits, last, new, action)
BY DEF Whole!Recount, Recount, Whole!Credit, Credit, Whole!One, One, Whole!Counted, Counted,
       Whole!Tallied, Tallied

\* The worker has committed nothing.
Same(old, now) == now.tasks = old.tasks /\ now.project = old.project /\ now.tally = old.tally

LocksOf(state, u) == {t \in Tasks : state.tasks[t].locked_by = u}

\* Of a user who locks a task for validation.
MayLock(r, old, away) ==
  LET held == LocksOf(old, r.user) \cup away IN
  IF held = {} THEN r.user \in Validators ELSE r.user \in Admitted /\ held = {r.task}

\* What whole requests require, of the task and of the user.
AskedLock(r, old) ==
  LET task == old.tasks[r.task] IN
  \/ /\ r.op = "lock_mapping"
     /\ \/ task.locked_by = r.user
        \/ IsMappable(task) /\ (r.pc = "lock" => r.user \in Mappers /\ LocksOf(old, r.user) = {})
  \/ /\ r.op = "lock_validation"
     /\ \/ task.locked_by = r.user /\ task.status = "LOCKED_FOR_VALIDATION"
        \/ /\ task.status \in {"MAPPED", "INVALIDATED", "BADIMAGERY"}
           /\ UserCanValidateTask(r.user, task.mapped_by)
     /\ r.pc = "lock" => \E away \in SUBSET Tasks : MayLock(r, old, away)

AskedStatus(r, task) ==
  \/ /\ r.op = "unlock"
     /\ task.status = "LOCKED_FOR_MAPPING" /\ task.locked_by = r.user
     /\ r.new \in {"MAPPED", "BADIMAGERY", "READY"}
  \/ /\ r.op = "unlock"
     /\ task.status = "LOCKED_FOR_VALIDATION" /\ task.locked_by = r.user
     /\ r.new \in {"MAPPED", "INVALIDATED", "VALIDATED"}
     /\ r.new \in {"INVALIDATED", "VALIDATED"} => task.mapped_by # NoUser
  \/ /\ r.op = "undo"
     /\ task.status \notin LockedStatus \cup {"READY"}
     /\ \/ GetLastAction(task.history).user = r.user
        \/ IsTrue(PermittedToValidate(r.user))
     /\ r.new = GetUndoStatus(task.history)

AskedRelease(r, task) ==
  \/ r.op = "stop" /\ task.status \in LockedStatus /\ task.locked_by = r.user
  \/ r.op = "extend" /\ task.status \in LockedStatus /\ task.locked_by = r.user
  \/ /\ r.op = "sweep"
     /\ task.status \in LockedStatus
     /\ r.cut \in DOMAIN task.history
     /\ \E i \in OpenLockRows(task.history) : i <= r.cut

\* The counters as they were read, and as they are written back.
CountsOf(r, old) ==
  LET task == old.tasks[r.task]
      credited == IF r.op = "undo" THEN GetLastAction(task.history).user ELSE r.user
  IN  [last |-> IF r.op = "undo" THEN task.status ELSE GetLastStatus(task.history),
       project |-> old.project, user |-> credited, credits |-> old.tally[credited]]

CountsMade(r, old, now) ==
  LET c == CountsOf(r, old)
      action == IF r.op = "undo" THEN "undo" ELSE "change"
  IN  /\ now.project = Recount(c.project, c.last, r.new)
      /\ now.tally = [old.tally EXCEPT ![c.user] = Credit(c.credits, c.last, r.new, action)]

CountsKept(old, now) == now.project = old.project /\ now.tally = old.tally

\* A locked task when a stop, an extension or a sweep has dealt with its rows.
Dealt(r, task) ==
  [task EXCEPT !.history = IF r.op = "sweep" THEN ExpireRows(@, r.cut)
                           ELSE CloseLock(@, task.status, r.user)]

\* How far a request has come.
Progress(r, old, now) ==
  LET t == r.task
      task == old.tasks[t]
  IN
  \/ /\ r.pc \in {"permit", "lock"}
     /\ Same(old, now) /\ AskedLock(r, old)
  \/ /\ r.pc \in {"notify", "count"}
     /\ Same(old, now) /\ AskedStatus(r, task)
  \/ /\ r.pc = "rows"
     /\ now.tasks = old.tasks /\ AskedStatus(r, task)
     /\ IF r.counts = NoCounts THEN CountsMade(r, old, now)
        ELSE CountsKept(old, now) /\ r.counts = CountsOf(r, old)
  \/ /\ r.pc = "finish"
     /\ r.op = "unlock" /\ AskedStatus(r, task) /\ CountsMade(r, old, now)
     /\ Len(task.history) + 1 <= MaxRows
     /\ now.tasks = [old.tasks EXCEPT ![t] =
                       StillHeld(task, UnlockTask(task, r.user, r.new, FALSE, FALSE))]
  \/ /\ r.pc \in {"close", "expire"}
     /\ Same(old, now) /\ AskedRelease(r, task)
  \/ /\ r.pc \in {"extend", "load", "clear"}
     /\ CountsKept(old, now) /\ AskedRelease(r, task)
     /\ now.tasks = [old.tasks EXCEPT ![t] = Dealt(r, task)]
     /\ LET h == Dealt(r, task).history
        IN  (r.op = "sweep" /\ r.pc = "clear") => h[LastLockedOrAutoUnlocked(h)].action \in AutoActions

\* A state when the worker is idle.
Orderly(state) ==
  /\ state.project \in [Counted -> Int]
  /\ state.tally \in [Users -> [Tallied -> Int]]
  /\ state.tasks \in [Tasks -> TaskRecord]
  /\ \A t \in Tasks : Consistent(state.tasks[t])
  /\ \A t \in Tasks : Len(state.tasks[t].history) <= MaxRows

\* The exploration bound (Room) is kept by every commit.
Short == \A t \in Tasks : Len(tasks[t].history) <= MaxRows

SerialGood ==
  /\ StepsGood
  /\ Short
  /\ Orderly(settled)
  /\ \A w \in Workers : IF request[w] = Idle THEN Same(settled, Committed)
                        ELSE Progress(request[w], settled, Committed)
----------------------------------------------------------------------------
(* From one idle moment to the next.                                       *)

\* What is to be shown of every step.
WholeStep == SerialGood' /\ [Whole!Next]_(Whole!vars)

\* What a worker under way has done.
LEMMA Underway ==
  ASSUME SerialGood, NEW w \in Workers, NEW pc, At(w, pc)
  PROVE  LET r == request[w]
             task == settled.tasks[r.task]
         IN  /\ pc \in {"permit", "lock"} => Same(settled, Committed) /\ AskedLock(r, settled)
             /\ pc \in {"notify", "count"} => Same(settled, Committed) /\ AskedStatus(r, task)
             /\ pc = "rows" =>
                  /\ settled.tasks = tasks /\ AskedStatus(r, task)
                  /\ IF r.counts = NoCounts THEN CountsMade(r, settled, Committed)
                     ELSE CountsKept(settled, Committed) /\ r.counts = CountsOf(r, settled)
             /\ pc = "finish" =>
                  /\ r.op = "unlock" /\ AskedStatus(r, task) /\ CountsMade(r, settled, Committed)
                  /\ Len(task.history) + 1 <= MaxRows
                  /\ tasks = [settled.tasks EXCEPT ![r.task] =
                                StillHeld(task, UnlockTask(task, r.user, r.new, FALSE, FALSE))]
             /\ pc \in {"close", "expire"} => Same(settled, Committed) /\ AskedRelease(r, task)
             /\ pc \in {"extend", "load", "clear"} =>
                  /\ CountsKept(settled, Committed) /\ AskedRelease(r, task)
                  /\ tasks = [settled.tasks EXCEPT ![r.task] = Dealt(r, task)]
                  /\ LET h == Dealt(r, task).history
                     IN  (r.op = "sweep" /\ pc = "clear") =>
                           h[LastLockedOrAutoUnlocked(h)].action \in AutoActions
<1> DEFINE r == request[w]
           now == Committed
<1>1. r.pc = pc /\ Progress(r, settled, now)
  BY DEF SerialGood, At
<1>2. now.tasks = tasks
  BY DEF Committed
<1> HIDE DEF r, now
<1> QED BY <1>1, <1>2 DEF Progress, r, now

\* The task of a request, now and when it began.
LEMMA TheTask ==
  ASSUME SerialGood, NEW w \in Workers, NEW pc, At(w, pc)
  PROVE  LET r == request[w]
             task == settled.tasks[r.task]
         IN  /\ r \in Request /\ r.task \in Tasks /\ r.pc = pc
             /\ settled.tasks \in [Tasks -> TaskRecord]
             /\ task \in TaskRecord /\ Consistent(task) /\ task.history \in Seq(Row)
             /\ Len(task.history) <= MaxRows
             /\ Current(r, tasks[r.task])
<1>1. request[w] \in Request /\ request[w].task \in Tasks /\ request[w].pc = pc
      /\ Current(request[w], tasks[request[w].task])
  BY Busy DEF SerialGood
<1> QED BY <1>1 DEF SerialGood, Orderly, Consistent, GoodTask, WellFormed

\* A request that goes on.
LEMMA GoesOn ==
  ASSUME OneWorker, SerialGood, SerialNext, StepsGood', Short', NEW w \in Workers, NEW s \in Request,
         request' = [request EXCEPT ![w] = s], Progress(s, settled, Committed')
  PROVE  WholeStep
<1>1. \A v \in Workers : request'[v] = s
  BY DEF OneWorker, SerialGood, StepsGood
<1>2. s # Idle
  BY DEF Request, Idle
<1>3. settled' = settled
  BY <1>1, <1>2 DEF SerialNext
<1>4. SerialGood'
  BY <1>1, <1>2, <1>3 DEF SerialGood, Orderly
<1> QED BY <1>3, <1>4 DEF WholeStep, Whole!vars

\* A request that ends.
LEMMA Ends ==
  ASSUME OneWorker, SerialGood, SerialNext, StepsGood', Short', NEW w \in Workers,
         request' = [request EXCEPT ![w] = Idle],
         \/ Same(settled, Committed')
         \/ settled' = Committed' => Whole!Next
  PROVE  WholeStep
<1>1. \A v \in Workers : request'[v] = Idle
  BY DEF OneWorker, SerialGood, StepsGood
<1>2. settled' = Committed'
  BY <1>1 DEF SerialNext
<1>3. Same(settled', Committed')
  BY <1>2 DEF Same
<1>4. Orderly(settled')
  BY <1>2 DEF Orderly, StepsGood, TypeOK, Short, Committed
<1>5. SerialGood'
  BY <1>1, <1>3, <1>4 DEF SerialGood
<1>6. Same(settled, Committed') => UNCHANGED Whole!vars
  BY <1>2 DEF Same, Whole!vars
<1> QED BY <1>2, <1>5, <1>6 DEF WholeStep
\* A column or a row of one task.
LEMMA ShortStep ==
  ASSUME Short, NEW t \in Tasks, NEW new, tasks \in [Tasks -> TaskRecord],
         tasks' = [tasks EXCEPT ![t] = new], Len(new.history) <= MaxRows
  PROVE  Short'
BY DEF Short

\* The rows that an unlock or an undo adds.
LEMMA UnlockLength ==
  ASSUME NEW task, Consistent(task), NEW u \in Users, NEW new \in UnlockedStatus, NEW undo \in BOOLEAN,
         IsLocked(task) \/ undo
  PROVE  Len(UnlockTask(task, u, new, undo, undo).history)
           = Len(task.history) + (IF undo THEN 2 ELSE 1)
<1> DEFINE noted == Commented(task, u, undo).history
           changed == Append(noted, StateChangeRow(new, u))
<1>1. /\ CommentRow(u) \in Row /\ StateChangeRow(new, u) \in Row
      /\ task.history \in Seq(Row) /\ task \in TaskRecord
  BY RowTypes DEF CommentRow, StateChangeRow, UserOrNone, UnlockedStatus, Consistent, GoodTask, WellFormed
<1>2. [task EXCEPT !.history = Append(@, CommentRow(u))].history = Append(task.history, CommentRow(u))
  BY <1>1 DEF TaskRecord
<1>3. \A g \in Seq(Row), row \in Row :
         Append(g, row) \in Seq(Row) /\ Len(Append(g, row)) = Len(g) + 1 /\ Len(g) \in Nat
  BY Appended, Positions
<1>4. /\ noted \in Seq(Row)
      /\ undo => Len(noted) = Len(task.history) + 1
      /\ ~undo => Len(noted) = Len(task.history)
  <2>1. CASE undo
    <3>1. noted = Append(task.history, CommentRow(u))
      BY <1>2, <2>1, Zenon DEF Commented
    <3> HIDE DEF noted
    <3> QED BY <1>1, <1>3, <2>1, <3>1
  <2>2. CASE ~undo
    <3>1. noted = task.history
      BY <2>2, Zenon DEF Commented
    <3> HIDE DEF noted
    <3> QED BY <1>1, <2>2, <3>1
  <2> QED BY <2>1, <2>2
<1> HIDE DEF noted
<1>6. /\ changed \in Seq(Row)
      /\ Len(task.history) \in Nat
      /\ undo => Len(changed) = Len(task.history) + 2
      /\ ~undo => Len(changed) = Len(task.history) + 1
  BY <1>1, <1>3, <1>4
<1> HIDE DEF changed
<1>5. ~undo => Len(CloseLock(changed, task.status, u)) = Len(changed)
  BY <1>6, CloseLockKeeps DEF IsLocked
<1>7. UnlockTask(task, u, new, undo, undo).history = IF undo THEN changed ELSE CloseLock(changed, task.status, u)
  BY DEF UnlockTask, changed, noted
<1> QED BY <1>5, <1>6, <1>7

\* The exploration bound is kept.
LEMMA ShortKept == ASSUME StepsGood, Short, StepsNext PROVE Short'
<1> USE DEF Room
<1>0. tasks \in [Tasks -> TaskRecord]
  BY DEF StepsGood, TypeOK
<1>1. PICK w \in Workers : Serve(w) \/ Crash(w)
  BY DEF StepsNext
<1> DEFINE r == request[w]
           t == r.task
           task == tasks[t]
           h == task.history
<1>2. ASSUME NEW pc, At(w, pc)
      PROVE  /\ r \in Request /\ t \in Tasks /\ r.pc = pc /\ Current(r, task) /\ Consistent(task)
             /\ task \in TaskRecord /\ h \in Seq(Row) /\ Len(h) <= MaxRows
  BY <1>2, Busy DEF Short
<1>3. ASSUME tasks' = tasks PROVE Short'
  BY <1>3 DEF Short
<1>4. ASSUME NEW x \in Tasks, NEW g, tasks' = [tasks EXCEPT ![x].history = g], Len(g) <= MaxRows
      PROVE  Short'
  <2>1. [tasks[x] EXCEPT !.history = g].history = g
    BY <1>0 DEF TaskRecord
  <2> QED BY <1>0, <1>4, <2>1, ShortStep
<1>5. CASE Lock(w)
  <2>1. At(w, "lock") /\ Len(h) + 1 <= MaxRows
    BY <1>5 DEF Lock
  <2>2. tasks' = [tasks EXCEPT ![t] = LockTask(task, LockStatus(r.op), r.user)]
    BY <1>5, LockResult
  <2>3. r.op \in {"lock_mapping", "lock_validation"} /\ r.user \in Users
    BY <1>2, <2>1 DEF Current, Found
  <2>4. LockRow(LockStatus(r.op), r.user) \in Row
    BY <2>3, RowTypes DEF LockStatus, LockRow, TaskAction, LockedStatus, UserOrNone
  <2> HIDE DEF r, t, task
  <2>5. LockTask(task, LockStatus(r.op), r.user).history = Append(h, LockRow(LockStatus(r.op), r.user))
    BY <1>2, <2>1 DEF LockTask, TaskRecord
  <2>6. Len(LockTask(task, LockStatus(r.op), r.user).history) <= MaxRows
    BY <1>2, <2>1, <2>4, <2>5, Appended
  <2> QED BY <1>0, <1>2, <2>1, <2>2, <2>6, ShortStep
<1>6. CASE Rows(w)
  <2> DEFINE undo == r.op = "undo"
             set == UnlockTask(task, r.user, r.new, undo, undo)
  <2>1. At(w, "rows") /\ Len(h) + (IF undo THEN 2 ELSE 1) <= MaxRows
    BY <1>6 DEF Rows
  <2>2. /\ tasks' = [tasks EXCEPT ![t] = StillHeld(task, set)] \/ tasks' = [tasks EXCEPT ![t] = set]
        /\ Consistent(set)
    BY <1>6, RowsResult
  <2>3. undo \in BOOLEAN /\ (IsLocked(task) \/ undo) /\ r.user \in Users /\ r.new \in UnlockedStatus
    BY <1>2, <2>1, UndoStatusType DEF Current, Found, Consistent, GoodTask
  <2> HIDE DEF undo, t, task
  <2>4. Len(set.history) <= MaxRows
    BY <1>2, <2>1, <2>3, UnlockLength
  <2>5. StillHeld(task, set).history = set.history
    BY <1>2, <2>1, <2>2, StillHeldType DEF Consistent, GoodTask
  <2> HIDE DEF set
  <2> QED BY <1>0, <1>2, <2>1, <2>2, <2>4, <2>5, ShortStep
<1>7. CASE Finish(w)
  <2> DEFINE new == [task EXCEPT !.status = r.new, !.locked_by = NoUser]
  <2>1. At(w, "finish") /\ tasks' = [tasks EXCEPT ![t].status = r.new, ![t].locked_by = NoUser]
    BY <1>7 DEF Finish
  <2> HIDE DEF r, t
  <2>2. tasks' = [tasks EXCEPT ![t] = new]
    BY <1>0, <2>1, <1>2
  <2>3. new.history = h
    BY <1>2, <2>1 DEF TaskRecord
  <2> HIDE DEF new
  <2> QED BY <1>0, <1>2, <2>1, <2>2, <2>3, ShortStep DEF task
<1>8. CASE Close(w)
  <2>1. At(w, "close") /\ tasks' = [tasks EXCEPT ![t].history = CloseLock(h, r.seen.status, r.user)]
    BY <1>8 DEF Close
  <2>2. r.seen.status \in LockedStatus
    BY <1>2, <2>1 DEF Current, Found, ColumnsOf, IsLocked
  <2>3. Len(CloseLock(h, r.seen.status, r.user)) = Len(h)
    BY <1>2, <2>1, <2>2, CloseLockKeeps
  <2> QED BY <1>2, <1>4, <2>1, <2>3
<1>9. CASE Extend(w)
  <2> DEFINE row == LockRow(ExtendAction(r.seen.status), r.user)
  <2>1. /\ At(w, "extend") /\ tasks' = [tasks EXCEPT ![t].history = Append(h, row)]
        /\ Len(h) + 1 <= MaxRows
    BY <1>9 DEF Extend
  <2>2. r.user \in Users
    BY <1>2, <2>1 DEF Current, Found
  <2>3. row \in Row
    BY <2>2, RowTypes DEF LockRow, ExtendAction, UserOrNone, TaskAction, ExtendActions
  <2>4. Len(Append(h, row)) <= MaxRows
    BY <1>2, <2>1, <2>3, Appended
  <2> QED BY <1>2, <1>4, <2>1, <2>4
<1>10. CASE Expire(w)
  <2>1. At(w, "expire") /\ tasks' = [tasks EXCEPT ![t].history = ExpireRows(h, r.cut)]
    BY <1>10 DEF Expire
  <2>2. Len(ExpireRows(h, r.cut)) = Len(h)
    BY <1>2, <2>1, ExpireRowsKeeps
  <2> QED BY <1>2, <1>4, <2>1, <2>2
<1>11. CASE Clear(w)
  <2>1. At(w, "clear") /\ tasks' = [tasks EXCEPT ![t] = ClearLock(task)]
    BY <1>11, ClearResult DEF Clear
  <2>2. ClearLock(task).history = h
    BY <1>2, <2>1 DEF ClearLock, TaskRecord
  <2> QED BY <1>0, <1>2, <2>1, <2>2, ShortStep
<1>12. ASSUME NEW u \in Users, NEW x \in Tasks, Comment(w, u, x) PROVE Short'
  <2> DEFINE g == Append(tasks[x].history, CommentRow(u))
  <2>1. tasks[x].history \in Seq(Row) /\ CommentRow(u) \in Row
    BY RowTypes DEF StepsGood, Consistent, GoodTask, WellFormed, CommentRow, UserOrNone
  <2>2. tasks' = [tasks EXCEPT ![x].history = g] /\ Len(tasks[x].history) + 1 <= MaxRows
    BY <1>12 DEF Comment, AddTaskComment, Commented
  <2>3. Len(g) <= MaxRows
    BY <2>1, <2>2, Appended
  <2> HIDE DEF g
  <2> QED BY <1>4, <2>2, <2>3
<1>13. CASE Crash(w) \/ Permit(w) \/ Notify(w) \/ Count(w) \/ CommitCounts(w) \/ Load(w)
  <2>1. tasks' = tasks
    BY <1>13 DEF Crash, Permit, Notify, Count, CommitCounts, Load
  <2> QED BY <1>3, <2>1
<1>14. ASSUME NEW u \in Users, NEW x \in Tasks, Read(w, u, x) PROVE tasks' = tasks
  BY <1>14 DEF Read, ReadForMapping, ReadForValidation, ReadToUnlock, ReadToUndo, ReadToStop, ReadToExtend, Start
<1>15. ASSUME NEW x \in Tasks, NEW k, FindExpired(w, x, k) PROVE tasks' = tasks
  BY <1>15 DEF FindExpired, Start
<1> QED BY <1>1, <1>3, <1>5, <1>6, <1>7, <1>8, <1>9, <1>10, <1>11, <1>12, <1>13, <1>14, <1>15
        DEF Serve, Work
\* A step between two states that satisfy the invariant.
Stepping == OneWorker /\ SerialGood /\ SerialNext /\ StepsGood' /\ Short'

\* A request begins with what its task and its user must satisfy.
LEMMA BeginsWhole ==
  ASSUME Stepping, NEW w \in Workers, NEW u \in Users, NEW t \in Tasks, Read(w, u, t)
  PROVE  WholeStep
<1> DEFINE Req(op, pc, new) == Made(op, u, t, pc, new, 0)
           now == Committed'
           task == settled.tasks[t]
<1>1. /\ OneWorker /\ SerialGood /\ SerialNext /\ StepsGood' /\ Short'
  BY DEF Stepping
<1>2. request[w] = Idle /\ tasks' = tasks /\ project' = project /\ tally' = tally
  BY DEF Read, ReadForMapping, ReadForValidation, ReadToUnlock, ReadToUndo, ReadToStop, ReadToExtend, Start
<1>3. Same(settled, now) /\ settled.tasks = tasks
  BY <1>1, <1>2 DEF SerialGood, Same, Committed
<1>4. ASSUME NEW op, NEW pc, NEW new, Start(w, Req(op, pc, new)),
             \A r : r = Req(op, pc, new) => Progress(r, settled, now)
      PROVE  WholeStep
  <2>1. request' = [request EXCEPT ![w] = Req(op, pc, new)]
    BY <1>4 DEF Start
  <2>2. request'[w] = Req(op, pc, new) /\ Req(op, pc, new).op = op
    BY <1>1, <2>1 DEF SerialGood, StepsGood, Made
  <2>3. Progress(Req(op, pc, new), settled, now)
    BY <1>4
  <2>4. request'[w] # Idle => request'[w] \in Request
    BY <1>1 DEF StepsGood
  <2>5. op # "none"
    BY <2>2, <2>3 DEF Progress, AskedLock, AskedStatus, AskedRelease
  <2>6. Req(op, pc, new) \in Request
    BY <2>2, <2>4, <2>5 DEF Idle
  <2> HIDE DEF Req, now
  <2> QED BY <1>1, <2>1, <2>3, <2>6, GoesOn DEF now
<1>5. \A op, pc : NewRequest(op, u, t, pc) = Req(op, pc, "none")
  BY RequestMade
<1>6. \A op, pc, new, r : r = Req(op, pc, new) =>
        r.op = op /\ r.pc = pc /\ r.new = new /\ r.task = t /\ r.user = u
  BY DEF Made
<1> HIDE DEF Req, now
<1>7. CASE ReadForMapping(w, u, t)
  <2>1. \E pc \in {"permit", "lock"} :
          /\ Start(w, Req("lock_mapping", pc, "none"))
          /\ task.locked_by = u \/ (IsMappable(task) /\ pc = "permit")
    BY <1>3, <1>5, <1>7 DEF ReadForMapping
  <2>2. PICK pc \in {"permit", "lock"} :
          /\ Start(w, Req("lock_mapping", pc, "none"))
          /\ task.locked_by = u \/ (IsMappable(task) /\ pc = "permit")
    BY <2>1
  <2>3. \A r : r = Req("lock_mapping", pc, "none") => Progress(r, settled, now)
    BY <1>3, <1>6, <2>2 DEF Progress, AskedLock
  <2> QED BY <1>4, <2>2, <2>3
<1>8. CASE ReadForValidation(w, u, t)
  <2>1. /\ Start(w, Req("lock_validation", "permit", "none"))
        /\ \/ task.locked_by = u /\ task.status = "LOCKED_FOR_VALIDATION"
           \/ /\ task.status \in {"MAPPED", "INVALIDATED", "BADIMAGERY"}
              /\ UserCanValidateTask(u, task.mapped_by)
    BY <1>3, <1>5, <1>8 DEF ReadForValidation
  <2>2. \A r : r = Req("lock_validation", "permit", "none") => Progress(r, settled, now)
    BY <1>3, <1>6, <2>1 DEF Progress, AskedLock
  <2> QED BY <1>4, <2>1, <2>2
<1>9. ASSUME NEW new \in TaskStatus, ReadToUnlock(w, u, t, new) PROVE WholeStep
  <2>1. \E pc \in {"notify", "count"} : Start(w, Req("unlock", pc, new))
    BY <1>9, UnlockMade DEF ReadToUnlock, Req
  <2>2. \A r : r.op = "unlock" /\ r.user = u /\ r.new = new => AskedStatus(r, task)
    BY <1>3, <1>9 DEF ReadToUnlock, AskedStatus, LockedForMappingBy, LockedForValidationBy
  <2>3. PICK pc \in {"notify", "count"} : Start(w, Req("unlock", pc, new))
    BY <2>1
  <2>4. \A r : r = Req("unlock", pc, new) => Progress(r, settled, now)
    BY <1>3, <1>6, <2>2, <2>3 DEF Progress
  <2> QED BY <1>4, <2>3, <2>4
<1>10. CASE ReadToUndo(w, u, t)
  <2> DEFINE new == GetUndoStatus(task.history)
  <2>1. [NewRequest("undo", u, t, "count") EXCEPT !.new = new] = Req("undo", "count", new)
    BY UndoMade DEF Req
  <2>2. Start(w, [NewRequest("undo", u, t, "count") EXCEPT !.new = new])
    BY <1>3, <1>10 DEF ReadToUndo
  <2>3. \A r : r.op = "undo" /\ r.user = u /\ r.new = new => AskedStatus(r, task)
    BY <1>3, <1>10 DEF ReadToUndo, AskedStatus, IsTaskUndoable
  <2> HIDE DEF new
  <2>4. \A r : r = Req("undo", "count", new) => Progress(r, settled, now)
    BY <1>3, <1>6, <2>3 DEF Progress
  <2>5. Start(w, Req("undo", "count", new))
    BY <2>1, <2>2, Zenon
  <2> QED BY <1>4, <2>4, <2>5
<1>11. CASE ReadToStop(w, u, t) \/ ReadToExtend(w, u, t)
  <2>1. \E op \in {"stop", "extend"} : Start(w, Req(op, "close", "none"))
    BY <1>5, <1>11 DEF ReadToStop, ReadToExtend
  <2>2. task.status \in LockedStatus /\ task.locked_by = u
    BY <1>3, <1>11 DEF ReadToStop, ReadToExtend, LockedForMappingBy, LockedForValidationBy, IsLocked, LockedStatus
  <2>3. PICK op \in {"stop", "extend"} : Start(w, Req(op, "close", "none"))
    BY <2>1
  <2>4. \A r : r = Req(op, "close", "none") => Progress(r, settled, now)
    BY <1>3, <1>6, <2>2, <2>3 DEF Progress, AskedRelease
  <2> QED BY <1>4, <2>3, <2>4
<1> QED BY <1>7, <1>8, <1>9, <1>10, <1>11 DEF Read

LEMMA SweepBeginsWhole ==
  ASSUME Stepping, NEW w \in Workers, NEW t \in Tasks, NEW k \in DOMAIN tasks[t].history, FindExpired(w, t, k)
  PROVE  WholeStep
<1> DEFINE r == Made("sweep", NoUser, t, "expire", "none", k)
           now == Committed'
<1>1. /\ OneWorker /\ SerialGood /\ SerialNext /\ StepsGood' /\ Short'
  BY DEF Stepping
<1>2. /\ request[w] = Idle /\ tasks' = tasks /\ project' = project /\ tally' = tally
      /\ request' = [request EXCEPT ![w] = r]
  BY SweepMade DEF FindExpired, Start
<1>3. Same(settled, now) /\ settled.tasks = tasks
  BY <1>1, <1>2 DEF SerialGood, Same, Committed
<1>4. /\ r.op = "sweep" /\ r.pc = "expire" /\ r.task = t /\ r.cut = k
  BY DEF Made
<1>5. /\ tasks[t].status \in LockedStatus /\ \E i \in OpenLockRows(tasks[t].history) : i <= k
  BY DEF FindExpired, IsLocked
<1>6. request'[w] = r
  BY <1>1, <1>2 DEF SerialGood, StepsGood
<1>7. r # Idle
  BY <1>4 DEF Idle
<1> HIDE DEF r, now
<1>8. r \in Request
  BY <1>1, <1>6, <1>7 DEF StepsGood
<1>9. Progress(r, settled, now)
  BY <1>3, <1>4, <1>5 DEF Progress, AskedRelease
<1> QED BY <1>1, <1>2, <1>8, <1>9, GoesOn DEF now

\* A request whose user is refused has changed nothing.
LEMMA PermitWhole ==
  ASSUME Stepping, NEW w \in Workers, Permit(w) PROVE WholeStep
<1> DEFINE r == request[w]
           s == [r EXCEPT !.pc = "lock"]
           now == Committed'
<1>1. /\ OneWorker /\ SerialGood /\ SerialNext /\ StepsGood' /\ Short'
  BY DEF Stepping
<1>2. At(w, "permit") /\ tasks' = tasks /\ project' = project /\ tally' = tally
  BY DEF Permit
<1>3. Same(settled, Committed) /\ AskedLock(r, settled) /\ r \in Request /\ r.pc = "permit"
  BY <1>1, <1>2, Underway, TheTask
<1>4. Same(settled, now) /\ settled.tasks = tasks
  BY <1>2, <1>3 DEF Same, Committed
<1>5. /\ s \in Request /\ s.op = r.op /\ s.user = r.user /\ s.task = r.task /\ s.pc = "lock"
  BY <1>3, Moved
<1>6. \A u : LocksOf(settled, u) = LockedTasksForUser(u)
  BY <1>4 DEF LocksOf, LockedTasksForUser
<1>7. PICK away \in SUBSET Tasks : request' = IF Permitted(r, away) THEN [request EXCEPT ![w] = s]
                                          ELSE [request EXCEPT ![w] = Idle]
  BY DEF Permit, GoTo, End
<1>8. CASE Permitted(r, away)
  <2>1. request' = [request EXCEPT ![w] = s]
    BY <1>7, <1>8
  <2> HIDE DEF r, s, now
  <2>2. AskedLock(s, settled)
    <3>1. CASE r.op = "lock_mapping"
      BY <1>3, <1>5, <1>6, <1>8, <3>1 DEF AskedLock, Permitted, PermittedToMap
    <3>2. CASE r.op = "lock_validation"
      <4>1. MayLock(s, settled, away)
        BY <1>5, <1>6, <1>8, <3>2 DEF MayLock, Permitted, MayLockForValidation
      <4> QED BY <1>3, <1>5, <3>2, <4>1 DEF AskedLock
    <3> QED BY <1>3, <3>1, <3>2 DEF AskedLock
  <2>3. Progress(s, settled, now)
    BY <1>4, <1>5, <2>2 DEF Progress
  <2> QED BY <1>1, <1>5, <2>1, <2>3, GoesOn DEF now
<1>9. CASE ~Permitted(r, away)
  <2>1. request' = [request EXCEPT ![w] = Idle]
    BY <1>7, <1>9
  <2> QED BY <1>1, <1>4, <2>1, Ends
<1> QED BY <1>8, <1>9
\* Of the user's locks the request looks up all, of the task only its own.
LEMMA LockWhole ==
  ASSUME Stepping, NEW w \in Workers, Lock(w) PROVE WholeStep
<1> DEFINE r == request[w]
           t == r.task
           u == r.user
           task == settled.tasks[t]
           status == LockStatus(r.op)
<1>1. /\ OneWorker /\ SerialGood /\ SerialNext /\ StepsGood' /\ Short'
  BY DEF Stepping
<1>2. At(w, "lock") /\ Len(tasks[t].history) + 1 <= MaxRows
  BY DEF Lock, Room
<1>3. /\ Same(settled, Committed) /\ AskedLock(r, settled) /\ r \in Request /\ r.pc = "lock"
      /\ settled.tasks \in [Tasks -> TaskRecord] /\ t \in Tasks /\ u \in Users
  <2>1. /\ Same(settled, Committed) /\ AskedLock(r, settled) /\ r \in Request /\ r.pc = "lock"
        /\ settled.tasks \in [Tasks -> TaskRecord] /\ t \in Tasks /\ Current(r, tasks[t])
    BY <1>1, <1>2, Underway, TheTask
  <2> HIDE DEF r
  <2> QED BY <2>1 DEF Current, Found
<1>4. settled.tasks = tasks /\ settled.project = project /\ settled.tally = tally
  BY <1>3 DEF Same, Committed
<1>5. /\ tasks' = [settled.tasks EXCEPT ![t] = Whole!LockTask(task, status, u)]
      /\ request' = [request EXCEPT ![w] = Idle]
      /\ UNCHANGED <<project, tally>>
  <2>1. /\ tasks' = [tasks EXCEPT ![t] = LockTask(tasks[t], status, u)]
        /\ request' = [request EXCEPT ![w] = Idle]
        /\ UNCHANGED <<project, tally>>
    BY <1>1, LockResult DEF SerialGood
  <2>2. Whole!LockTask(task, status, u) = LockTask(task, status, u)
    BY WholeOperations
  <2> QED BY <1>4, <2>1, <2>2
<1>6. ASSUME settled' = Committed' PROVE Whole!Next
  <2> HIDE DEF r, u, t
  <2>1. settled'.tasks = tasks' /\ settled'.project = settled.project /\ settled'.tally = settled.tally
    BY <1>4, <1>5, <1>6 DEF Committed
  <2>2. CASE r.op = "lock_mapping"
    <3>1. task.locked_by # u => Whole!IsMappable(task) /\ Whole!PermittedToMap(u, {})
      BY <1>3, <2>2 DEF AskedLock, IsMappable, Whole!IsMappable, Whole!PermittedToMap, Whole!LockedTasksForUser,
                        LocksOf, t, u
    <3>2. status = "LOCKED_FOR_MAPPING"
      BY <2>2 DEF LockStatus
    <3>3. Whole!LockForMapping(u, t, {})
      BY <1>2, <1>4, <1>5, <2>1, <3>1, <3>2 DEF Whole!LockForMapping, Whole!Room
    <3> QED BY <1>3, <3>3 DEF Whole!Next, Whole!LockSome
  <2>3. CASE r.op = "lock_validation"
    <3> DEFINE new == Whole!LockTask(task, status, u)
    <3>1. /\ \/ task.locked_by = u /\ task.status = "LOCKED_FOR_VALIDATION"
             \/ /\ task.status \in {"MAPPED", "INVALIDATED", "BADIMAGERY"}
                /\ Whole!UserCanValidateTask(u, task.mapped_by)
      BY <1>3, <2>3 DEF AskedLock, UserCanValidateTask, Whole!UserCanValidateTask, t, u
    <3>10. PICK away \in SUBSET Tasks : Whole!MayLockForValidation(u, {t}, away)
      BY <1>3, <2>3 DEF AskedLock, MayLock, LocksOf, Whole!MayLockForValidation, Whole!LockedTasksForUser, t, u
    <3>2. status = "LOCKED_FOR_VALIDATION"
      BY <2>3 DEF LockStatus
    <3>3. tasks' = [settled.tasks EXCEPT ![t] = new]
      BY <1>5
    <3>4. \A x \in {t} : x = t
      OBVIOUS
    <3> HIDE DEF new
    <3>5. tasks' = [x \in Tasks |-> IF x \in {t} THEN new ELSE settled.tasks[x]]
      BY <1>3, <3>3
    <3>6. tasks' = [x \in Tasks |-> IF x \in {t} THEN Whole!LockTask(settled.tasks[x], "LOCKED_FOR_VALIDATION", u)
                                    ELSE settled.tasks[x]]
      BY <3>2, <3>5 DEF new
    <3>7. \A x \in {t} :
            /\ \/ settled.tasks[x].locked_by = u /\ settled.tasks[x].status = "LOCKED_FOR_VALIDATION"
               \/ /\ settled.tasks[x].status \in {"MAPPED", "INVALIDATED", "BADIMAGERY"}
                  /\ Whole!UserCanValidateTask(u, settled.tasks[x].mapped_by)
            /\ Whole!Room(x, 1)
      BY <1>2, <1>4, <3>1, <3>4 DEF Whole!Room
    <3>9. Whole!LockTasksForValidation(u, {t}, away)
      <4>1. settled'.tasks = [x \in Tasks |-> IF x \in {t}
                                THEN Whole!LockTask(settled.tasks[x], "LOCKED_FOR_VALIDATION", u)
                                ELSE settled.tasks[x]]
        BY <2>1, <3>6, Zenon
      <4> QED BY <2>1, <3>7, <3>10, <4>1 DEF Whole!LockTasksForValidation
    <3>8. {t} \in (SUBSET Tasks) \ {{}}
      BY <1>3
    <3> QED BY <1>3, <3>8, <3>9 DEF Whole!Next, Whole!LockSome
  <2> QED BY <1>3, <2>2, <2>3 DEF AskedLock
<1> QED BY <1>1, <1>5, <1>6, Ends

LEMMA NotifyWhole ==
  ASSUME Stepping, NEW w \in Workers, Notify(w) PROVE WholeStep
<1> DEFINE r == request[w]
           task == tasks[r.task]
           s == [r EXCEPT !.seen = ColumnsOf(task), !.pc = "count"]
           now == Committed'
<1>1. /\ OneWorker /\ SerialGood /\ SerialNext /\ StepsGood' /\ Short'
  BY DEF Stepping
<1>2. At(w, "notify") /\ tasks' = tasks /\ project' = project /\ tally' = tally
  BY DEF Notify
<1>3. /\ Same(settled, Committed) /\ AskedStatus(r, settled.tasks[r.task]) /\ r \in Request /\ r.pc = "notify"
      /\ r.task \in Tasks /\ settled.tasks[r.task] \in TaskRecord
  BY <1>1, <1>2, Underway, TheTask
<1>4. Same(settled, now) /\ settled.tasks = tasks
  BY <1>2, <1>3 DEF Same, Committed
<1>5. /\ s \in Request /\ s.op = r.op /\ s.user = r.user /\ s.task = r.task /\ s.new = r.new /\ s.pc = "count"
  <2>1. r \in Request /\ task \in TaskRecord
    BY <1>3, <1>4
  <2> HIDE DEF r, task
  <2> QED BY <2>1, Reloaded
<1>6. \/ request' = [request EXCEPT ![w] = s]
      \/ request' = [request EXCEPT ![w] = Idle]
  BY DEF Notify, End, Columns, ColumnsOf
<1>7. CASE request' = [request EXCEPT ![w] = s]
  <2> HIDE DEF r, s, now
  <2>1. AskedStatus(s, settled.tasks[r.task])
    BY <1>3, <1>5 DEF AskedStatus
  <2>2. Progress(s, settled, now)
    BY <1>4, <1>5, <2>1 DEF Progress
  <2> QED BY <1>1, <1>5, <1>7, <2>2, GoesOn DEF now
<1>8. CASE request' = [request EXCEPT ![w] = Idle]
  BY <1>1, <1>4, <1>8, Ends
<1> QED BY <1>6, <1>7, <1>8

\* The counters are read when nothing is committed yet.
LEMMA CountWhole ==
  ASSUME Stepping, NEW w \in Workers, Count(w) PROVE WholeStep
<1> DEFINE r == request[w]
           t == r.task
           h == tasks[t].history
           undo == r.op = "undo"
           credited == IF undo THEN GetLastAction(h).user ELSE r.user
           c == [last |-> IF undo THEN r.seen.status ELSE GetLastStatus(h),
                 project |-> project, user |-> credited, credits |-> tally[credited]]
           s == [r EXCEPT !.counts = c, !.pc = "rows"]
           now == Committed'
<1>1. /\ OneWorker /\ SerialGood /\ SerialNext /\ StepsGood' /\ Short'
  BY DEF Stepping
<1>2. /\ At(w, "count") /\ tasks' = tasks /\ project' = project /\ tally' = tally
      /\ request' = [request EXCEPT ![w] = s]
  BY DEF Count
<1>3. /\ Same(settled, Committed) /\ AskedStatus(r, settled.tasks[t]) /\ r \in Request /\ r.pc = "count"
      /\ t \in Tasks /\ Current(r, tasks[t])
  BY <1>1, <1>2, Underway, TheTask
<1>4. /\ Same(settled, now) /\ settled.tasks = tasks /\ settled.project = project /\ settled.tally = tally
  BY <1>2, <1>3 DEF Same, Committed
<1>5. r.seen.status = tasks[t].status
  BY <1>3 DEF Current, ColumnsOf
<1>6. c = CountsOf(r, settled)
  BY <1>4, <1>5 DEF CountsOf
<1>7. request'[w] = s /\ s.op = r.op /\ r.op # "none"
  <2> HIDE DEF r, c
  <2>1. s.op = r.op /\ r.op # "none"
    BY <1>3 DEF Request
  <2> HIDE DEF s
  <2> QED BY <1>1, <1>2, <2>1 DEF SerialGood, StepsGood
<1> HIDE DEF r, c
<1>8. s \in Request
  <2> HIDE DEF s
  <2> QED BY <1>1, <1>7 DEF StepsGood, Idle
<1>9. s.user = r.user /\ s.task = t /\ s.new = r.new /\ s.pc = "rows" /\ s.counts = c
  BY <1>3 DEF Request
<1>10. CountsOf(s, settled) = CountsOf(r, settled)
  BY <1>7, <1>9 DEF CountsOf
<1>11. c # NoCounts
  <2>1. DOMAIN c = {"last", "project", "user", "credits"} /\ DOMAIN NoCounts = {"last"}
    BY DEF c, NoCounts
  <2> QED BY <2>1
<1> HIDE DEF s, now, t
<1>12. AskedStatus(s, settled.tasks[t])
  BY <1>3, <1>7, <1>9 DEF AskedStatus
<1>13. CountsKept(settled, now) /\ now.tasks = settled.tasks
  BY <1>4 DEF Same, CountsKept
<1>14. Progress(s, settled, now)
  BY <1>6, <1>9, <1>10, <1>11, <1>12, <1>13 DEF Progress
<1> QED BY <1>1, <1>2, <1>8, <1>14, GoesOn DEF now

\* What an UPDATE writes of counters that nobody else has changed.
LEMMA CountsWritten ==
  ASSUME SerialGood, NEW r \in Request, WriteCounts(r), NEW c, c = CountsOf(r, settled), r.counts = c,
         CountsKept(settled, Committed), c.user \in Users, c # NoCounts
  PROVE  CountsMade(r, settled, Committed')
<1> DEFINE action == IF r.op = "undo" THEN "undo" ELSE "change"
           set == Recount(c.project, c.last, r.new)
           credits == Credit(c.credits, c.last, r.new, action)
<1>1. /\ project' = [s \in Counted |-> Written(project[s], c.project[s], set[s])]
      /\ tally' = [tally EXCEPT ![c.user] =
                [s \in Tallied |-> Written(@[s], c.credits[s], credits[s])]]
  BY DEF WriteCounts
<1>2. /\ c.project = project /\ settled.project = project /\ settled.tally = tally
      /\ c.credits = tally[c.user]
  BY DEF CountsOf, CountsKept, Committed
<1>3. tally \in [Users -> [Tallied -> Int]] /\ tally[c.user] \in [Tallied -> Int]
  BY DEF SerialGood, StepsGood, TypeOK
<1>5. set = [s \in Counted |-> set[s]]
  BY DEF Recount
<1>6. credits = [s \in Tallied |-> credits[s]]
  BY <1>2, <1>3 DEF Credit
<1> HIDE DEF set, credits
<1>7. project' = set
  BY <1>1, <1>2, <1>5, WrittenBack
<1>8. [s \in Tallied |-> Written(tally[c.user][s], c.credits[s], credits[s])] = [s \in Tallied |-> credits[s]]
  BY <1>2, WrittenBack
<1>9. tally' = [tally EXCEPT ![c.user] = credits]
  BY <1>1, <1>6, <1>8
<1> QED BY <1>2, <1>7, <1>9 DEF CountsMade, Committed, set, credits

\* Whether written before or with the rows, the counters are what a whole
\* request makes them.
LEMMA RowsCounts ==
  ASSUME Stepping, NEW w \in Workers, At(w, "rows"), WriteCounts(request[w])
  PROVE  CountsMade(request[w], settled, Committed')
<1> DEFINE r == request[w]
           task == settled.tasks[r.task]
           c == CountsOf(r, settled)
<1>1. SerialGood
  BY DEF Stepping
<1>2. /\ r \in Request /\ settled.tasks = tasks /\ Consistent(task) /\ Current(r, task) /\ r.pc = "rows"
      /\ IF r.counts = NoCounts THEN CountsMade(r, settled, Committed)
         ELSE CountsKept(settled, Committed) /\ r.counts = c
  BY <1>1, Underway, TheTask
<1>3. CASE r.counts = NoCounts
  <2>1. project' = project /\ tally' = tally
    BY <1>3 DEF WriteCounts
  <2> QED BY <1>2, <1>3, <2>1 DEF CountsMade, Committed
<1>4. CASE r.counts # NoCounts
  <2>1. r.op \in {"unlock", "undo"}
    BY <1>2 DEF Current, Found
  <2>2. c.user \in Users
    BY <1>2, <2>1, CreditedUser DEF CountsOf
  <2> HIDE DEF r, c
  <2>3. r = request[w] /\ c = CountsOf(r, settled)
    BY DEF r, c
  <2> QED BY <1>1, <1>2, <1>4, <2>2, <2>3, CountsWritten
<1> QED BY <1>3, <1>4
LEMMA CommitCountsWhole ==
  ASSUME Stepping, NEW w \in Workers, CommitCounts(w) PROVE WholeStep
<1> DEFINE r == request[w]
           t == r.task
           task == tasks[t]
           s == [r EXCEPT !.counts = NoCounts, !.seen = ColumnsOf(task)]
           now == Committed'
<1>1. /\ OneWorker /\ SerialGood /\ SerialNext /\ StepsGood' /\ Short'
  BY DEF Stepping
<1>2. /\ At(w, "rows") /\ WriteCounts(r) /\ tasks' = tasks
      /\ request' = [request EXCEPT ![w] = s]
  BY DEF CommitCounts, Columns, ColumnsOf
<1>3. /\ AskedStatus(r, settled.tasks[t]) /\ r \in Request /\ settled.tasks = tasks
      /\ t \in Tasks /\ tasks[t] \in TaskRecord /\ r.pc = "rows"
  BY <1>1, <1>2, Underway, TheTask
<1>4. CountsMade(r, settled, now)
  BY <1>2, RowsCounts
<1>5. /\ s \in Request /\ s.op = r.op /\ s.user = r.user /\ s.task = r.task /\ s.new = r.new
      /\ s.pc = "rows" /\ s.counts = NoCounts
  <2> HIDE DEF r, task
  <2> QED BY <1>3, Recounted DEF task
<1>6. now.tasks = settled.tasks
  BY <1>2, <1>3 DEF Committed
<1> HIDE DEF r, s, now
<1>7. CountsMade(s, settled, now) /\ AskedStatus(s, settled.tasks[t])
  BY <1>3, <1>4, <1>5 DEF CountsMade, CountsOf, AskedStatus
<1>8. Progress(s, settled, now)
  BY <1>5, <1>6, <1>7 DEF Progress, t
<1> QED BY <1>1, <1>2, <1>5, <1>8, GoesOn DEF now

\* An unlock or an undo that has written everything is a whole one.
LEMMA UnlockIsWhole ==
  ASSUME Stepping, NEW r \in Request, r.task \in Tasks, r.op \in {"unlock", "undo"}, FALSE \in Comments,
         r.user \in Users,
         LET task == settled.tasks[r.task]
             undo == r.op = "undo"
         IN  /\ AskedStatus(r, task) /\ CountsMade(r, settled, Committed')
             /\ Len(task.history) + (IF undo THEN 2 ELSE 1) <= MaxRows
             /\ tasks' = [settled.tasks EXCEPT ![r.task] = UnlockTask(task, r.user, r.new, undo, undo)],
         settled' = Committed'
  PROVE  Whole!Next
<1> DEFINE t == r.task
           task == settled.tasks[t]
           u == r.user
           new == r.new
           h == task.history
<1>1. AskedStatus(r, task) /\ CountsMade(r, settled, Committed')
  OBVIOUS
<1>2. /\ settled'.tasks = tasks' /\ settled'.project = Committed'.project /\ settled'.tally = Committed'.tally
  BY DEF Committed
<1>3. r.op = "unlock" => new \in TaskStatus
  BY <1>1 DEF AskedStatus, TaskStatus
<1>4. Whole!TaskStatus = TaskStatus
  BY DEF Whole!TaskStatus, TaskStatus
<1>5. ASSUME NEW user, NEW last, NEW action, r.op = "undo" <=> action = "undo", action \in {"change", "undo"},
             CountsOf(r, settled).user = user, CountsOf(r, settled).last = last
      PROVE  Whole!UpdateStats(user, last, new, action)
  <2> DEFINE c == CountsOf(r, settled)
             a == IF r.op = "undo" THEN "undo" ELSE "change"
  <2>1. a = action
    BY <1>5
  <2>2. c.project = settled.project /\ c.credits = settled.tally[user] /\ c.user = user /\ c.last = last
    BY <1>5 DEF CountsOf
  <2>3. /\ settled'.project = Recount(c.project, c.last, new)
        /\ settled'.tally = [settled.tally EXCEPT ![c.user] = Credit(c.credits, c.last, new, a)]
    BY <1>1, <1>2 DEF CountsMade
  <2> HIDE DEF c, a, new
  <2>4. /\ settled'.project = Whole!Recount(settled.project, last, new)
        /\ settled'.tally = [settled.tally EXCEPT ![user] = Whole!Credit(settled.tally[user], last, new, action)]
    BY <2>1, <2>2, <2>3, WholeStats
  <2> QED BY <2>4 DEF Whole!UpdateStats
<1>6. CASE r.op = "unlock"
  <2>1. /\ tasks' = [settled.tasks EXCEPT ![t] = Whole!UnlockTask(task, u, new, FALSE, FALSE)]
        /\ Len(h) + 1 <= MaxRows
    <3>1. (r.op = "undo") = FALSE
      BY <1>6
    <3>2. /\ tasks' = [settled.tasks EXCEPT ![t] = UnlockTask(task, u, new, FALSE, FALSE)]
          /\ Len(h) + 1 <= MaxRows
      BY <3>1
    <3> QED BY <3>2, WholeUnlockTask
  <2>2. CountsOf(r, settled).user = u /\ CountsOf(r, settled).last = Whole!GetLastStatus(h)
    BY <1>6, WholeQueries DEF CountsOf
  <2>3. Whole!UpdateStats(u, Whole!GetLastStatus(h), new, "change")
    BY <1>5, <1>6, <2>2
  <2> HIDE DEF t, u, h, new
  <2>4. settled'.tasks = [settled.tasks EXCEPT ![t] = Whole!UnlockTask(task, u, new, FALSE, FALSE)]
    BY <1>2, <2>1
  <2>5. Whole!Room(t, 1 + Whole!One(FALSE))
    BY <2>1 DEF Whole!Room, Whole!One, h
  <2> HIDE DEF task
  <2>6. task = settled.tasks[t] /\ h = task.history
    BY DEF task, h
  <2>7. CASE task.status = "LOCKED_FOR_MAPPING" /\ task.locked_by = u /\ new \in {"MAPPED", "BADIMAGERY", "READY"}
    <3>1. Whole!UnlockAfterMapping(u, t, new, FALSE)
      BY <2>3, <2>4, <2>5, <2>6, <2>7 DEF Whole!UnlockAfterMapping, Whole!LockedForMappingBy
    <3>2. \E n \in Whole!TaskStatus, comment \in Comments : Whole!UnlockAfterMapping(u, t, n, comment)
      BY <1>3, <1>4, <1>6, <3>1
    <3> QED BY <3>2 DEF Whole!Next, Whole!UserStep, t, u
  <2>8. CASE /\ task.status = "LOCKED_FOR_VALIDATION" /\ task.locked_by = u
             /\ new \in {"MAPPED", "INVALIDATED", "VALIDATED"}
             /\ new \in {"INVALIDATED", "VALIDATED"} => task.mapped_by # NoUser
    <3>1. Whole!UnlockAfterValidation(u, t, new, FALSE)
      BY <2>3, <2>4, <2>5, <2>6, <2>8 DEF Whole!UnlockAfterValidation, Whole!LockedForValidationBy
    <3>2. \E n \in Whole!TaskStatus, comment \in Comments : Whole!UnlockAfterValidation(u, t, n, comment)
      BY <1>3, <1>4, <1>6, <3>1
    <3> QED BY <3>2 DEF Whole!Next, Whole!UserStep, t, u
  <2> QED BY <1>1, <1>6, <2>7, <2>8 DEF AskedStatus, u, new
<1>7. CASE r.op = "undo"
  <2>1. /\ tasks' = [settled.tasks EXCEPT ![t] = Whole!UnlockTask(task, u, new, TRUE, TRUE)]
        /\ Len(h) + 2 <= MaxRows
    <3>1. (r.op = "undo") = TRUE
      BY <1>7
    <3>2. /\ tasks' = [settled.tasks EXCEPT ![t] = UnlockTask(task, u, new, TRUE, TRUE)]
          /\ Len(h) + 2 <= MaxRows
      BY <3>1
    <3> QED BY <3>2, WholeUnlockTask
  <2>2. /\ task.status \notin LockedStatus \cup {"READY"}
        /\ GetLastAction(h).user = u \/ IsTrue(PermittedToValidate(u))
        /\ new = Whole!GetUndoStatus(h)
    BY <1>1, <1>7, WholeQueries DEF AskedStatus
  <2>3. Whole!IsTaskUndoable(u, t)
    BY <2>2, WholeQueries DEF Whole!IsTaskUndoable, Whole!LockedStatus, LockedStatus, Whole!IsTrue, IsTrue,
       Whole!PermittedToValidate, PermittedToValidate
  <2>4. CountsOf(r, settled).user = Whole!GetLastAction(h).user /\ CountsOf(r, settled).last = task.status
    BY <1>7, WholeQueries DEF CountsOf
  <2>5. Whole!UpdateStats(Whole!GetLastAction(h).user, task.status, new, "undo")
    BY <1>5, <1>7, <2>4
  <2> HIDE DEF t, u, h, new
  <2>6. settled'.tasks = [settled.tasks EXCEPT ![t] = Whole!UnlockTask(task, u, new, TRUE, TRUE)]
    BY <1>2, <2>1
  <2>7. Whole!Room(t, 2)
    BY <2>1 DEF Whole!Room, h
  <2>8. Whole!UndoMapping(u, t)
    BY <2>2, <2>3, <2>5, <2>6, <2>7 DEF Whole!UndoMapping, h
  <2> QED BY <2>8 DEF Whole!Next, Whole!UserStep, t, u
<1> QED BY <1>6, <1>7

LEMMA RowsWhole ==
  ASSUME Stepping, FALSE \in Comments, NEW w \in Workers, Rows(w) PROVE WholeStep
<1> DEFINE r == request[w]
           t == r.task
           task == settled.tasks[t]
           undo == r.op = "undo"
           set == UnlockTask(task, r.user, r.new, undo, undo)
           s == [r EXCEPT !.counts = NoCounts, !.pc = "finish"]
           now == Committed'
<1>1. /\ OneWorker /\ SerialGood /\ SerialNext /\ StepsGood' /\ Short'
  BY DEF Stepping
<1>2. /\ At(w, "rows") /\ WriteCounts(r)
      /\ Len(tasks[t].history) + (IF undo THEN 2 ELSE 1) <= MaxRows
  BY DEF Rows, Room
<1>3. /\ AskedStatus(r, task) /\ r \in Request /\ settled.tasks = tasks /\ t \in Tasks
      /\ Current(r, tasks[t]) /\ r.pc = "rows"
  BY <1>1, <1>2, Underway, TheTask
<1>4. CountsMade(r, settled, now)
  BY <1>2, RowsCounts
<1>5. /\ r.op \in {"unlock", "undo"}
      /\ IF HasRow(r)
         THEN /\ r.op = "unlock"
              /\ tasks' = [tasks EXCEPT ![t] = StillHeld(task, set)]
              /\ request' = [request EXCEPT ![w] = s]
         ELSE /\ tasks' = [tasks EXCEPT ![t] = set]
              /\ request' = [request EXCEPT ![w] = Idle]
  BY <1>1, <1>3, RowsResult DEF SerialGood
<1>6. now.tasks = tasks'
  BY DEF Committed
<1>7. CASE HasRow(r)
  <2>1. /\ s \in Request /\ s.op = "unlock" /\ s.user = r.user /\ s.task = r.task /\ s.new = r.new
        /\ s.pc = "finish"
    <3> HIDE DEF r
    <3> QED BY <1>3, <1>5, <1>7 DEF Request
  <2>2. (r.op = "undo") = FALSE
    BY <1>5, <1>7
  <2>3. /\ set = UnlockTask(task, r.user, r.new, FALSE, FALSE)
        /\ Len(task.history) + 1 <= MaxRows
    BY <1>2, <1>3, <2>2
  <2> HIDE DEF r, s, now, set
  <2>4. CountsMade(s, settled, now) /\ AskedStatus(s, task)
    BY <1>3, <1>4, <1>5, <1>7, <2>1 DEF CountsMade, CountsOf, AskedStatus
  <2>5. Progress(s, settled, now)
    BY <1>3, <1>5, <1>6, <1>7, <2>1, <2>3, <2>4 DEF Progress, t
  <2> QED BY <1>1, <1>5, <1>7, <2>1, <2>5, GoesOn DEF now
<1>8. CASE ~HasRow(r)
  <2>1. r.user \in Users
    BY <1>3, <1>5 DEF Current
  <2>2. /\ Len(task.history) + (IF undo THEN 2 ELSE 1) <= MaxRows
        /\ tasks' = [settled.tasks EXCEPT ![t] = set]
        /\ request' = [request EXCEPT ![w] = Idle]
    BY <1>2, <1>3, <1>5, <1>8
  <2>3. settled' = now => Whole!Next
    BY <1>3, <1>4, <1>5, <2>1, <2>2, UnlockIsWhole
  <2> QED BY <1>1, <2>2, <2>3, Ends
<1> QED BY <1>7, <1>8

\* Taking the lock off completes the unlock.
LEMMA FinishWhole ==
  ASSUME Stepping, FALSE \in Comments, NEW w \in Workers, Finish(w) PROVE WholeStep
<1> DEFINE r == request[w]
           t == r.task
           task == settled.tasks[t]
           set == UnlockTask(task, r.user, r.new, FALSE, FALSE)
           held == StillHeld(task, set)
           done == [held EXCEPT !.status = r.new, !.locked_by = NoUser]
<1>1. /\ OneWorker /\ SerialGood /\ SerialNext /\ StepsGood' /\ Short'
  BY DEF Stepping
<1>2. /\ At(w, "finish") /\ project' = project /\ tally' = tally
      /\ tasks' = [tasks EXCEPT ![r.task].status = r.new, ![r.task].locked_by = NoUser]
      /\ request' = [request EXCEPT ![w] = Idle]
  BY DEF Finish, End
<1>3. /\ r.op = "unlock" /\ AskedStatus(r, task) /\ CountsMade(r, settled, Committed)
      /\ Len(task.history) + 1 <= MaxRows
      /\ tasks = [settled.tasks EXCEPT ![t] = held]
      /\ r \in Request /\ t \in Tasks /\ settled.tasks \in [Tasks -> TaskRecord]
      /\ task \in TaskRecord /\ Consistent(task)
  BY <1>1, <1>2, Underway, TheTask
<1>4. /\ r.user \in Users /\ r.new \in UnlockedStatus /\ IsLocked(task)
  <2>1. task.locked_by # NoUser /\ r.user \in UserOrNone
    <3>1. IsLocked(task) /\ task.locked_by = r.user
      BY <1>3 DEF AskedStatus, IsLocked, LockedStatus
    <3>2. r.user \in UserOrNone
      <4> HIDE DEF r
      <4> QED BY <1>3 DEF Request
    <3> HIDE DEF r, task
    <3> QED BY <1>3, <3>1, <3>2 DEF Consistent
  <2>2. task.locked_by = r.user /\ IsLocked(task) /\ r.new \in UnlockedStatus
    BY <1>3 DEF AskedStatus, IsLocked, LockedStatus, UnlockedStatus, TaskStatus
  <2> QED BY <2>1, <2>2 DEF UserOrNone
<1>5. /\ set \in TaskRecord /\ set.status = r.new /\ set.locked_by = NoUser
  <2> HIDE DEF task, r
  <2>1. AtRest(set, r.new)
    BY <1>3, <1>4, UnlockConsistent
  <2> HIDE DEF set
  <2> QED BY <2>1 DEF AtRest, GoodTask
<1> HIDE DEF set, task, r, t
<1>6. /\ held \in TaskRecord
      /\ held.mapped_by = set.mapped_by /\ held.validated_by = set.validated_by
      /\ held.history = set.history /\ held.invalidations = set.invalidations
  BY <1>3, <1>5, StillHeldType
<1> HIDE DEF held
<1>7. /\ done \in TaskRecord /\ done.status = r.new /\ done.locked_by = NoUser
      /\ done.mapped_by = held.mapped_by /\ done.validated_by = held.validated_by
      /\ done.history = held.history /\ done.invalidations = held.invalidations
  <2>1. r.new \in TaskStatus /\ NoUser \in UserOrNone
    BY <1>4 DEF UnlockedStatus, TaskStatus, UserOrNone
  <2> QED BY <1>6, <2>1 DEF TaskRecord
<1>8. tasks[t] = held
  BY <1>3
<1>9. tasks' = [tasks EXCEPT ![t] = done]
  <2>1. tasks \in [Tasks -> TaskRecord]
    BY <1>1 DEF SerialGood, StepsGood, TypeOK
  <2> QED BY <1>2, <1>3, <1>8, <2>1 DEF t
<1> HIDE DEF done
<1>10. done = set
  BY <1>5, <1>6, <1>7, SameTask
<1>11. tasks' = [settled.tasks EXCEPT ![t] = set]
  BY <1>3, <1>9, <1>10
<1>12. CountsMade(r, settled, Committed')
  BY <1>2, <1>3 DEF CountsMade, Committed
<1>13. settled' = Committed' => Whole!Next
  <2>1. (r.op = "undo") = FALSE
    BY <1>3
  <2> QED BY <1>3, <1>4, <1>11, <1>12, <2>1, UnlockIsWhole DEF t, task, set
<1> QED BY <1>1, <1>2, <1>13, Ends
\* The rows of a lock are dealt with while the task stays locked.
LEMMA DealtWhole ==
  ASSUME Stepping, NEW w \in Workers, Close(w) \/ Expire(w) PROVE WholeStep
<1> DEFINE r == request[w]
           t == r.task
           task == settled.tasks[t]
           next == IF Close(w) THEN IF r.op = "extend" THEN "extend" ELSE "load" ELSE "load"
           s == [r EXCEPT !.pc = next]
           now == Committed'
<1>1. /\ OneWorker /\ SerialGood /\ SerialNext /\ StepsGood' /\ Short'
  BY DEF Stepping
<1>2. PICK pc \in {"close", "expire"} :
         /\ At(w, pc) /\ project' = project /\ tally' = tally
         /\ request' = [request EXCEPT ![w] = s]
         /\ pc = "close" =>
              /\ tasks' = [tasks EXCEPT ![t].history = CloseLock(@, r.seen.status, r.user)]
         /\ pc = "expire" => tasks' = [tasks EXCEPT ![t].history = ExpireRows(@, r.cut)]
  <2>1. CASE Close(w)
    BY <2>1 DEF Close, GoTo
  <2>2. CASE ~Close(w) /\ Expire(w)
    BY <2>2 DEF Expire, GoTo
  <2> QED BY <2>1, <2>2
<1>3. /\ Same(settled, Committed) /\ AskedRelease(r, task) /\ r \in Request /\ t \in Tasks
      /\ settled.tasks \in [Tasks -> TaskRecord] /\ Current(r, tasks[t]) /\ r.pc = pc
  BY <1>1, <1>2, Underway, TheTask
<1>4. /\ settled.tasks = tasks /\ CountsKept(settled, now) /\ now.tasks = tasks'
  BY <1>2, <1>3 DEF Same, CountsKept, Committed
<1>5. r.op = "sweep" <=> pc = "expire"
  <2> HIDE DEF r
  <2> QED BY <1>2, <1>3 DEF Current, Found
<1>6. next \in {"extend", "load"}
  OBVIOUS
<1> HIDE DEF next
<1>7. /\ s \in Request /\ s.op = r.op /\ s.user = r.user /\ s.task = t /\ s.new = r.new
      /\ s.cut = r.cut /\ s.pc = next
  <2> HIDE DEF r
  <2> QED BY <1>3, <1>6 DEF Request
<1>8. pc = "close" => r.seen.status = task.status
  BY <1>3, <1>4 DEF Current, ColumnsOf
<1>9. tasks' = [settled.tasks EXCEPT ![t] = Dealt(r, task)]
  <2> HIDE DEF r, t
  <2>1. CASE pc = "close"
    BY <1>2, <1>4, <1>5, <1>8, <2>1 DEF Dealt
  <2>2. CASE pc = "expire"
    BY <1>2, <1>4, <1>5, <2>2 DEF Dealt
  <2> QED BY <2>1, <2>2
<1> HIDE DEF r, s, now, task
<1>10. Dealt(s, task) = Dealt(r, task) /\ AskedRelease(s, task)
  BY <1>3, <1>7 DEF Dealt, AskedRelease
<1>11. Progress(s, settled, now)
  BY <1>4, <1>6, <1>7, <1>9, <1>10 DEF Progress, task
<1> QED BY <1>1, <1>2, <1>7, <1>11, GoesOn DEF now

LEMMA ExtendWhole ==
  ASSUME Stepping, NEW w \in Workers, Extend(w) PROVE WholeStep
<1> DEFINE r == request[w]
           t == r.task
           u == r.user
           task == settled.tasks[t]
           g == CloseLock(task.history, task.status, u)
           row == LockRow(ExtendAction(task.status), u)
<1>1. /\ OneWorker /\ SerialGood /\ SerialNext /\ StepsGood' /\ Short'
  BY DEF Stepping
<1>2. /\ At(w, "extend") /\ project' = project /\ tally' = tally
      /\ request' = [request EXCEPT ![w] = Idle]
      /\ Len(tasks[t].history) + 1 <= MaxRows
      /\ tasks' = [tasks EXCEPT ![t].history = Append(@, row)]
  BY DEF Extend, Room, End, ExtendAction
<1>3. /\ CountsKept(settled, Committed) /\ AskedRelease(r, task) /\ r \in Request /\ t \in Tasks
      /\ settled.tasks \in [Tasks -> TaskRecord] /\ task.history \in Seq(Row) /\ task \in TaskRecord
      /\ tasks = [settled.tasks EXCEPT ![t] = Dealt(r, task)]
      /\ Current(r, tasks[t]) /\ r.pc = "extend"
  BY <1>1, <1>2, Underway, TheTask
<1>4. r.op = "extend" /\ u \in Users
  <2> HIDE DEF r, t
  <2> QED BY <1>3 DEF Current, Found, u
<1>5. task.status \in LockedStatus /\ task.locked_by = u
  BY <1>3, <1>4 DEF AskedRelease
<1>6. Len(g) = Len(task.history)
  BY <1>3, <1>5, CloseLockKeeps
<1> HIDE DEF r, t, u, task
<1>7. Dealt(r, task) = [task EXCEPT !.history = g]
  BY <1>4 DEF Dealt, u
<1> HIDE DEF g, row
<1>8. tasks[t] = [task EXCEPT !.history = g] /\ tasks[t].history = g
  BY <1>3, <1>7 DEF TaskRecord
<1>9. [tasks[t] EXCEPT !.history = Append(g, row)] = [task EXCEPT !.history = Append(g, row)]
  BY <1>8
<1>10. tasks' = [tasks EXCEPT ![t] = [tasks[t] EXCEPT !.history = Append(g, row)]]
  BY <1>2, <1>8
<1>11. tasks' = [settled.tasks EXCEPT ![t] = [task EXCEPT !.history = Append(g, row)]]
  <2> DEFINE a == [task EXCEPT !.history = Append(g, row)]
  <2>1. tasks' = [tasks EXCEPT ![t] = a]
    BY <1>9, <1>10
  <2> HIDE DEF a
  <2>2. tasks' = [settled.tasks EXCEPT ![t] = a]
    BY <1>3, <2>1
  <2> QED BY <2>2 DEF a
<1>12. [task EXCEPT !.history = Append(g, row)] = Whole!ExtendLock(task, u)
  <2>1. [task EXCEPT !.history = Append(g, row)] = ExtendLock(task, u)
    BY DEF ExtendLock, g, row
  <2> QED BY <2>1, WholeOperations
<1>13. settled' = Committed' => Whole!ExtendTaskLockTime(u, t)
  <2> SUFFICES ASSUME settled' = Committed' PROVE Whole!ExtendTaskLockTime(u, t)
    OBVIOUS
  <2>1. settled'.project = settled.project /\ settled'.tally = settled.tally
    BY <1>2, <1>3 DEF CountsKept, Committed
  <2>2. settled'.tasks = [settled.tasks EXCEPT ![t] = Whole!ExtendLock(settled.tasks[t], u)]
    BY <1>11, <1>12 DEF Committed, task
  <2>3. Whole!IsLocked(task)
    BY <1>5 DEF Whole!IsLocked, Whole!LockedStatus, LockedStatus
  <2>4. Len(task.history) + 1 <= MaxRows
    BY <1>2, <1>6, <1>8
  <2> QED BY <1>5, <2>1, <2>2, <2>3, <2>4 DEF Whole!ExtendTaskLockTime, Whole!Room, task
<1>14. settled' = Committed' => Whole!Next
  BY <1>3, <1>4, <1>13 DEF Whole!Next, Whole!UserStep
<1> QED BY <1>1, <1>2, <1>14, Ends

\* A sweep, or a stop, that has dealt with the rows and left the columns, or
\* taken the lock off, is a whole one.
LEMMA ReleaseIsWhole ==
  ASSUME Stepping, NEW r \in Request, r.task \in Tasks, r.user \in UserOrNone, r.op \in {"stop", "sweep"},
         FALSE \in Comments, r.op = "stop" => r.user \in Users, NEW task, task = settled.tasks[r.task],
         NEW h, h = Dealt(r, task).history,
         AskedRelease(r, task), CountsKept(settled, Committed'), task \in TaskRecord,
         Len(task.history) <= MaxRows,
         tasks' = [settled.tasks EXCEPT ![r.task] =
                     IF r.op = "stop" \/ h[LastLockedOrAutoUnlocked(h)].action \in AutoActions
                     THEN ClearLock(Dealt(r, task)) ELSE Dealt(r, task)],
         settled' = Committed'
  PROVE  Whole!Next
<1> DEFINE t == r.task
           u == r.user
<1>1. /\ settled'.tasks = tasks' /\ settled'.project = settled.project /\ settled'.tally = settled.tally
  BY DEF Committed, CountsKept
<1>2. CASE r.op = "stop"
  <2>1. tasks' = [settled.tasks EXCEPT ![t] = ClearLock(Dealt(r, task))]
    BY <1>2
  <2>2. ClearLock(Dealt(r, task)) = Whole!ResetLock(task, u, FALSE)
    <3>1. ClearLock(Dealt(r, task)) = ResetLock(task, u, FALSE)
      BY <1>2 DEF Dealt, ResetLock, Commented
    <3> QED BY <3>1, WholeOperations
  <2>3. task.status \in {"LOCKED_FOR_MAPPING", "LOCKED_FOR_VALIDATION"} /\ task.locked_by = u
    BY <1>2 DEF AskedRelease, LockedStatus
  <2>4. Whole!Room(t, Whole!One(FALSE))
    <3>1. Len(task.history) \in Nat
      BY Positions DEF TaskRecord
    <3> QED BY <3>1 DEF Whole!Room, Whole!One
  <2>5. settled'.tasks = [settled.tasks EXCEPT ![t] = Whole!ResetLock(settled.tasks[t], u, FALSE)]
    BY <1>1, <2>1, <2>2
  <2>6. CASE task.status = "LOCKED_FOR_MAPPING"
    <3>1. Whole!StopMapping(u, t, FALSE)
      BY <1>1, <2>3, <2>4, <2>5, <2>6 DEF Whole!StopMapping, Whole!LockedForMappingBy
    <3>2. \E comment \in Comments : Whole!StopMapping(u, t, comment)
      BY <3>1
    <3> QED BY <1>2, <3>2 DEF Whole!Next, Whole!UserStep
  <2>7. CASE task.status = "LOCKED_FOR_VALIDATION"
    <3>1. Whole!StopValidating(u, t, FALSE)
      BY <1>1, <2>3, <2>4, <2>5, <2>7 DEF Whole!StopValidating, Whole!LockedForValidationBy
    <3>2. \E comment \in Comments : Whole!StopValidating(u, t, comment)
      BY <3>1
    <3> QED BY <1>2, <3>2 DEF Whole!Next, Whole!UserStep
  <2> QED BY <2>3, <2>6, <2>7
<1>3. CASE r.op = "sweep"
  <2> DEFINE k == r.cut
  <2>1. /\ task.status \in LockedStatus /\ k \in DOMAIN task.history
        /\ \E i \in OpenLockRows(task.history) : i <= k
    BY <1>3 DEF AskedRelease
  <2>2. Dealt(r, task) = [task EXCEPT !.history = ExpireRows(@, k)]
    BY <1>3 DEF Dealt
  <2>3. AutoUnlock(task, k) = IF h[LastLockedOrAutoUnlocked(h)].action \in AutoActions
                              THEN ClearLock(Dealt(r, task)) ELSE Dealt(r, task)
    BY <2>2, Zenon DEF AutoUnlock
  <2>4. tasks' = [settled.tasks EXCEPT ![t] = AutoUnlock(task, k)]
    <3>1. (r.op = "stop") = FALSE
      BY <1>3
    <3> QED BY <2>3, <3>1
  <2>5. settled'.tasks = [settled.tasks EXCEPT ![t] = Whole!AutoUnlock(settled.tasks[t], k)]
    <3>1. Whole!AutoUnlock(task, k) = AutoUnlock(task, k)
      BY WholeOperations
    <3> QED BY <1>1, <2>4, <3>1
  <2>6. Whole!IsLocked(task) /\ \E i \in Whole!OpenLockRows(task.history) : i <= k
    BY <2>1, WholeQueries DEF Whole!IsLocked, Whole!LockedStatus, LockedStatus
  <2>7. Whole!AutoUnlockTask(t, k)
    BY <1>1, <2>5, <2>6 DEF Whole!AutoUnlockTask
  <2> QED BY <2>1, <2>7 DEF Whole!Next, Whole!AutoUnlockStep
<1> QED BY <1>2, <1>3
LEMMA LoadWhole ==
  ASSUME Stepping, FALSE \in Comments, NEW w \in Workers, Load(w) PROVE WholeStep
<1> DEFINE r == request[w]
           t == r.task
           task == settled.tasks[t]
           h == Dealt(r, task).history
           row == tasks[t]
           s == [r EXCEPT !.seen = ColumnsOf(row), !.pc = "clear"]
           now == Committed'
           goes == r.op = "stop" \/ h[LastLockedOrAutoUnlocked(h)].action \in AutoActions
<1>1. /\ OneWorker /\ SerialGood /\ SerialNext /\ StepsGood' /\ Short'
  BY DEF Stepping
<1>2. At(w, "load") /\ tasks' = tasks /\ project' = project /\ tally' = tally
  BY DEF Load
<1>3. /\ CountsKept(settled, Committed) /\ AskedRelease(r, task) /\ r \in Request /\ t \in Tasks
      /\ settled.tasks \in [Tasks -> TaskRecord] /\ task \in TaskRecord
      /\ Len(task.history) <= MaxRows
      /\ tasks = [settled.tasks EXCEPT ![t] = Dealt(r, task)]
      /\ Current(r, tasks[t]) /\ r.pc = "load"
  BY <1>1, <1>2, Underway, TheTask
<1>4. CountsKept(settled, now) /\ now.tasks = tasks
  BY <1>2, <1>3 DEF CountsKept, Committed
<1>5. tasks[t].history = h /\ tasks[t] \in TaskRecord
  BY <1>1, <1>3 DEF SerialGood, StepsGood, TypeOK
<1>6. IF goes THEN request' = [request EXCEPT ![w] = s] ELSE request' = [request EXCEPT ![w] = Idle]
  BY <1>5 DEF Load, End, Columns, ColumnsOf
<1>7. r.op \in {"stop", "sweep"} /\ r.user \in UserOrNone
  <2> HIDE DEF r, t
  <2> QED BY <1>3 DEF Current, Found, Request
<1>8. CASE goes
  <2>1. /\ s \in Request /\ s.op = r.op /\ s.user = r.user /\ s.task = t /\ s.cut = r.cut /\ s.pc = "clear"
    <3>1. row \in TaskRecord /\ r \in Request
      BY <1>3, <1>5
    <3> HIDE DEF row, r
    <3> QED BY <3>1, Reloaded
  <2>2. request' = [request EXCEPT ![w] = s]
    BY <1>6, <1>8
  <2>3. r.op = "sweep" => h[LastLockedOrAutoUnlocked(h)].action \in AutoActions
    BY <1>8
  <2> HIDE DEF r, s, now, task, goes
  <2>4. Dealt(s, task) = Dealt(r, task) /\ AskedRelease(s, task)
    BY <1>3, <2>1 DEF Dealt, AskedRelease
  <2>5. now.tasks = [settled.tasks EXCEPT ![t] = Dealt(s, task)]
    BY <1>3, <1>4, <2>4
  <2> HIDE DEF t
  <2>6. Progress(s, settled, now)
    BY <1>4, <2>1, <2>3, <2>4, <2>5 DEF Progress, task
  <2> QED BY <1>1, <2>1, <2>2, <2>6, GoesOn DEF now
<1>9. CASE ~goes
  <2>1. request' = [request EXCEPT ![w] = Idle]
    BY <1>6, <1>9
  <2>2. tasks' = [settled.tasks EXCEPT ![t] =
                    IF r.op = "stop" \/ h[LastLockedOrAutoUnlocked(h)].action \in AutoActions
                    THEN ClearLock(Dealt(r, task)) ELSE Dealt(r, task)]
    BY <1>2, <1>3, <1>9
  <2>3. r.op # "stop"
    BY <1>9
  <2> HIDE DEF r, t, task, h, goes
  <2>4. settled' = Committed' => Whole!Next
    BY <1>3, <1>4, <1>7, <2>2, <2>3, ReleaseIsWhole DEF t, task, h, now
  <2> QED BY <1>1, <2>1, <2>4, Ends
<1> QED BY <1>8, <1>9

LEMMA ClearWhole ==
  ASSUME Stepping, FALSE \in Comments, NEW w \in Workers, Clear(w) PROVE WholeStep
<1> DEFINE r == request[w]
           t == r.task
           task == settled.tasks[t]
           h == Dealt(r, task).history
           cleared == ClearLock(Dealt(r, task))
<1>1. /\ OneWorker /\ SerialGood /\ SerialNext /\ StepsGood' /\ Short'
  BY DEF Stepping
<1>2. At(w, "clear") /\ project' = project /\ tally' = tally /\ request' = [request EXCEPT ![w] = Idle]
  BY DEF Clear, End
<1>3. /\ CountsKept(settled, Committed) /\ AskedRelease(r, task) /\ r \in Request /\ t \in Tasks
      /\ settled.tasks \in [Tasks -> TaskRecord] /\ task \in TaskRecord
      /\ Len(task.history) <= MaxRows
      /\ tasks = [settled.tasks EXCEPT ![t] = Dealt(r, task)]
      /\ r.op = "sweep" => h[LastLockedOrAutoUnlocked(h)].action \in AutoActions
      /\ Current(r, tasks[t]) /\ r.pc = "clear"
  BY <1>1, <1>2, Underway, TheTask
<1>4. CountsKept(settled, Committed')
  BY <1>2, <1>3 DEF CountsKept, Committed
<1>5. r.op \in {"stop", "sweep"} /\ r.user \in UserOrNone /\ (r.op = "stop" => r.user \in Users)
  <2> HIDE DEF r, t
  <2> QED BY <1>3 DEF Current, Found, Request
<1>6. tasks' = [tasks EXCEPT ![t] = ClearLock(tasks[t])]
  BY <1>1, ClearResult DEF SerialGood
<1> HIDE DEF r, t, task
<1>7. tasks' = [settled.tasks EXCEPT ![t] = cleared]
  <2>1. tasks[t] = Dealt(r, task)
    BY <1>3
  <2>2. tasks' = [tasks EXCEPT ![t] = cleared]
    BY <1>6, <2>1
  <2> HIDE DEF cleared
  <2> QED BY <1>3, <2>2
<1>8. tasks' = [settled.tasks EXCEPT ![t] =
                  IF r.op = "stop" \/ h[LastLockedOrAutoUnlocked(h)].action \in AutoActions
                  THEN ClearLock(Dealt(r, task)) ELSE Dealt(r, task)]
  <2>1. r.op = "stop" \/ h[LastLockedOrAutoUnlocked(h)].action \in AutoActions
    BY <1>3, <1>5
  <2> HIDE DEF h
  <2> QED BY <1>7, <2>1
<1> HIDE DEF h
<1>9. settled' = Committed' => Whole!Next
  BY <1>3, <1>4, <1>5, <1>8, ReleaseIsWhole DEF t, task, h
<1> QED BY <1>1, <1>2, <1>9, Ends

LEMMA CommentWhole ==
  ASSUME Stepping, NEW w \in Workers, NEW u \in Users, NEW t \in Tasks, Comment(w, u, t) PROVE WholeStep
<1> DEFINE new == Commented(tasks[t], u, TRUE)
<1>1. /\ OneWorker /\ SerialGood /\ SerialNext /\ StepsGood' /\ Short'
  BY DEF Stepping
<1>2. /\ request[w] = Idle /\ request' = request /\ project' = project /\ tally' = tally
      /\ Len(tasks[t].history) + 1 <= MaxRows
      /\ tasks' = [tasks EXCEPT ![t] = new]
  BY DEF Comment, AddTaskComment, Room
<1>3. request' = [request EXCEPT ![w] = Idle]
  BY <1>1, <1>2 DEF SerialGood, StepsGood
<1>4. settled.tasks = tasks /\ settled.project = project /\ settled.tally = tally
  BY <1>1, <1>2 DEF SerialGood, Same, Committed
<1>5. Whole!Commented(tasks[t], u, TRUE) = new
  BY WholeOperations
<1> HIDE DEF new
<1>6. settled' = Committed' => Whole!AddTaskComment(u, t)
  <2> SUFFICES ASSUME settled' = Committed' PROVE Whole!AddTaskComment(u, t)
    OBVIOUS
  <2>1. settled'.tasks = tasks' /\ settled'.project = settled.project /\ settled'.tally = settled.tally
    BY <1>2, <1>4 DEF Committed
  <2> QED BY <1>2, <1>4, <1>5, <2>1 DEF Whole!AddTaskComment, Whole!Room
<1>7. settled' = Committed' => Whole!Next
  BY <1>6 DEF Whole!Next, Whole!UserStep
<1> QED BY <1>1, <1>3, <1>7, Ends

LEMMA StepsAreWhole ==
  ASSUME OneWorker, MaxCrashes = 0, FALSE \in Comments, SerialGood, SerialNext PROVE WholeStep
<1>1. StepsNext /\ StepsGood /\ Short
  BY DEF SerialNext, SerialGood
<1>2. StepsGood' /\ Short'
  BY <1>1, StepsAreGood, ShortKept DEF GoodStep
<1>3. Stepping
  BY <1>2 DEF Stepping
<1>4. PICK w \in Workers : Serve(w) \/ Crash(w)
  BY <1>1 DEF StepsNext
<1>5. ~Crash(w)
  BY <1>1 DEF Crash, StepsGood
<1>6. CASE \E u \in Users, t \in Tasks : Read(w, u, t) \/ Comment(w, u, t)
  BY <1>3, <1>6, BeginsWhole, CommentWhole
<1>7. CASE \E t \in Tasks : \E k \in DOMAIN tasks[t].history : FindExpired(w, t, k)
  BY <1>3, <1>7, SweepBeginsWhole
<1>8. CASE Work(w)
  BY <1>3, <1>8, PermitWhole, LockWhole, NotifyWhole, CountWhole, CommitCountsWhole, RowsWhole, FinishWhole,
     DealtWhole, ExtendWhole, LoadWhole, ClearWhole DEF Work
<1> QED BY <1>4, <1>5, <1>6, <1>7, <1>8 DEF Serve

LEMMA SerialInitGood == ASSUME SerialInit PROVE SerialGood /\ Whole!Init
<1>1. StepsGood
  BY StepsInitGood DEF SerialInit
<1>2. Short
  <2>1. \A t \in Tasks : Len(tasks[t].history) = 0
    BY DEF SerialInit, StepsInit, Init, NewTask
  <2> QED BY <2>1, PermissionAssumption DEF Short
<1>3. settled = Committed /\ \A w \in Workers : request[w] = Idle
  BY DEF SerialInit, StepsInit
<1>4. Orderly(settled)
  BY <1>1, <1>2, <1>3 DEF Orderly, StepsGood, TypeOK, Short, Committed
<1>5. SerialGood
  BY <1>1, <1>2, <1>3, <1>4 DEF SerialGood, Same
<1>6. Whole!Init
  BY <1>3 DEF SerialInit, StepsInit, Init, Committed, Whole!Init, Whole!NewTask, NewTask, Whole!Counted, Counted,
     Whole!Tallied, Tallied
<1> QED BY <1>5, <1>6

\* One worker that does not stop on the way serves whole requests: between two
\* moments at which it is idle, its commits together change the database as
\* one request of TaskLifecycle does (mapping_service.py, validator_service.py),
\* or not at all, so that what is proved of those is true of the steps.
THEOREM RequestsAreWhole ==
  ASSUME OneWorker, MaxCrashes = 0, FALSE \in Comments
  PROVE  SerialSpec => WholeRequests
<1>1. SerialInit => SerialGood /\ Whole!Init
  BY SerialInitGood
<1>2. ASSUME SerialGood, [SerialNext]_serialVars PROVE WholeStep
  <2>1. CASE SerialNext
    BY <1>2, <2>1, StepsAreWhole
  <2>2. CASE UNCHANGED serialVars
    <3>1. /\ tasks' = tasks /\ project' = project /\ tally' = tally /\ request' = request
          /\ crashes' = crashes /\ settled' = settled
      BY <2>2 DEF serialVars
    <3>2. StepsGood'
      BY <1>2, <3>1, StepsGoodUnchanged DEF SerialGood, stepVars
    <3>3. SerialGood'
      BY <1>2, <3>1, <3>2 DEF SerialGood, Short, Orderly, Committed
    <3> QED BY <3>1, <3>3 DEF WholeStep, Whole!vars
  <2> QED BY <1>2, <2>1, <2>2
<1>3. WholeStep => SerialGood' /\ [Whole!Next]_(Whole!vars)
  BY DEF WholeStep
<1>4. SerialSpec => Whole!Spec
  BY <1>1, <1>2, <1>3, PTL DEF SerialSpec, Whole!Spec
<1> QED BY <1>4 DEF WholeRequests
=============================================================================
