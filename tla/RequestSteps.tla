---------------------------- MODULE RequestSteps ----------------------------
(***************************************************************************)
(* The requests of TaskLifecycle taken apart into the steps between which  *)
(* the database may change: reading the task, looking up the locks of the  *)
(* user, and each commit.  Several workers serve requests at once, and one *)
(* may stop at any point, which loses what it has not committed.           *)
(*                                                                         *)
(* tasks, project and tally are what is committed.  A worker decides on    *)
(* the columns of the task as its session loaded them ("seen"); a commit   *)
(* makes the session load them again, and writes only the columns that     *)
(* differ from the ones loaded.  Queries of task_history are not cached.   *)
(* A request is about one task; the loops over several handle each in turn. *)
(***************************************************************************)
EXTENDS TaskLifecycle

CONSTANTS Workers,
          MaxCrashes     \* bound on the times a worker stops

ASSUME MaxCrashesAssumption == MaxCrashes \in Nat

VARIABLES
  request,     \* the request each worker is serving
  crashes      \* how often a worker has stopped so far

stepVars == <<tasks, project, tally, request, crashes>>

Idle == [op |-> "none"]
NoCounts == [last |-> "none"]

\* "new" is the status an unlock or an undo gives the task, "cut" the number of
\* rows that a sweep finds older than the expiry date, "seen" the columns as
\* loaded, "counts" the counters read and not yet written back.
Request ==
  [op: {"lock_mapping", "lock_validation", "unlock", "undo", "stop", "extend", "sweep"},
   user: UserOrNone, task: Tasks, new: TaskStatus \cup {"none"}, cut: Nat,
   seen: [status: TaskStatus, locked_by: UserOrNone, mapped_by: UserOrNone,
          validated_by: UserOrNone],
   counts: {NoCounts} \cup
           [last: TaskStatus, project: [Counted -> Int], user: Users,
            credits: [Tallied -> Int]],
   pc: {"permit", "lock", "notify", "count", "rows", "finish",
        "close", "extend", "expire", "load", "clear"}]

StepsTypeOK ==
  /\ TypeOK
  /\ \A w \in Workers : request[w] # Idle => request[w] \in Request
  /\ crashes \in 0..MaxCrashes

Columns(t) == [status |-> tasks[t].status, locked_by |-> tasks[t].locked_by,
               mapped_by |-> tasks[t].mapped_by, validated_by |-> tasks[t].validated_by]

\* What an UPDATE makes of a column that the session loaded and then set.
Written(current, loaded, set) == IF set = loaded THEN current ELSE set

StepsInit ==
  /\ Init
  /\ request = [w \in Workers |-> Idle]
  /\ crashes = 0

NewRequest(op, u, t, pc) ==
  [op |-> op, user |-> u, task |-> t, new |-> "none", cut |-> 0,
   seen |-> Columns(t), counts |-> NoCounts, pc |-> pc]

Start(w, r) ==
  /\ request[w] = Idle
  /\ request' = [request EXCEPT ![w] = r]
  /\ UNCHANGED <<tasks, project, tally>>

At(w, pc) == request[w] # Idle /\ request[w].pc = pc
GoTo(w, pc) == request' = [request EXCEPT ![w].pc = pc]
End(w) == request' = [request EXCEPT ![w] = Idle]

-----------------------------------------------------------------------------
(* Locking: read, permit, write. *)

LockStatus(op) ==
  IF op = "lock_mapping" THEN "LOCKED_FOR_MAPPING" ELSE "LOCKED_FOR_VALIDATION"

\* Variant: the status of the task is not looked at.
ReadForMappingUnchecked(w, u, t) ==
  IF tasks[t].locked_by = u THEN Start(w, NewRequest("lock_mapping", u, t, "lock"))
  ELSE Start(w, NewRequest("lock_mapping", u, t, "permit"))

ReadForMapping(w, u, t) ==
  IF tasks[t].locked_by = u THEN Start(w, NewRequest("lock_mapping", u, t, "lock"))
  ELSE IsMappable(tasks[t]) /\ Start(w, NewRequest("lock_mapping", u, t, "permit"))

ReadForValidation(w, u, t) ==
  /\ \/ tasks[t].locked_by = u /\ tasks[t].status = "LOCKED_FOR_VALIDATION"
     \/ /\ tasks[t].status \in {"MAPPED", "INVALIDATED", "BADIMAGERY"}
        /\ UserCanValidateTask(u, tasks[t].mapped_by)
  /\ Start(w, NewRequest("lock_validation", u, t, "permit"))

\* is_user_permitted_to_map and is_user_permitted_to_validate.
Permitted(r, away) ==
  IF r.op = "lock_mapping" THEN PermittedToMap(r.user, away)
  ELSE MayLockForValidation(r.user, {r.task}, away)

Permit(w) ==
  /\ At(w, "permit")
  /\ \E away \in SUBSET Tasks :
       IF Permitted(request[w], away) THEN GoTo(w, "lock") ELSE End(w)
  /\ UNCHANGED <<tasks, project, tally>>

Lock(w) ==
  LET r == request[w]
      task == tasks[r.task]
      status == LockStatus(r.op)
  IN  /\ At(w, "lock")
      /\ Room(r.task, 1)
      /\ tasks' = [tasks EXCEPT ![r.task] =
           [task EXCEPT !.history = Append(@, LockRow(status, r.user)),
                        !.status = Written(@, r.seen.status, status),
                        !.locked_by = Written(@, r.seen.locked_by, r.user)]]
      /\ End(w)
      /\ UNCHANGED <<project, tally>>

-----------------------------------------------------------------------------
(* Unlocking with a new status, and undoing: read, notify, count, write.    *)

Unlock(u, t, new, pc) == [NewRequest("unlock", u, t, pc) EXCEPT !.new = new]

ReadToUnlock(w, u, t, new) ==
  \/ /\ LockedForMappingBy(u, t)
     /\ new \in {"MAPPED", "BADIMAGERY", "READY"}
     /\ Start(w, Unlock(u, t, new, "count"))
  \/ /\ LockedForValidationBy(u, t)
     /\ new = "MAPPED"
     /\ Start(w, Unlock(u, t, new, "count"))
  \/ /\ LockedForValidationBy(u, t)
     /\ new \in {"INVALIDATED", "VALIDATED"}
     /\ tasks[t].mapped_by # NoUser
     /\ Start(w, Unlock(u, t, new, IF tasks[t].mapped_by = u THEN "count" ELSE "notify"))

\* The message to the mapper is committed, and the task is loaded again.  A
\* VALIDATED task that has lost its mapper (task.mapper) ends the request.
Notify(w) ==
  LET r == request[w]
      loaded == Columns(r.task)
  IN  /\ At(w, "notify")
      /\ IF r.new = "VALIDATED" /\ loaded.mapped_by = NoUser THEN End(w)
         ELSE request' = [request EXCEPT ![w].seen = loaded, ![w].pc = "count"]
      /\ UNCHANGED <<tasks, project, tally>>

ReadToUndo(w, u, t) ==
  /\ IsTaskUndoable(u, t)
  /\ Start(w, [NewRequest("undo", u, t, "count") EXCEPT
                 !.new = GetUndoStatus(tasks[t].history)])

\* Variant: the old status is that of the column, locked as it is.
CountFromColumn(w) ==
  LET r == request[w]
      h == tasks[r.task].history
      credited == IF r.op = "undo" THEN GetLastAction(h).user ELSE r.user
  IN  /\ At(w, "count")
      /\ request' = [request EXCEPT
           ![w].counts = [last |-> r.seen.status, project |-> project,
                          user |-> credited, credits |-> tally[credited]],
           ![w].pc = "rows"]
      /\ UNCHANGED <<tasks, project, tally>>

\* The counters are read and changed in the session.
Count(w) ==
  LET r == request[w]
      h == tasks[r.task].history
      undo == r.op = "undo"
      credited == IF undo THEN GetLastAction(h).user ELSE r.user
  IN  /\ At(w, "count")
      /\ request' = [request EXCEPT
           ![w].counts = [last |-> IF undo THEN r.seen.status ELSE GetLastStatus(h),
                          project |-> project, user |-> credited,
                          credits |-> tally[credited]],
           ![w].pc = "rows"]
      /\ UNCHANGED <<tasks, project, tally>>

\* The UPDATEs of the counters that the session changed.
WriteCounts(r) ==
  LET c == r.counts
      action == IF r.op = "undo" THEN "undo" ELSE "change"
      set == Recount(c.project, c.last, r.new)
      credits == Credit(c.credits, c.last, r.new, action)
  IN  IF c = NoCounts THEN UNCHANGED <<project, tally>>
      ELSE /\ project' = [s \in Counted |-> Written(project[s], c.project[s], set[s])]
           /\ tally' = [tally EXCEPT ![c.user] =
                [s \in Tallied |-> Written(@[s], c.credits[s], credits[s])]]

\* upsert_mapped_projects commits if the project is new to the user.
CommitCounts(w) ==
  LET r == request[w] IN
  /\ At(w, "rows")
  /\ r.counts # NoCounts
  /\ WriteCounts(r)
  /\ request' = [request EXCEPT ![w].counts = NoCounts, ![w].seen = Columns(r.task)]
  /\ UNCHANGED tasks

\* unlock_task: with a row to close, everything but the status and the holder
\* is committed first.
HasRow(r) ==
  /\ r.op = "unlock"
  /\ \E i \in RowsOf(tasks[r.task].history, {r.seen.status}) :
       /\ tasks[r.task].history[i].user = r.user
       /\ tasks[r.task].history[i].text = "open"

Rows(w) ==
  LET r == request[w]
      undo == r.op = "undo"
      loaded == [c \in DOMAIN tasks[r.task] |->
                   IF c \in DOMAIN r.seen THEN r.seen[c] ELSE tasks[r.task][c]]
      set == UnlockTask(loaded, r.user, r.new, undo, undo)
      rows == [tasks[r.task] EXCEPT
                 !.history = set.history, !.invalidations = set.invalidations,
                 !.mapped_by = Written(@, r.seen.mapped_by, set.mapped_by),
                 !.validated_by = Written(@, r.seen.validated_by, set.validated_by)]
  IN  /\ At(w, "rows")
      /\ Room(r.task, IF undo THEN 2 ELSE 1)
      /\ WriteCounts(r)
      /\ IF HasRow(r)
         THEN /\ tasks' = [tasks EXCEPT ![r.task] = rows]
              /\ request' = [request EXCEPT ![w].counts = NoCounts, ![w].pc = "finish"]
         ELSE /\ tasks' = [tasks EXCEPT ![r.task] =
                   [rows EXCEPT !.status = Written(@, r.seen.status, r.new),
                                !.locked_by = Written(@, r.seen.locked_by, NoUser)]]
              /\ End(w)

\* Variant: the holder stays on the task.
FinishKeepHolder(w) ==
  LET r == request[w] IN
  /\ At(w, "finish")
  /\ tasks' = [tasks EXCEPT ![r.task].status = r.new]
  /\ End(w)
  /\ UNCHANGED <<project, tally>>

\* After that commit both columns are set without being loaded.
Finish(w) ==
  LET r == request[w] IN
  /\ At(w, "finish")
  /\ tasks' = [tasks EXCEPT ![r.task].status = r.new, ![r.task].locked_by = NoUser]
  /\ End(w)
  /\ UNCHANGED <<project, tally>>

-----------------------------------------------------------------------------
(* Stopping, extending and the automatic release: rows first, then columns. *)

ReadToStop(w, u, t) ==
  /\ LockedForMappingBy(u, t) \/ LockedForValidationBy(u, t)
  /\ Start(w, NewRequest("stop", u, t, "close"))

ReadToExtend(w, u, t) ==
  /\ IsLocked(tasks[t]) /\ tasks[t].locked_by = u
  /\ Start(w, NewRequest("extend", u, t, "close"))

\* update_task_locked_with_duration.
Close(w) ==
  LET r == request[w] IN
  /\ At(w, "close")
  /\ tasks' = [tasks EXCEPT ![r.task].history = CloseLock(@, r.seen.status, r.user)]
  /\ GoTo(w, IF r.op = "extend" THEN "extend" ELSE "load")
  /\ UNCHANGED <<project, tally>>

Extend(w) ==
  LET r == request[w] IN
  /\ At(w, "extend")
  /\ Room(r.task, 1)
  /\ tasks' = [tasks EXCEPT ![r.task].history =
                 Append(@, LockRow(ExtendAction(r.seen.status), r.user))]
  /\ End(w)
  /\ UNCHANGED <<project, tally>>

FindExpired(w, t, k) ==
  /\ IsLocked(tasks[t])
  /\ \E i \in OpenLockRows(tasks[t].history) : i <= k
  /\ Start(w, [NewRequest("sweep", NoUser, t, "expire") EXCEPT !.cut = k])

Expire(w) ==
  LET r == request[w] IN
  /\ At(w, "expire")
  /\ tasks' = [tasks EXCEPT ![r.task].history = ExpireRows(@, r.cut)]
  /\ GoTo(w, "load")
  /\ UNCHANGED <<project, tally>>

\* The task is loaded again; a sweep goes on if the newest row about locks is
\* an automatic release.
Load(w) ==
  LET r == request[w]
      h == tasks[r.task].history
  IN  /\ At(w, "load")
      /\ IF r.op = "stop" \/ h[LastLockedOrAutoUnlocked(h)].action \in AutoActions
         THEN request' = [request EXCEPT ![w].seen = Columns(r.task), ![w].pc = "clear"]
         ELSE End(w)
      /\ UNCHANGED <<tasks, project, tally>>

\* Variant: the task is made READY, not put back.
ClearToReady(w) ==
  LET r == request[w]
      task == tasks[r.task]
  IN  /\ At(w, "clear")
      /\ tasks' = [tasks EXCEPT ![r.task] =
           [task EXCEPT !.status = Written(@, r.seen.status, "READY"),
                        !.locked_by = Written(@, r.seen.locked_by, NoUser)]]
      /\ End(w)
      /\ UNCHANGED <<project, tally>>

\* clear_lock.
Clear(w) ==
  LET r == request[w]
      task == tasks[r.task]
  IN  /\ At(w, "clear")
      /\ tasks' = [tasks EXCEPT ![r.task] =
           [task EXCEPT !.status = Written(@, r.seen.status, GetLastStatus(task.history)),
                        !.locked_by = Written(@, r.seen.locked_by, NoUser)]]
      /\ End(w)
      /\ UNCHANGED <<project, tally>>

-----------------------------------------------------------------------------
\* A request that adds a comment commits once.
Comment(w, u, t) ==
  /\ request[w] = Idle
  /\ AddTaskComment(u, t)
  /\ UNCHANGED request

Read(w, u, t) ==
  \/ ReadForMapping(w, u, t)
  \/ ReadForValidation(w, u, t)
  \/ \E new \in TaskStatus : ReadToUnlock(w, u, t, new)
  \/ ReadToUndo(w, u, t)
  \/ ReadToStop(w, u, t)
  \/ ReadToExtend(w, u, t)

Work(w) ==
  \/ Permit(w) \/ Lock(w)
  \/ Notify(w) \/ Count(w) \/ CommitCounts(w) \/ Rows(w) \/ Finish(w)
  \/ Close(w) \/ Extend(w) \/ Expire(w) \/ Load(w) \/ Clear(w)

\* The worker stops; what it has not committed is lost.
Crash(w) ==
  /\ request[w] # Idle
  /\ crashes < MaxCrashes
  /\ crashes' = crashes + 1
  /\ End(w)
  /\ UNCHANGED <<tasks, project, tally>>

Serve(w) ==
  /\ \/ \E u \in Users, t \in Tasks : Read(w, u, t) \/ Comment(w, u, t)
     \/ \E t \in Tasks : \E k \in DOMAIN tasks[t].history : FindExpired(w, t, k)
     \/ Work(w)
  /\ UNCHANGED crashes

StepsNext == \E w \in Workers : Serve(w) \/ Crash(w)

StepsSpec == StepsInit /\ [][StepsNext]_stepVars

-----------------------------------------------------------------------------
(* Safety, beside what TaskLifecycle states of the committed tasks. *)

\* Status and holder of a task are committed together: it is locked exactly
\* when it has a holder, also when the worker that unlocks it stops.
HeldIffLocked ==
  \A t \in Tasks : IsLocked(tasks[t]) <=> tasks[t].locked_by # NoUser

\* Nobody but an administrator holds a task to validate that he mapped himself.
ValidatorIsNotMapper ==
  \A t \in Tasks : tasks[t].status = "LOCKED_FOR_VALIDATION" =>
    tasks[t].locked_by \in Admins \/ tasks[t].locked_by # tasks[t].mapped_by

\* Whichever of its commits a request gets to before its worker dies, a free task is in the status its
\* rows tell, and whoever is about to give a verdict is entitled to.
StepsInv == StepsTypeOK /\ StatusOnRecord /\ ValidatorIsNotMapper

\* lock_task_for_mapping: "Sets the task_locked status to locked so no other
\* user can work on it".  A held task is released before another user holds it.
LockExclusive ==
  [][\A t \in Tasks : tasks[t].locked_by # NoUser =>
       tasks'[t].locked_by \in {tasks[t].locked_by, NoUser}]_stepVars
=============================================================================
