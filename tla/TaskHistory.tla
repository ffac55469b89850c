---------------------------- MODULE TaskHistory ----------------------------
(***************************************************************************)
(* The rows of table task_history for one task, and the queries the        *)
(* services decide with (backend/models/postgis/task.py, TaskHistory).     *)
(*                                                                         *)
(* A history is the sequence of the rows of one task in order of           *)
(* action_date, which is the order they are inserted in.  A row is         *)
(*   [action |-> its action, text |-> its action_text, user |-> user_id].  *)
(* Of action_text only what the code tells apart is kept: the name of a    *)
(* status in a STATE_CHANGE row; in a row about a lock, "open" for NULL    *)
(* and "closed" for a duration.  A deleted row keeps its place as Deleted, *)
(* so that a position is the identity of a row, as the primary key is.     *)
(***************************************************************************)
EXTENDS Integers, Sequences, FiniteSetsExt

CONSTANTS Users, NoUser
ASSUME NoUserAssumption == NoUser \notin Users

TaskStatus == {"READY", "LOCKED_FOR_MAPPING", "MAPPED", "LOCKED_FOR_VALIDATION",
               "VALIDATED", "INVALIDATED", "BADIMAGERY", "SPLIT"}
LockedStatus == {"LOCKED_FOR_MAPPING", "LOCKED_FOR_VALIDATION"}
ExtendActions == {"EXTENDED_FOR_MAPPING", "EXTENDED_FOR_VALIDATION"}
AutoActions == {"AUTO_UNLOCKED_FOR_MAPPING", "AUTO_UNLOCKED_FOR_VALIDATION"}
TaskAction == LockedStatus \cup ExtendActions \cup AutoActions
                \cup {"STATE_CHANGE", "COMMENT"}

Deleted == [action |-> "DELETED", text |-> "closed", user |-> NoUser]

Row == [action: TaskAction \cup {"DELETED"},
        text: TaskStatus \cup {"open", "closed"},
        user: Users \cup {NoUser}]

-----------------------------------------------------------------------------
(* The rows set_task_history makes. *)
LockRow(action, u) == [action |-> action, text |-> "open", user |-> u]
CommentRow(u) == [action |-> "COMMENT", text |-> "closed", user |-> u]
StateChangeRow(status, u) ==
  [action |-> "STATE_CHANGE", text |-> status, user |-> u]

-----------------------------------------------------------------------------
(* Queries. *)
RowsOf(h, actions) == {i \in DOMAIN h : h[i].action \in actions}
Changes(h) == RowsOf(h, {"STATE_CHANGE"})
OpenLockRows(h) ==
  {i \in RowsOf(h, LockedStatus \cup ExtendActions) : h[i].text = "open"}

\* Variant: the newest row, whatever its action.
LastRowText(h) == IF h = <<>> THEN "READY" ELSE h[Len(h)].text

GetLastStatus(h) ==
  IF Changes(h) = {} THEN "READY" ELSE h[Max(Changes(h))].text

\* get_last_status with for_undo: the status an undo goes back to.
GetUndoStatus(h) ==
  LET last == Max(Changes(h)) IN
    IF \/ Cardinality(Changes(h)) <= 1
       \/ h[last].text \in {"MAPPED", "BADIMAGERY"}
    THEN "READY"
    ELSE h[Max(Changes(h) \ {last})].text

GetLastAction(h) == h[Max(RowsOf(h, TaskAction))]

LastLocked(h) == Max(RowsOf(h, LockedStatus))
LastLockedOrAutoUnlocked(h) == Max(RowsOf(h, LockedStatus \cup AutoActions))

MappedRows(h) == {i \in Changes(h) : h[i].text \in {"MAPPED", "BADIMAGERY"}}
GetLastMappedAction(h) == h[Max(MappedRows(h))]

-----------------------------------------------------------------------------
(***************************************************************************)
(* update_task_locked_with_duration with remove_duplicate_task_history_    *)
(* rows: the user's one open row for this lock gets its duration.  When    *)
(* there are several, the oldest row of the user for this action, open or  *)
(* closed, is deleted until one open row is left, the newest.              *)
(***************************************************************************)
CloseLock(h, action, u) ==
  LET mine == {i \in RowsOf(h, {action}) : h[i].user = u}
      open == {i \in mine : h[i].text = "open"}
      keep == Max(open)
      dupes == {i \in mine : \E j \in open \ {keep} : i <= j}
  IN  IF open = {} THEN h
      ELSE [i \in DOMAIN h |-> IF i = keep THEN [h[i] EXCEPT !.text = "closed"]
                               ELSE IF i \in dupes THEN Deleted ELSE h[i]]

\* Variant: the filter on action and action_text is missing.
ExpireEveryRow(h, k) ==
  [i \in DOMAIN h |->
     IF i <= k THEN [action |-> "AUTO_UNLOCKED_FOR_MAPPING", text |-> "closed",
                     user |-> h[i].user]
     ELSE h[i]]

\* update_expired_and_locked_actions: rows 1..k are those dated before expiry.
ExpireRows(h, k) ==
  [i \in DOMAIN h |->
     IF i <= k /\ i \in OpenLockRows(h)
     THEN [action |-> IF h[i].action \in {"LOCKED_FOR_MAPPING", "EXTENDED_FOR_MAPPING"}
                      THEN "AUTO_UNLOCKED_FOR_MAPPING"
                      ELSE "AUTO_UNLOCKED_FOR_VALIDATION",
           text |-> "closed", user |-> h[i].user]
     ELSE h[i]]

=============================================================================
