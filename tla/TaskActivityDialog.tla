-------------------------- MODULE TaskActivityDialog --------------------------
(***************************************************************************)
(* The dialog with the history of a task (taskSelection/taskActivity.js,   *)
(* taskList.js TaskActivityModal): the history is fetched when the dialog  *)
(* opens and every minute, and comes back with a posted comment and with   *)
(* an undo.  The history is its rows, of which only the kind matters.      *)
(***************************************************************************)
EXTENDS Naturals, Sequences

CONSTANTS MaxRows,      \* bound on the history
          MaxCalls      \* bound on the requests under way of each kind

ASSUME ActivityAssumption == MaxRows \in Nat /\ MaxCalls \in Nat

VARIABLES record,     \* the server's task: its status and history
          activity,   \* the dialog
          calls       \* the requests under way, numbered

activityVars == <<record, activity, calls>>

Closed == [open |-> FALSE, history |-> <<>>, status |-> "READY", option |-> "Comments",
           draft |-> FALSE, confirm |-> FALSE, resetSuccess |-> FALSE, validator |-> FALSE]

ActivityInit ==
  /\ record = [status |-> "VALIDATED", history |-> <<"MAPPED", "VALIDATED">>]
  /\ activity = Closed /\ calls = {}

Call(kind) ==
  \E n \in 1..MaxCalls :
    /\ \A c \in calls : c.kind = kind => c.n # n
    /\ calls' = calls \cup {[kind |-> kind, n |-> n, to |-> "server", shown |-> TRUE,
                               history |-> <<>>, ok |-> TRUE]}

\* TaskActivityModal, which is given the status that the map has for the task.
OpenDialog(validator) ==
  /\ ~activity.open
  /\ activity' = [Closed EXCEPT !.open = TRUE, !.status = record.status, !.validator = validator]
  /\ Call("get") /\ UNCHANGED record
CloseDialogOfTask ==
  /\ activity.open /\ activity' = Closed
  /\ calls' = {[c EXCEPT !.shown = FALSE] : c \in calls} /\ UNCHANGED record

\* A variant: a minute's request is skipped once there is a history to show.
getHistoryOnce ==
  /\ activity.open /\ activity.history = <<>> /\ Call("get")
  /\ UNCHANGED <<record, activity>>

\* useInterval; the previous request may still be under way.
getHistory == activity.open /\ Call("get") /\ UNCHANGED <<record, activity>>

\* PostComment.  Nothing keeps the button from a second press.
TypeComment ==
  /\ activity.open /\ ~activity.draft /\ activity' = [activity EXCEPT !.draft = TRUE]
  /\ UNCHANGED <<record, calls>>
saveComment == activity.open /\ activity.draft /\ Call("comment") /\ UNCHANGED <<record, activity>>
PostComment == TypeComment \/ saveComment

\* UndoLastTaskAction asks first; resetTask.
UndoOffered ==
  /\ activity.open /\ activity.validator /\ ~activity.resetSuccess
  /\ activity.status \in {"VALIDATED", "BADIMAGERY"}
UndoLastTaskAction ==
  /\ UndoOffered /\ activity' = [activity EXCEPT !.confirm = ~@] /\ UNCHANGED <<record, calls>>
resetTask ==
  /\ UndoOffered /\ activity.confirm /\ Call("undo")
  /\ activity' = [activity EXCEPT !.confirm = FALSE] /\ UNCHANGED record

TaskActivity ==
  getHistory \/ PostComment \/ UndoLastTaskAction \/ resetTask

setHistoryOption(option) ==
  /\ activity.open /\ activity.option # option
  /\ activity' = [activity EXCEPT !.option = option] /\ UNCHANGED <<record, calls>>

\* What the dialog shows of the history.
TaskHistoryShown(history, option) ==
  SelectSeq(history, LAMBDA row : \/ option = "All"
                                  \/ (option = "Comments") = (row = "COMMENT"))

Reply(c, history) ==
  calls' = (calls \ {c}) \cup {[c EXCEPT !.to = "page", !.history = history]}
Refuse(c) == calls' = (calls \ {c}) \cup {[c EXCEPT !.to = "page", !.ok = FALSE]}
AddRow(status, row) == record' = [status |-> status, history |-> Append(record.history, row)]
HasRoom == Len(record.history) < MaxRows

ServeCall(c) ==
  /\ c \in calls /\ c.to = "server"
  /\ \/ c.kind = "get" /\ Reply(c, record.history) /\ UNCHANGED record
     \/ /\ c.kind = "comment" /\ HasRoom
        /\ AddRow(record.status, "COMMENT") /\ Reply(c, record'.history)
     \/ /\ c.kind = "undo" /\ HasRoom /\ record.status \in {"VALIDATED", "MAPPED", "BADIMAGERY"}
        /\ AddRow(IF record.status = "VALIDATED" THEN "MAPPED" ELSE "READY", "UNDO")
        /\ Reply(c, record'.history)
     \/ /\ c.kind # "get" /\ Refuse(c) /\ UNCHANGED record
  /\ UNCHANGED activity

OthersAct ==
  HasRoom /\ record.status = "READY" /\ AddRow("MAPPED", "MAPPED") /\ UNCHANGED <<activity, calls>>

\* setCommentPayload, after which TaskHistory shows it; a comment also empties the
\* input, and an undo hides its button.
TakeAnswer(c) ==
  /\ c \in calls /\ c.to = "page" /\ calls' = calls \ {c}
  /\ activity' = IF ~c.ok \/ ~c.shown THEN activity
                 ELSE [activity EXCEPT !.history = c.history,
                                       !.draft = @ /\ c.kind # "comment",
                                       !.resetSuccess = @ \/ c.kind = "undo"]
  /\ UNCHANGED record

ActivityNext ==
  \/ \E validator \in BOOLEAN : OpenDialog(validator)
  \/ CloseDialogOfTask \/ TaskActivity \/ OthersAct
  \/ \E option \in {"Comments", "Activities", "All"} : setHistoryOption(option)
  \/ \E c \in calls : ServeCall(c) \/ TakeAnswer(c)

ActivityFairness ==
  /\ WF_activityVars(getHistory)
  /\ \A kind \in {"get", "comment", "undo"}, n \in 1..MaxCalls :
       WF_activityVars(\E c \in calls : c.kind = kind /\ c.n = n /\ (ServeCall(c) \/ TakeAnswer(c)))

----------------------------------------------------------------------------
\* As long as the dialog stays open it comes to show the server's history and keeps
\* showing it, although an older answer may overtake a newer one and comments and
\* undos bring answers of their own.
HistoryConverges ==
  <>[](activity.open) =>
    <>[](TaskHistoryShown(activity.history, activity.option)
           = TaskHistoryShown(record.history, activity.option))
=============================================================================
