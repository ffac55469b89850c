------------------------------- MODULE MCEditing -------------------------------
(* The page to work on a task, or the dialog with its history: one of the two. *)
EXTENDS TaskEditing, TaskActivityDialog

VARIABLE active
mcVars == <<active, editVars, activityVars>>

\* Of the page that is not shown nothing is enabled, so that fairness asks nothing of it.
EditAsleep ==
  /\ clock = MaxTime /\ lock = NoLock /\ losses = 0 /\ pending = {} /\ sent = {}
  /\ work = [where |-> "away", action |-> "MAPPING", visit |-> MaxVisits, form |-> 0, seen |-> 0, edits |-> FALSE,
             crossed |-> FALSE]
  /\ timers = [about |-> Off, expired |-> Off] /\ dialogs = [about |-> "closed", expired |-> "closed"]

MCInit ==
  /\ active \in {"editing", "activity"} /\ ActivityInit
  /\ IF active = "editing" THEN EditInit ELSE EditAsleep
MCNext ==
  \/ active = "editing" /\ EditNext /\ UNCHANGED <<active, activityVars>>
  \/ active = "activity" /\ ActivityNext /\ UNCHANGED <<active, editVars>>

MCSpec == MCInit /\ [][MCNext]_mcVars /\ EditFairness /\ ActivityFairness
=============================================================================
