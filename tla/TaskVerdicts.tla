----------------------------- MODULE TaskVerdicts -----------------------------
(***************************************************************************)
(* The forms in which the outcome of a task is chosen                      *)
(* (components/taskSelection/actionSidebars.js; hooks UseDisableBadImagery *)
(* and UseReadTaskComments).  The history of a task that is mapped, and    *)
(* the locked tasks after an extension, arrive while the form is in use.   *)
(***************************************************************************)
EXTENDS Naturals, FiniteSets

CONSTANTS Tasks,      \* the tasks that may be locked
          Histories   \* the histories that a task may have: sets of the texts of its rows

ASSUME VerdictsAssumption == IsFiniteSet(Tasks)

VARIABLES form, submitted
verdictVars == <<form, submitted>>

Verdict == {"VALIDATED", "INVALIDATED"}
NoVerdict == "undefined"

\* tasks: the locked tasks; opened: those when the page was opened; history: as known
\* to the page, {} before it arrives; status, comments: by task; chosen: the radio
\* button of the mapping form; alert: whether to advise to read the comments.
VerdictsInit ==
  /\ form = [action |-> "none", opened |-> {}, tasks |-> {}, history |-> {},
             level |-> "BEGINNER", status |-> <<>>, comments |-> {}, chosen |-> "none",
             early |-> FALSE, alert |-> FALSE]
  /\ submitted = {}

OpenForm(action, tasks, level) ==
  /\ form.action = "none" /\ tasks # {}
  /\ action = "MAPPING" => Cardinality(tasks) = 1
  /\ form' = [form EXCEPT !.action = action, !.opened = tasks, !.tasks = tasks, !.level = level]
  /\ UNCHANGED submitted

\* The history is fetched when one task is locked.
useDisableBadImagery(history) ==
  {"BADIMAGERY", "Undo state from BADIMAGERY to READY"} \subseteq history
useReadTaskComments(history) == {"INVALIDATED", "COMMENT"} \subseteq history
HistoryArrives(history) ==
  /\ form.action # "none" /\ Cardinality(form.tasks) = 1 /\ form.history = {}
  /\ form' = [form EXCEPT !.history = history, !.alert = useReadTaskComments(history)]
  /\ UNCHANGED submitted

\* getTasks after an extension: part of the locks may have ended elsewhere.
TasksArrive(tasks) ==
  /\ form.action = "VALIDATION" /\ tasks # {} /\ tasks \subseteq form.tasks
  /\ form' = [form EXCEPT !.tasks = tasks] /\ UNCHANGED submitted

\* historyTabSwitch: to look at the history ends the advice.
ReadComments == form.alert /\ form' = [form EXCEPT !.alert = FALSE] /\ UNCHANGED submitted

disableBadImagery == form.level # "ADVANCED" \/ useDisableBadImagery(form.history)
setSelectedStatus(s) ==
  /\ form.action = "MAPPING"
  /\ s = "BADIMAGERY" => ~disableBadImagery
  /\ form' = [form EXCEPT !.chosen = s, !.early = (form.history = {})] /\ UNCHANGED submitted

StatusOf(t) == IF t \in DOMAIN form.status THEN form.status[t] ELSE NoVerdict
WithStatus(ts, s) ==
  [t \in DOMAIN form.status \cup ts |-> IF t \in ts THEN s ELSE form.status[t]]
updateStatus(t, s) ==
  /\ form.action = "VALIDATION" /\ t \in form.tasks
  /\ form' = [form EXCEPT !.status = WithStatus({t}, s)] /\ UNCHANGED submitted
\* More than three tasks can be given one status at once, which forgets the others.
SetAll(s) ==
  /\ form.action = "VALIDATION" /\ Cardinality(form.tasks) > 3
  /\ form' = [form EXCEPT !.status = [t \in form.tasks |-> s]] /\ UNCHANGED submitted

\* A comment on one task, and its copy to all, or to those of the same status; a task
\* without a status has no such filter.
updateComment(t) ==
  /\ form.action = "VALIDATION" /\ t \in form.tasks
  /\ form' = [form EXCEPT !.comments = @ \cup {t}] /\ UNCHANGED submitted
copyCommentToTasks(t, same) ==
  /\ form.action = "VALIDATION" /\ t \in form.tasks \cap form.comments
  /\ form' = [form EXCEPT !.comments = @ \cup
       {u \in form.tasks : same /\ StatusOf(t) # NoVerdict => StatusOf(u) = StatusOf(t)}]
  /\ UNCHANGED submitted

TaskValidationSelector(t) ==
  \/ \E s \in Verdict : updateStatus(t, s)
  \/ updateComment(t)
  \/ \E same \in BOOLEAN : copyCommentToTasks(t, same)

\* A plausible slip: one verdict is enough.
IsAnyTaskVerified == form.status # <<>>
areAllTasksVerified == Cardinality(DOMAIN form.status) = Cardinality(form.tasks)
Submit(payload) ==
  /\ submitted' = {[of |-> form, verdicts |-> payload]}
  /\ form' = [form EXCEPT !.action = "done"]
submitMapping ==
  /\ form.action = "MAPPING" /\ form.chosen # "none"
  /\ Submit([t \in form.tasks |-> form.chosen])
submitValidation ==
  /\ form.action = "VALIDATION" /\ areAllTasksVerified
  /\ Submit([t \in form.tasks |-> StatusOf(t)])

VerdictsNext ==
  \/ \E action \in {"MAPPING", "VALIDATION"}, ts \in SUBSET Tasks,
        level \in {"BEGINNER", "ADVANCED"} : OpenForm(action, ts, level)
  \/ \E h \in Histories : HistoryArrives(h)
  \/ \E ts \in SUBSET Tasks : TasksArrive(ts)
  \/ ReadComments
  \/ \E s \in {"MAPPED", "READY", "BADIMAGERY"} : setSelectedStatus(s)
  \/ \E s \in Verdict : SetAll(s)
  \/ \E t \in Tasks : TaskValidationSelector(t)
  \/ submitMapping \/ submitValidation

VerdictsSpec == VerdictsInit /\ [][VerdictsNext]_verdictVars

----------------------------------------------------------------------------
\* While no lock is lost, what is submitted after a validation says of every task
\* whether it is valid: a status chosen twice, one chosen for all and then changed, or
\* a comment copied cannot make the count of the statuses right and one of them absent.
VerdictsComplete ==
  \A s \in submitted : s.of.tasks = s.of.opened =>
    \A t \in s.of.tasks : s.verdicts[t] # NoVerdict

\* A task whose bad imagery was once taken back is not marked so again, unless the
\* mapper chose it before the page knew the history, nor ever by a mapper who is not
\* advanced.
BadImageryOnce ==
  \A s \in submitted : \A t \in s.of.tasks :
    s.verdicts[t] = "BADIMAGERY" =>
      /\ s.of.level = "ADVANCED"
      /\ useDisableBadImagery(s.of.history) => s.of.early

\* What is submitted, by whichever tab, is complete and allowed.
VerdictsSound == VerdictsComplete /\ BadImageryOnce
=============================================================================
