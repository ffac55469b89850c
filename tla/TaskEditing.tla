----------------------------- MODULE TaskEditing -----------------------------
(***************************************************************************)
(* The page on which a user works on locked tasks (views/taskAction.js;    *)
(* components/taskSelection: action.js, actionSidebars.js,                 *)
(* extendSession.js; hooks/UseAsync.js) and the expiry of the locks.       *)
(*                                                                         *)
(* Time is a counter.  The page arms two timers from the time of the last  *)
(* update that it was told: one warns that the lock is about to expire,    *)
(* one says that it has.  Timers are punctual: the clock waits for those   *)
(* that are due.  The server releases an expired lock at any later time.   *)
(* The locked tasks stand and fall together, so that they are one lock.    *)
(* What the page takes for its time is that of the newest row of the       *)
(* history, which a comment of anybody adds to.                            *)
(*                                                                         *)
(* The buttons for the outcome are of a form in a tab of the sidebar. It   *)
(* is mounted while that tab is shown, and only what is mounted knows of   *)
(* the request that its button waits for.                                  *)
(***************************************************************************)
EXTENDS Naturals, FiniteSets

CONSTANTS
  Expiry,      \* autoUnlockSeconds
  Warning,     \* MINUTES_BEFORE_DIALOG
  MaxTime,     \* bound on the clock
  MaxVisits,   \* bound on how often the page is opened
  MaxForms,    \* bound on how often the user comes back to the form
  MaxLosses,   \* bound on the requests that fail
  MaxExtends   \* bound on the renewals under way, until the tasks are known again

ASSUME TimesAssumption ==
  /\ {Expiry, Warning, MaxTime, MaxVisits, MaxForms, MaxLosses, MaxExtends} \subseteq Nat
  /\ 0 < Warning /\ Warning < Expiry

VARIABLES
  clock,
  lock,       \* the server's lock: whether I hold it, since when, and the time of the
              \* newest row of the history
  work,       \* the page: where, action, visit, which mounting of the form, seen (time of
              \* the last update), whether the embedded editor has edits that are not
              \* uploaded, and whether extensions
              \* crossed: the timer was stopped by one that the page had been told of
  timers,     \* when the two timers are due; Off when not armed
  dialogs,    \* the two dialogs about the session: "closed", "open" or "done"
  pending,    \* the buttons of the form whose useAsync has the status "pending"
  sent,       \* the requests under way
  losses

editVars == <<clock, lock, work, timers, dialogs, pending, sent, losses>>

Off == MaxTime + Expiry + 1
Buttons == {"submit", "split", "stop"}
Kinds == Buttons \cup {"tasks", "extend", "relock"}

\* form matters to the requests of the buttons.
Request(kind, visit, form) ==
  [kind |-> kind, visit |-> visit, form |-> form, to |-> "server", ok |-> FALSE, updated |-> 0]

EditInit ==
  /\ clock = 0 /\ lock = [held |-> TRUE, since |-> 0, row |-> 0]
  /\ work = [where |-> "away", action |-> "MAPPING", visit |-> 0, form |-> 0, seen |-> 0, edits |-> FALSE,
             crossed |-> FALSE]
  /\ timers = [about |-> Off, expired |-> Off]
  /\ dialogs = [about |-> "closed", expired |-> "closed"]
  /\ pending = {}
  /\ sent = {} /\ losses = 0

----------------------------------------------------------------------------
(* The server. *)

Answered(r, ok) == (sent \ {r}) \cup {[r EXCEPT !.to = "page", !.ok = ok]}
NoLock == [held |-> FALSE, since |-> 0, row |-> 0]

\* A lock that is held may be extended and ended; one that is not held can be had again
\* while the tasks are free, which after a submission they are not.  No two rows of the
\* history have the same time.
Act(r) ==
  \/ /\ r.kind = "tasks"
     /\ sent' = (sent \ {r}) \cup
          {[r EXCEPT !.to = "page", !.ok = lock.held, !.updated = lock.row]}
     /\ UNCHANGED lock
  \/ /\ r.kind = "extend" \/ r.kind = "relock"
     /\ r.kind = "extend" => lock.held
     /\ lock.held => lock.row < clock
     /\ lock' = [held |-> TRUE, since |-> clock, row |-> clock]
     /\ sent' = (sent \ {r}) \cup {[r EXCEPT !.to = "page", !.ok = TRUE, !.updated = clock]}
  \/ /\ r.kind \in Buttons /\ lock.held
     /\ \/ lock' = NoLock /\ sent' = Answered(r, TRUE)
        \/ r.kind = "split" /\ sent' = Answered(r, FALSE) /\ UNCHANGED lock
  \/ /\ r.kind \in Kinds \ {"tasks"} /\ ~lock.held
     /\ sent' = Answered(r, FALSE) /\ UNCHANGED lock

ServerActs(r) ==
  /\ r \in sent /\ r.to = "server" /\ Act(r)
  /\ UNCHANGED <<clock, work, timers, dialogs, pending, losses>>

\* Anybody comments on the locked task.
AddComment ==
  /\ lock.held /\ lock.row < clock
  /\ lock' = [lock EXCEPT !.row = clock]
  /\ UNCHANGED <<clock, work, timers, dialogs, pending, sent, losses>>

AutoUnlock ==
  /\ lock.held /\ clock >= lock.since + Expiry
  /\ lock' = NoLock
  /\ UNCHANGED <<clock, work, timers, dialogs, pending, sent, losses>>

----------------------------------------------------------------------------
(* Timers. *)

Due == {t \in {"about", "expired"} : timers[t] <= clock}
Tick ==
  /\ clock < MaxTime /\ Due = {}
  /\ clock' = clock + 1
  /\ UNCHANGED <<lock, work, timers, dialogs, pending, sent, losses>>

\* The warning closes the other dialog, and the notice of expiry the warning; when
\* both are due the warning, which was armed first, comes first.
WarnAboutToExpire ==
  /\ "about" \in Due
  /\ timers' = [timers EXCEPT !.about = Off]
  /\ dialogs' = [about |-> "open", expired |-> "closed"]
  /\ UNCHANGED <<clock, lock, work, pending, sent, losses>>
TellExpired ==
  /\ "expired" \in Due /\ "about" \notin Due
  /\ timers' = [timers EXCEPT !.expired = Off]
  /\ dialogs' = [about |-> "closed", expired |-> "open"]
  /\ UNCHANGED <<clock, lock, work, pending, sent, losses>>

\* The effect on [lastUpdated], with the due time at once where it is past.
At(t) == IF t < clock THEN clock ELSE t
\* A variant: only the warning is armed.
ArmedAbout(seen) == [about |-> At(seen + Expiry - Warning), expired |-> Off]
Armed(seen) == [about |-> At(seen + Expiry - Warning), expired |-> At(seen + Expiry)]
NoTimers == [about |-> Off, expired |-> Off]
NoDialogs == [about |-> "closed", expired |-> "closed"]

----------------------------------------------------------------------------
(* Answers. *)

\* Whether the component that sent the request is still there to be changed.
Mounted(r) == r.visit = work.visit /\ work.where \in {"loading", "work"}

Gone(where) ==
  /\ work' = [work EXCEPT !.where = where, !.seen = 0, !.edits = FALSE, !.crossed = FALSE]
  /\ timers' = NoTimers /\ dialogs' = NoDialogs /\ pending' = {}

\* What is shown when no task is locked.
NothingLocked == "empty"

\* getTasks: the page of the tasks, the notice that there are none, or, when the
\* request fails, the page to select tasks.  The timers are armed again only when
\* the time of the last update is another one.
TasksAnswer(r, ok) ==
  \/ ~ok /\ Gone("away")
  \/ ok /\ ~Mounted(r) /\ UNCHANGED <<work, timers, dialogs, pending>>
  \/ ok /\ Mounted(r) /\ ~r.ok /\ Gone(NothingLocked)
  \/ /\ ok /\ Mounted(r) /\ r.ok
     /\ IF work.where = "work" /\ work.seen = r.updated THEN UNCHANGED <<work, timers>>
        ELSE /\ work' = [work EXCEPT !.where = "work", !.seen = r.updated, !.crossed = FALSE]
             /\ timers' = Armed(r.updated)
     /\ UNCHANGED <<dialogs, pending>>

\* A variant: the answer that fails leaves the button as it was.
ButtonAnswerUncaught(r, ok) ==
  \/ ok /\ Gone("away")
  \/ ~ok /\ UNCHANGED <<work, timers, dialogs, pending>>
\* Success navigates away, also when the page has gone already.
ButtonAnswer(r, ok) ==
  \/ ok /\ Gone("away")
  \/ /\ ~ok
     /\ pending' = IF Mounted(r) /\ r.form = work.form THEN pending \ {r.kind} ELSE pending
     /\ UNCHANGED <<work, timers, dialogs>>

\* Success also asks for the tasks again, and stops the timer of the expiry; the
\* dialog, if it is still open, says so, and an error leaves it with its button.
RenewAnswer(r, ok, dialog) ==
  /\ dialogs' = IF ok /\ Mounted(r) /\ dialogs[dialog] # "closed"
                THEN [dialogs EXCEPT ![dialog] = "done"] ELSE dialogs
  /\ IF ok /\ Mounted(r) /\ r.kind = "extend"
     THEN /\ timers' = [timers EXCEPT !.expired = Off]
          /\ work' = [work EXCEPT !.crossed = @ \/ r.updated <= work.seen]
     ELSE UNCHANGED <<timers, work>>
  /\ UNCHANGED pending

\* What is asked for next; a variant: after an extension, nothing.
FollowUpRelockOnly(r, ok) == IF ok /\ r.kind = "relock" THEN {Request("tasks", r.visit, 0)} ELSE {}
FollowUp(r, ok) ==
  IF ok /\ r.kind \in {"extend", "relock"} THEN {Request("tasks", r.visit, 0)} ELSE {}

Answer(r, ok) ==
  /\ sent' = (sent \ {r}) \cup FollowUp(r, ok)
  /\ \/ r.kind = "tasks" /\ TasksAnswer(r, ok)
     \/ r.kind \in Buttons /\ ButtonAnswer(r, ok)
     \/ r.kind = "extend" /\ RenewAnswer(r, ok, "about")
     \/ r.kind = "relock" /\ RenewAnswer(r, ok, "expired")
  /\ UNCHANGED <<clock, lock>>

AnswerArrives(r) ==
  r \in sent /\ r.to = "page" /\ Answer(r, r.ok \/ r.kind = "tasks") /\ UNCHANGED losses
AnswerLost(r) ==
  r \in sent /\ losses < MaxLosses /\ losses' = losses + 1 /\ Answer(r, FALSE)

----------------------------------------------------------------------------
(* The user. *)

Idle == UNCHANGED <<clock, lock, losses>>
Send(request) == request \notin sent /\ sent' = sent \cup {request}

OpenPage(action) ==
  /\ work.where = "away" /\ work.visit < MaxVisits
  /\ work' = [work EXCEPT !.where = "loading", !.action = action, !.visit = @ + 1]
  /\ sent' = sent \cup {Request("tasks", work.visit + 1, 0)}
  /\ UNCHANGED <<timers, dialogs, pending>> /\ Idle

LeavePage == work.where # "away" /\ Gone("away") /\ UNCHANGED sent /\ Idle

AtWork == work.where = "work" /\ dialogs = NoDialogs

\* setDisable: the embedded editor has changes that are not uploaded, or no longer.
EditMap ==
  /\ AtWork /\ work' = [work EXCEPT !.edits = ~@]
  /\ UNCHANGED <<timers, dialogs, pending, sent>> /\ Idle

\* To another tab or without the sidebar, and back: the form is mounted anew.  In
\* between there are no buttons; nothing else depends on it.
setActiveSection ==
  /\ work.where = "work" /\ work.form < MaxForms
  /\ work' = [work EXCEPT !.form = @ + 1] /\ pending' = {}
  /\ UNCHANGED <<timers, dialogs, sent>> /\ Idle

\* Every request needs the edits uploaded; otherwise a message says so.
Run(button) ==
  /\ IF work.edits THEN pending' = pending \ {button} /\ UNCHANGED sent
     ELSE Send(Request(button, work.visit, work.form)) /\ pending' = pending \cup {button}
  /\ UNCHANGED <<work, timers, dialogs>> /\ Idle

\* With a status chosen, for every task when validating.
submitTask == AtWork /\ ~work.edits /\ pending = {} /\ Run("submit")
splitTask == AtWork /\ work.action = "MAPPING" /\ pending = {} /\ Run("split")

\* stopMapping, whose button looks at the status of the function and not of the
\* request, and stopValidation.
\* A variant: as if the typing error were in both tabs.
StopAlwaysAgain == pending \subseteq {"stop"}
StopEnabled == pending \subseteq (IF work.action = "MAPPING" THEN {"stop"} ELSE {})
stopTask == AtWork /\ StopEnabled /\ Run("stop")

\* The dialogs.  Their buttons stay while the request is under way.
Renew(dialog, kind) ==
  /\ dialogs[dialog] = "open"
  /\ Cardinality({r \in sent : r.kind \in {"extend", "relock", "tasks"}}) < MaxExtends
  /\ Send(Request(kind, work.visit, 0))
  /\ UNCHANGED <<work, timers, dialogs, pending>> /\ Idle
CloseDialog(d) ==
  /\ dialogs[d] # "closed" /\ dialogs' = [dialogs EXCEPT ![d] = "closed"]
  /\ UNCHANGED <<work, timers, pending, sent>> /\ Idle

SessionAboutToExpire == Renew("about", "extend") \/ CloseDialog("about")
SessionExpired == Renew("expired", "relock") \/ CloseDialog("expired")

CompletionTabForMapping ==
  work.action = "MAPPING" /\ (submitTask \/ splitTask \/ stopTask)
CompletionTabForValidation ==
  work.action = "VALIDATION" /\ (submitTask \/ stopTask)

TaskMapAction ==
  \/ WarnAboutToExpire \/ TellExpired \/ setActiveSection
  \/ CompletionTabForMapping \/ CompletionTabForValidation
  \/ SessionAboutToExpire \/ SessionExpired

EditNext ==
  \/ \E r \in sent : ServerActs(r) \/ AnswerArrives(r) \/ AnswerLost(r)
  \/ Tick \/ AddComment \/ AutoUnlock \/ EditMap \/ TaskMapAction
  \/ \E action \in {"MAPPING", "VALIDATION"} : OpenPage(action)
  \/ LeavePage

\* Time passes, timers fire and requests are answered; the user need do nothing.
EditFairness ==
  /\ WF_editVars(Tick \/ WarnAboutToExpire \/ TellExpired)
  /\ \A kind \in Kinds :
       WF_editVars(\E r \in sent : r.kind = kind /\ (ServerActs(r) \/ AnswerArrives(r)))
  /\ WF_editVars(\E r \in sent : r.kind = "stop" /\ AnswerArrives(r))

EditSpec == EditInit /\ [][EditNext]_editVars /\ EditFairness

----------------------------------------------------------------------------
\* While a validator's answer is awaited no second one is sent from the form that waits
\* for it: a submission and an end of the validation cannot both be under way (the
\* buttons of CompletionTabForValidation; those of the mapping tab fail at this, and so
\* does the page: a form mounted anew does not know what the last one waits for).
OneOutcome ==
  work.action = "VALIDATION" =>
    \A r, s \in sent :
      Mounted(r) /\ Mounted(s) /\ r.form = s.form /\ {r.kind, s.kind} \subseteq Buttons => r = s

\* The page always has the timer that will say that the lock has expired, unless its
\* time has come or the tasks are being fetched: neither a warning, an extension that
\* clears it, an answer that fails nor another look at the tasks loses it.  It is lost
\* in one way: by an extension asked for a second time before the dialog said that it
\* was done, if its answer comes after the tasks have already told the page of it.
ExpiryWatched ==
  work.where = "work" /\ ~work.crossed =>
    \/ timers.expired = At(work.seen + Expiry)
    \/ clock >= work.seen + Expiry
    \/ \E r \in sent : r.kind = "tasks" /\ Mounted(r)

\* A button that waits comes back: the request succeeds, fails or is lost, or the page
\* is left (UseAsync).
ButtonsComeBack == \A b \in Buttons : b \in pending ~> b \notin pending

\* A user who stays is told of the expiry of the lock that the page knows of, or the
\* page comes to know of a later one; unless extensions crossed.
ExpiryTold ==
  work.where = "work" /\ clock < work.seen + Expiry ~>
    \/ work.where # "work" \/ dialogs.expired # "closed" \/ work.crossed
    \/ work.seen + Expiry > MaxTime
=============================================================================
