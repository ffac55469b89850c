---------------------------- MODULE TaskSelection ----------------------------
(***************************************************************************)
(* The page on which a user picks a task and asks for its lock             *)
(* (components/taskSelection: index.js, footer.js, lockedTasks.js, map.js, *)
(* taskList.js, contributions.js; hooks/UseLockedTasks.js), against the    *)
(* server and the other users.                                             *)
(*                                                                         *)
(* Requests are elements of "net": they are served and their answers       *)
(* arrive in any order, or they fail, before or after the server acted.    *)
(* The effects that React runs after an answer or a click belong to it.    *)
(* Answers to a page that is no longer mounted set no state of it, nor of  *)
(* the page mounted since, but still write to the redux store and navigate.*)
(*                                                                         *)
(* The editors that are not part of the page get a window of their own,    *)
(* opened with the click: the browser may block it, and the user may have  *)
(* closed it when the answer arrives.                                      *)
(***************************************************************************)
EXTENDS Naturals, ProjectPermissions

CONSTANTS
  Grid,          \* the tasks of the project
  Cut, Parts,    \* the task that another user may split, and what it becomes
  NoTask,        \* stands for undefined and null
  Me,            \* the user, as a UserOnProject
  Project,       \* the project, as a ProjectAccess
  Starts,        \* what "table" and "elsewhere" may be to begin with, and how much of
                 \* the bounds below is then left unused
  MaxMoves,      \* bound on how often the user goes to a page or asks for a lock
  MaxChanges,    \* bound on what others do
  MaxFaults,     \* bound on the requests that fail
  MaxPolls       \* bound on the requests for activities under way

ASSUME SelectionAssumption ==
  /\ Cut \in Grid /\ Parts \cap Grid = {} /\ NoTask \notin Grid \cup Parts
  /\ Me \in UserOnProject /\ Project \in ProjectAccess
  /\ MaxMoves \in Nat /\ MaxChanges \in Nat /\ MaxFaults \in Nat /\ MaxPolls \in Nat

VARIABLES
  table,       \* the server's tasks: status, lockedBy, mappedBy and the status to go back to
  elsewhere,   \* the ids of the tasks of another project that I hold, NoTask for one
               \* that no task of this project has
  store,       \* redux lockedTasks: project, tasks and status
  page,        \* what I look at: "select", "map", "validate", "away" or "broken"
  ui,          \* the state of the selection page
  net,         \* the requests under way
  fetched,     \* history: how many times my locks were asked for, and what has become
               \* of the last of these requests
  changes, faults, moves

selVars == <<table, elsewhere, store, page, ui, net, fetched, changes, faults, moves>>

TaskIds == Grid \cup Parts
Statuses == {"READY", "LOCKED_FOR_MAPPING", "MAPPED", "LOCKED_FOR_VALIDATION",
             "VALIDATED", "INVALIDATED", "BADIMAGERY"}
Locks == {"LOCKED_FOR_MAPPING", "LOCKED_FOR_VALIDATION"}
Who == {"me", "other", "none"}
Row == [status: Statuses, lockedBy: Who, mappedBy: Who, before: Statuses]

Empty == [t \in {} |-> {}]

ClearStore == [project |-> "none", tasks |-> {}, status |-> "none"]
FreshUI == [visit |-> 0, window |-> "open", acts |-> Empty, grid |-> Empty, latest |-> 0, mapInit |-> FALSE, selected |-> {},
            action |-> "mapATask", random |-> NoTask, pending |-> FALSE, err |-> "none",
            zoomed |-> NoTask]   \* visit numbers the mounts of the page

\* The requests sent when the page is mounted, and by each tick after.
ActsRequest(visit) == [kind |-> "acts", to |-> "server", visit |-> visit, data |-> Empty]
MineRequest(n) == [kind |-> "mine", to |-> "server", nr |-> n, data |-> ClearStore]
GridRequest(visit, acts) ==
  [kind |-> "grid", to |-> "server", visit |-> visit, base |-> acts, data |-> Empty]
LockRequest(kind, sent, named, window) ==
  [kind |-> kind, to |-> "server", visit |-> ui.visit, window |-> window,
   sent |-> sent, named |-> named, granted |-> FALSE]

SelInit ==
  /\ \E start \in Starts :
       /\ table = start.table /\ elsewhere = start.elsewhere
       /\ changes = start.changes /\ faults = start.faults /\ moves = start.moves
  /\ store = ClearStore /\ page = "away" /\ ui = FreshUI /\ net = {}
  /\ fetched = [nr |-> 0, last |-> "none"]

MyLocks == {t \in DOMAIN table : table[t].lockedBy = "me"}

----------------------------------------------------------------------------
(* The server. *)

Mappable(row) == row.status \in {"READY", "INVALIDATED"}
Validatable(row) ==
  /\ row.status \in {"MAPPED", "INVALIDATED", "BADIMAGERY"}
  /\ row.mappedBy # "me" \/ Me.role = "ADMIN"

Lock(row, status, who) ==
  [row EXCEPT !.status = status, !.lockedBy = who,
              !.before = IF row.status \in Locks THEN @ ELSE row.status]
Unlock(row, status) ==
  [row EXCEPT !.status = status, !.lockedBy = "none",
              !.mappedBy = IF status \in {"MAPPED", "BADIMAGERY"} /\ row.status = "LOCKED_FOR_MAPPING"
                           THEN row.lockedBy ELSE @]

GrantMapping(sent) ==
  \E t \in DOMAIN table :
    /\ sent = {t}
    /\ \/ table[t].lockedBy = "me"
       \/ /\ Mappable(table[t])
          /\ is_user_permitted_to_map(Me, Project, MyLocks \cup elsewhere # {})

GrantValidation(sent) ==
  /\ sent \subseteq DOMAIN table
  /\ \A t \in sent : \/ table[t].lockedBy = "me" /\ table[t].status = "LOCKED_FOR_VALIDATION"
                     \/ Validatable(table[t])
  /\ LET held == MyLocks \cup elsewhere IN
     IF held = {} THEN is_user_permitted_to_validate(Me, Project, FALSE)
     ELSE \* found before the team, the level and the list of users are looked at
          /\ Me.role # "READ_ONLY"
          /\ Project.draft => is_user_action_permitted_on_project(Me, Project)
          /\ held = sent

\* get_locked_tasks_for_user: the ids in all projects, the project and the status of
\* whichever comes last.
LockedQuery ==
  LET held == MyLocks \cup elsewhere IN
  IF held = {} THEN {ClearStore}
  ELSE {[project |-> "here", tasks |-> held, status |-> table[t].status] : t \in MyLocks}
       \cup {[project |-> "elsewhere", tasks |-> held, status |-> "LOCKED_FOR_MAPPING"] : t \in elsewhere}

Activities == [t \in DOMAIN table |-> [status |-> table[t].status,
                                       mine |-> table[t].lockedBy = "me"]]

\* What the last request for my locks was told is no longer so.
Outdated ==
  [fetched EXCEPT !.last = IF @ \in {"served", "answered"} THEN "outdated" ELSE @]

Serve(r) ==
  /\ r \in net /\ r.to = "server"
  /\ \/ /\ r.kind = "acts"
        /\ net' = (net \ {r}) \cup {[r EXCEPT !.to = "page", !.data = Activities]}
        /\ UNCHANGED <<table, fetched>>
     \/ /\ r.kind = "grid"
        /\ net' = (net \ {r}) \cup {[r EXCEPT !.to = "page", !.data = table]}
        /\ UNCHANGED <<table, fetched>>
     \/ /\ r.kind = "mine"
        /\ \E held \in LockedQuery :
             net' = (net \ {r}) \cup {[r EXCEPT !.to = "page", !.data = held]}
        /\ fetched' = IF r.nr = fetched.nr THEN [fetched EXCEPT !.last = "served"] ELSE fetched
        /\ UNCHANGED table
     \/ /\ r.kind \in {"map", "validate"}
        /\ LET granted == IF r.kind = "map" THEN GrantMapping(r.sent) ELSE GrantValidation(r.sent)
               status == IF r.kind = "map" THEN "LOCKED_FOR_MAPPING" ELSE "LOCKED_FOR_VALIDATION"
           IN /\ net' = (net \ {r}) \cup {[r EXCEPT !.to = "page", !.granted = granted]}
              /\ fetched' = IF granted THEN Outdated ELSE fetched
              /\ table' = IF granted
                          THEN [t \in DOMAIN table |->
                                  IF t \in r.sent THEN Lock(table[t], status, "me") ELSE table[t]]
                          ELSE table
  /\ UNCHANGED <<elsewhere, store, page, ui, changes, faults, moves>>

(* What happens on the server that this page did not ask for. *)
Change(newTable, newElsewhere) ==
  /\ changes < MaxChanges /\ changes' = changes + 1
  /\ table' = newTable /\ elsewhere' = newElsewhere /\ fetched' = Outdated
  /\ UNCHANGED <<store, page, ui, net, faults, moves>>

OthersLock(t) ==
  \/ Mappable(table[t]) /\ Change([table EXCEPT ![t] = Lock(@, "LOCKED_FOR_MAPPING", "other")], elsewhere)
  \/ /\ table[t].status \in {"MAPPED", "BADIMAGERY"}
     /\ Change([table EXCEPT ![t] = Lock(@, "LOCKED_FOR_VALIDATION", "other")], elsewhere)

OthersUnlock(t) ==
  /\ table[t].lockedBy = "other"
  /\ \E s \in {table[t].before} \cup
              (IF table[t].status = "LOCKED_FOR_MAPPING" THEN {"MAPPED", "BADIMAGERY"}
               ELSE {"VALIDATED", "INVALIDATED"}) :
       Change([table EXCEPT ![t] = Unlock(@, s)], elsewhere)

OthersSplit ==
  /\ Cut \in DOMAIN table /\ table[Cut].lockedBy = "other"
  /\ table[Cut].status = "LOCKED_FOR_MAPPING"
  /\ Change([t \in (DOMAIN table \ {Cut}) \cup Parts |->
               IF t \in Parts THEN [status |-> "READY", lockedBy |-> "none",
                                    mappedBy |-> "none", before |-> "READY"]
               ELSE table[t]], elsewhere)

\* The server releases an old lock of mine, or I end one from another window.
MyLockReleased(t) ==
  /\ table[t].lockedBy = "me"
  /\ Change([table EXCEPT ![t] = Unlock(@, table[t].before)], elsewhere)
LockElsewhereReleased == elsewhere # {} /\ Change(table, {})

----------------------------------------------------------------------------
(* The page. *)

\* A variant: the statuses stay those of the grid.
updateTasksStatusOfGrid(grid, acts) == grid
\* updateTasksStatus: statuses of the activities, all else of the grid.
updateTasksStatus(grid, acts) ==
  [t \in DOMAIN grid |->
     IF t \in DOMAIN acts THEN [grid[t] EXCEPT !.status = acts[t].status] ELSE grid[t]]

getRandomTaskByAction(acts, action) ==
  LET suited == IF action \in {"validateATask", "validateAnotherTask"} THEN {"MAPPED", "BADIMAGERY"}
                ELSE IF action \in {"mapATask", "mapAnotherTask"} THEN {"READY", "INVALIDATED"}
                ELSE {}
      choices == {t \in DOMAIN acts : acts[t].status \in suited}
  IN IF choices = {} THEN {NoTask} ELSE choices

\* The effect on [activities, taskAction]; nothing changes before the first answer.
WithRandom(u, v) ==
  IF v.acts = Empty \/ (v.acts = u.acts /\ v.action = u.action) THEN {v}
  ELSE {[v EXCEPT !.random = t] : t \in getRandomTaskByAction(v.acts, v.action)}

\* Which tasks to resume, or what to offer, when the first activities arrive.
ResumeAction(status) == IF status = "LOCKED_FOR_MAPPING" THEN "resumeMapping" ELSE "resumeValidation"
LockedByCurrentUser(acts) == {t \in DOMAIN acts : acts[t].status \in Locks /\ acts[t].mine}

MapInit(u, acts) ==
  LET mine == LockedByCurrentUser(acts) IN
  IF u.mapInit THEN u
  ELSE IF mine # {} THEN [u EXCEPT !.mapInit = TRUE, !.selected = mine,
                            !.action = ResumeAction(acts[CHOOSE t \in mine : TRUE].status)]
  ELSE [u EXCEPT !.mapInit = TRUE, !.action = getTaskAction(Me, Project, "none")]

\* The page that asked is still there.
Asker(r) == page = "select" /\ r.visit = ui.visit

\* A new object is a change of "activities", even when nothing in it differs.
DeliverActivities(r) ==
  /\ r.kind = "acts"
  /\ IF ~Asker(r) THEN net' = net \ {r} /\ UNCHANGED <<store, ui>>
     ELSE LET acts == r.data
              mine == LockedByCurrentUser(acts)
              more == Cardinality(DOMAIN acts) # ui.latest
              u == [MapInit(ui, acts) EXCEPT
                      !.acts = acts, !.grid = updateTasksStatus(@, acts),
                      !.latest = Cardinality(DOMAIN acts)]
          IN /\ ui' \in {[u EXCEPT !.random = t] : t \in getRandomTaskByAction(acts, u.action)}
             /\ net' = (net \ {r}) \cup (IF more THEN {GridRequest(ui.visit, acts)} ELSE {})
             /\ store' = IF ~ui.mapInit /\ mine # {}
                         THEN [project |-> "here", tasks |-> mine,
                               status |-> acts[CHOOSE t \in mine : TRUE].status]
                         ELSE store
  /\ UNCHANGED <<page, fetched>>

\* The grid comes with the statuses of the activities it was asked for with.  The
\* map then moves to the zoomed task, and fails on a task that is gone.
DeliverGrid(r) ==
  /\ r.kind = "grid"
  /\ net' = net \ {r}
  /\ IF ~Asker(r) THEN UNCHANGED <<ui, page>>
     ELSE LET grid == updateTasksStatus([t \in DOMAIN r.data |->
                        [status |-> r.data[t].status, mappedBy |-> r.data[t].mappedBy]], r.base)
          IN IF ui.zoomed # NoTask /\ ui.zoomed \notin DOMAIN grid
             THEN page' = "broken" /\ ui' = FreshUI
             ELSE ui' = [ui EXCEPT !.grid = grid] /\ UNCHANGED page
  /\ UNCHANGED <<store, fetched>>

\* A variant: the activities are asked for instead.
fetchActivitiesInstead == ActsRequest(ui.visit)
fetchLockedTasks == MineRequest(fetched.nr + 1)

\* A variant: the button keeps waiting.
lockFailedPending(u, err) == [u EXCEPT !.err = err]
lockFailed(u, err) == [u EXCEPT !.err = err, !.pending = FALSE]

\* Closing a window that was blocked throws, and the rest is not done.
LockFailed(r, err) ==
  IF r.window = "blocked" THEN net' = net \ {r} /\ UNCHANGED <<ui, fetched>>
  ELSE /\ net' = (net \ {r}) \cup {fetchLockedTasks}
       /\ fetched' = [nr |-> fetched.nr + 1, last |-> "asked"]
       /\ ui' = IF Asker(r) THEN lockFailed(ui, err) ELSE ui

lockSuccess(r) ==
  /\ store' = [project |-> "here", tasks |-> r.named,
               status |-> IF r.kind = "map" THEN "LOCKED_FOR_MAPPING" ELSE "LOCKED_FOR_VALIDATION"]
  /\ page' = r.kind /\ ui' = FreshUI
  \* To map in an editor of the page, it loads the site again.
  /\ net' \in {net \ {r}} \cup (IF r.kind = "map" THEN {{}} ELSE {})
  /\ UNCHANGED fetched

\* openEditor opens a closed window again, which the browser may block: it then throws,
\* and the granted lock is taken for a failure.
DeliverLock(r) ==
  /\ r.kind \in {"map", "validate"}
  /\ \/ r.granted /\ r.window = "open" /\ lockSuccess(r)
     \/ r.granted /\ LockFailed(r, "window") /\ UNCHANGED <<store, page>>
     \/ ~r.granted /\ LockFailed(r, "refused") /\ UNCHANGED <<store, page>>

DeliverMine(r) ==
  /\ r.kind = "mine"
  /\ net' = net \ {r} /\ store' = r.data
  /\ fetched' = [fetched EXCEPT !.last = IF r.nr = fetched.nr /\ @ = "served" THEN "answered"
                                         ELSE IF @ = "answered" THEN "overwritten" ELSE @]
  /\ UNCHANGED <<page, ui>>

Deliver(r) ==
  /\ r \in net /\ r.to = "page"
  /\ DeliverActivities(r) \/ DeliverGrid(r) \/ DeliverLock(r) \/ DeliverMine(r)
  /\ UNCHANGED <<table, elsewhere, changes, faults, moves>>

\* A request or its answer is lost.  Only a lost lock is noticed: the requests for
\* activities are logged, those for the grid and for my locks are not caught.
Fail(r) ==
  /\ r \in net /\ faults < MaxFaults /\ faults' = faults + 1
  /\ IF r.kind \in {"map", "validate"} THEN LockFailed(r, "lost")
     ELSE /\ net' = net \ {r} /\ UNCHANGED ui
          /\ fetched' = IF r.kind = "mine" /\ r.nr = fetched.nr
                        THEN [fetched EXCEPT !.last = "lost"] ELSE fetched
  /\ UNCHANGED <<table, elsewhere, store, page, changes, moves>>

Here == UNCHANGED <<table, elsewhere, fetched, changes, faults, moves>>
Move ==
  /\ moves < MaxMoves /\ moves' = moves + 1
  /\ UNCHANGED <<table, elsewhere, fetched, changes, faults>>

Mount ==
  /\ page = "away"
  /\ page' = "select" /\ ui' = [FreshUI EXCEPT !.visit = moves + 1]
  /\ net' = net \cup {ActsRequest(moves + 1)}
  /\ UNCHANGED store /\ Move

Leave ==
  /\ page \in {"select", "map", "validate", "broken"}
  /\ page' = "away" /\ ui' = FreshUI
  /\ UNCHANGED <<store, net>> /\ Here

\* useInterval, while the page is visible.
Poll ==
  /\ page = "select"
  /\ Cardinality({r \in net : r.kind = "acts"}) < MaxPolls
  /\ ActsRequest(ui.visit) \notin net
  /\ net' = net \cup {ActsRequest(ui.visit)}
  /\ UNCHANGED <<store, page, ui>> /\ Here

Ready == page = "select" /\ ui.mapInit /\ ui.err = "none"

Update(v) == ui' \in WithRandom(ui, v) /\ UNCHANGED <<store, page, net>> /\ Here

\* selectTask on one task.  "selection.length" of a number is undefined, so that the
\* branch for the only selected task is never taken.
Deselect(t) == [ui EXCEPT !.selected = @ \ {t}]

selectTask(t, status) ==
  IF t \in ui.selected THEN Deselect(t)
  ELSE IF ui.action = "validateSelectedTask" /\ status = "MAPPED"
       THEN [ui EXCEPT !.selected = @ \cup {t}]
  ELSE [ui EXCEPT !.selected = {t},
                  !.action = IF t \in store.tasks THEN ResumeAction(store.status)
                             ELSE getTaskAction(Me, Project, status)]

\* The map leaves out the tasks that I have mapped; the list does not.
ClickMap(t) ==
  /\ Ready /\ t \in DOMAIN ui.grid
  /\ ~(ui.grid[t].mappedBy = "me" /\ ui.grid[t].status = "MAPPED")
  /\ Update(selectTask(t, ui.grid[t].status))
ClickList(t) ==
  /\ Ready /\ t \in DOMAIN ui.grid /\ Update(selectTask(t, ui.grid[t].status))

\* The tasks of a contributor: those they mapped, those validated, or none again.
displayTasks(ts, status) ==
  /\ Ready /\ ts # {}
  /\ Update([ui EXCEPT !.selected = ts, !.action = getTaskAction(Me, Project, status)])
ClearTasks ==
  Ready /\ Update([ui EXCEPT !.selected = {}, !.action = getTaskAction(Me, Project, "none")])

ZoomTo(t) ==
  /\ Ready /\ t \in DOMAIN ui.grid /\ Update([ui EXCEPT !.zoomed = t])

\* What the footer is given to lock.
selectedTasks ==
  IF ui.selected # {} /\ ui.action \notin {"mapAnotherTask", "validateAnotherTask"}
  THEN ui.selected ELSE {ui.random}

Ask(kind, sent) ==
  \E window \in {"open", "blocked"} :
    /\ ui' = [ui EXCEPT !.pending = TRUE, !.window = window]
    /\ net' = net \cup {LockRequest(kind, sent, selectedTasks, window)}

lockTasks ==
  /\ Ready /\ ~ui.pending
  /\ \/ /\ ui.action \in NoMoreToDo
        /\ page' = "away" /\ ui' = FreshUI /\ UNCHANGED <<store, net>>
     \/ /\ ui.action \in ValidationActions
        /\ LET mappedTasks == {t \in selectedTasks \cap DOMAIN ui.grid : ui.grid[t].status = "MAPPED"}
           IN IF mappedTasks = {}
              THEN ui' = [ui EXCEPT !.err = "noMappedTasksSelected"] /\ UNCHANGED net
              ELSE Ask("validate", mappedTasks)
        /\ UNCHANGED <<store, page>>
     \/ /\ ui.action \in MappingActions
        /\ \E t \in selectedTasks : Ask("map", {t})
        /\ UNCHANGED <<store, page>>
     \/ /\ ui.action \in ResumeActions
        /\ page' = (IF ui.action = "resumeMapping" THEN "map" ELSE "validate")
        /\ ui' = FreshUI /\ UNCHANGED <<store, net>>
  /\ Move

\* The pop-up after a refusal: close it, or follow its link to my locked tasks.
CloseError ==
  /\ page = "select" /\ ui.err # "none"
  /\ ui' = [ui EXCEPT !.err = "none"] /\ UNCHANGED <<store, page, net>> /\ Here
GoToLockedTasks ==
  /\ page = "select" /\ ui.err # "none" /\ store.project # "none"
  /\ page' = (IF store.project = "elsewhere" THEN "away"
              ELSE IF store.status = "LOCKED_FOR_VALIDATION" THEN "validate" ELSE "map")
  /\ ui' = FreshUI /\ UNCHANGED <<store, net>> /\ Here

\* Work on the locked tasks ends: the server unlocks them, the store is cleared.
FinishWork ==
  /\ page \in {"map", "validate"} /\ MyLocks # {}
  /\ \E s \in {"LOCKED_FOR_MAPPING", "LOCKED_FOR_VALIDATION"}, new \in {"before", "done"} :
       /\ \A t \in MyLocks : table[t].status = s
       /\ table' = [t \in DOMAIN table |->
            IF t \notin MyLocks THEN table[t]
            ELSE Unlock(table[t], IF new = "before" THEN table[t].before
                                  ELSE IF s = "LOCKED_FOR_MAPPING" THEN "MAPPED" ELSE "VALIDATED")]
  /\ store' = ClearStore /\ page' = "away"
  /\ UNCHANGED <<elsewhere, ui, net, fetched, changes, faults, moves>>

TasksMap(t) == ClickMap(t)
TaskList(t) == ClickList(t) \/ ZoomTo(t)
Contributions ==
  \/ displayTasks({t \in DOMAIN ui.grid : ui.grid[t].status = "MAPPED"}, "MAPPED")
  \/ displayTasks({t \in DOMAIN ui.grid : ui.grid[t].status = "VALIDATED"}, "VALIDATED")
  \/ ClearTasks
LockedTaskModalContent == CloseError \/ GoToLockedTasks
TaskSelectionFooter == lockTasks \/ LockedTaskModalContent
TaskSelectionPage ==
  \/ Mount \/ Leave \/ Poll
  \/ \E t \in TaskIds : TasksMap(t) \/ TaskList(t)
  \/ Contributions \/ TaskSelectionFooter

ServeOne(kind) == \E r \in net : r.kind = kind /\ Serve(r)
DeliverOne(kind) == \E r \in net : r.kind = kind /\ Deliver(r)

SelNext ==
  \/ \E r \in net : Serve(r) \/ Deliver(r) \/ Fail(r)
  \/ \E t \in DOMAIN table : OthersLock(t) \/ OthersUnlock(t) \/ MyLockReleased(t)
  \/ OthersSplit \/ LockElsewhereReleased
  \/ TaskSelectionPage \/ FinishWork

\* The network and the timer go on; nothing says that the user does.
SelFairness ==
  /\ WF_selVars(Poll)
  /\ \A kind \in {"acts", "grid", "mine", "map", "validate"} :
       WF_selVars(ServeOne(kind)) /\ WF_selVars(DeliverOne(kind))

SelSpec == SelInit /\ [][SelNext]_selVars /\ SelFairness

----------------------------------------------------------------------------
\* The button to lock tasks that waits for its answer comes back, whether the lock is
\* granted, refused or the request or its answer lost (footer.js), unless the window for
\* the editor was blocked.
ClickAnswered == ui.pending /\ ui.window = "open" ~> ~ui.pending

\* On a page that stays open the statuses come to be those of the server for every
\* task it shows and the server still has, and stay so once nothing changes, whatever
\* the order of the answers: an older one is followed by a newer one.
StatusesConverge ==
  <>[](page = "select") =>
    <>[](\A t \in DOMAIN ui.grid \cap DOMAIN table : ui.grid[t].status = table[t].status)

\* The lock that was granted though the page took it for failed is found again: the store
\* comes to hold what the server says that I have locked, because lockFailed asks for
\* it.  It asks once: this last request must not be lost, its answer not be followed by
\* that of an earlier one, nor what it says be changed by others.
LockFoundAgain ==
  <>[](page = "select" /\ ui.err \in {"lost", "window"}
         /\ fetched.last \in {"asked", "served", "answered"}) => <>[](store \in LockedQuery)
=============================================================================
