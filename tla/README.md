# Formal models of the Tasking Manager

The Tasking Manager cuts an area to be mapped into *tasks*. Volunteers lock a
task, map it in OpenStreetMap, and hand it back as mapped; others lock mapped
tasks, check them and mark them validated or invalidated. This directory holds
TLA+ models of that work on the server (`src/backend`) and of the pages on which
it is done (`src/frontend/src`), TLC configurations that check them on small
instances, and proofs about them that TLAPS checks.

Run `tlc -config X.cfg M` and `tlapm M.tla` in this directory. `PROJECT.json`
lists the runs, the source lines of every definition (`map`), what is hard to
test in the code (`hazards`), and the disagreements found (`findings`).

## 1. The system

### The server

| Component | State it keeps | Operations that change it | Hard because |
|---|---|---|---|
| Task rows and history (`models/postgis/task.py`) | `tasks`: status, `locked_by`, `mapped_by`, `validated_by`; `task_history`: one row per lock, extension, comment, change of status; `task_invalidation_history` | lock, unlock, reset, clear lock, auto-unlock, record (in)validation | the status before a lock, the status an undo returns to, who mapped and whether a lock has expired are all *computed from the rows*, and rows are closed, rewritten and deleted |
| Mapping and validator service | none of their own | lock, unlock, stop, comment, undo, extend; map, validate, invalidate and reset all | checks on rows read earlier in the request; several commits per request; loops that can fail in the middle |
| Statistics (`stats_service.py`) | counters of a project and of each user | increments and decrements on each change of status | counters are kept beside the rows they count and are read, changed in Python and written back |
| Automatic release (`Task.auto_unlock_tasks`) | none | runs before the tasks of a project are read, and every two hours from the scheduler of `manage.py` | decides from the age of rows whether a lock is over, while its holder may extend or unlock |
| Split (`grid/split_service.py`) | none | replaces a task by four | copies history, clears a copied lock, recounts |
| Projects (`project_admin_service.py`, `project.py`) | `projects` and what hangs on them | create, update, publish, transfer, reset tasks | an update replaces everything by what one page sends |
| Permissions (`project_service.py`) | none | - | role, level, teams, privacy, draft, organisation, and the lock a user already holds |
| Teams (`team_service.py`, `models/postgis/team.py`) | rows of members, managers, requests | join, answer, add, leave, update | answered twice or after leaving; an update deletes whom it does not name |
| Organisations, campaigns, interests, licences | rows with unique names | create, update, delete | a check before a deletion |
| Messages (`messaging/`) | messages, the time the bell was rung | read, delete, count (cached) | - |
| Users (`users/user_service.py`) | details, role, level, counters | update, set role, set level | commits what the request has pending |

### The pages

The front end is a React application. Each page keeps its state in hooks, starts
requests from handlers and effects, and takes their answers in callbacks that
closed over the state of some earlier moment. Hardly any request is cancelled.
So on each page the answers arrive in any order, late, or never, while the user
goes on, and other users and the server's own timers change what was read.

| Page | State it keeps | Hard because |
|---|---|---|
| Picking a task (`taskSelection/index.js`, `footer.js`, `hooks/UseLockedTasks.js`) | activities, grid, selection, task action, pending button; locked tasks in the store | two polls that overtake each other; the answer that grants a lock may be lost; tasks are split under the selection |
| Working on a task (`action.js`, `actionSidebars.js`, `extendSession.js`) | two timers, two dialogs, buttons that exclude each other | expiry races extension, stop and submission |
| Outcome forms (`actionSidebars.js`) | verdicts and comments by task | counted, not matched; the history arrives while the form is in use |
| History of a task (`taskActivity.js`) | the rows shown | polling, comments and undo answer in any order |
| Creating a project (`projectCreate/`) | one record, written whole by every handler | a file, a trim and listeners of the map write back old copies |
| Editing a project (`projectEdit/`) | one copy of the project under nine forms | saved whole; published on checks of the page alone; transferred by what is not saved |
| Entering a project (`utils/projectPermissions.js`) | what was fetched on opening | decides with other code than the server |
| Teams (`views/teams.js`, `teamsAndOrgs/members.js`) | the lists of members with a backup | saves compare with a team loaded earlier |
| Catalogues (organisations, campaigns, interests, licences) | form, delete dialog | requests that are not awaited |
| Inbox and bell (`notifications/`) | page, ticks, open message, badge | lists replaced under the ticks |
| Searches (`projects/`, `contributions/`, `hooks/Use*QueryAPI.js`) | URL, throttled search, results, page | a page of another search; cancelled answers |
| Session and settings (`store/`, `views/settings.js`) | token, details, preloader - all kept in the browser | reloads; late details of another login; overlapping saves |
| List of users (`user/list.js`) | filters, page, menu | a request per change, none cancelled |

### How they interact

A request enters through `api/`, is served by a service, which reads rows,
checks permissions, changes rows and counters and sends messages. All share the
database and, within a request, one SQLAlchemy session. Several requests are
served at the same time by several workers, without row locks. Pages interact with
the server alone, and with each other through the redux store (the locked tasks,
the session, the chosen action) and the URL.

### What makes it correct

* A task nobody holds is in the status its history says; a task somebody holds
  is recorded as held by that user, in the newest lock row, by which
  `auto_unlock_tasks` will find it.
* A user holds one mapping lock or one batch of validation locks. (Not so across projects, section 5.)
* The counters of a project are the numbers of its tasks so recorded.
* Records of work are never lost; nobody but an administrator validates what they mapped.
* A page comes to show what the server has, its buttons come back, and a user
  who works on a task is told when the lock expires.
* What is created, saved, deleted or submitted is what the page showed, once.
* What a page offers, the server grants.
* Nobody enters or leaves a team but by his own or a manager's wish.

## 2. The modules

```
TaskHistory            rows of task_history of one task, the queries over them
  Task                 one task: lock, unlock, reset, undo, auto-unlock
    TaskLifecycle      the tasks of a project, users, permissions, counters
      TwoProjects      two of them, with the same users and ids of tasks
      RequestSteps     the same requests in steps, several workers, crashes
        SerialRequests the steps of one worker implement TaskLifecycle
      BulkActions      bulk actions of managers, splitting and deleting
    TaskProofs         lemmas about TaskHistory and Task
      TaskLifecycleProofs   types, status, counters, locks, records
        TaskVerdictProofs   mappers, validators, invalidations
        BulkActionsProofs   the same under bulk actions
        RequestStepsProofs  the steps: crashes, and the refinement of SerialRequests
ProjectPermissions     who may map and validate: by the page, by the server
  TaskSelection        the page to pick and lock tasks        (MCTasking)
  ProjectEntry         what is offered, asked for and granted
  ProjectEditing       the forms over one copy of a project
ProjectCreation        the four steps to a new project
TaskVerdicts           the forms for outcomes
  MCProjectPages       ProjectCreation, ProjectEditing, ProjectEntry, TaskEditing, TaskVerdicts
  ProjectPagesProofs   theorems about the first three
TaskEditing            the page to work on a task, its timers
TaskActivityDialog     the dialog with the history of a task
  MCEditing            TaskEditing, TaskActivityDialog
  TaskPageProofs       theorems about TaskEditing and TaskVerdicts
TeamMembership, Catalogue, Inbox, Browsing, Session, UserDirectory
  MCPeoplePages        those six
  PeoplePagesProofs    theorems about them
MCTaskLifecycle, MCRequestSteps, MCBulkActions   instances for TLC
```

### The server

**TaskHistory.** A history is the sequence of the rows of a task by date. Of
`action_text` is kept what the code distinguishes: the status named by a
STATE_CHANGE row, and `"open"` or `"closed"` for a lock row without or with a
duration. A deleted row stays as `Deleted`, so that positions identify rows.
`GetLastStatus`, `GetUndoStatus`, `GetLastAction`, `LastLocked`,
`LastLockedOrAutoUnlocked`, `GetLastMappedAction` are the queries of the same
names. `CloseLock` is `update_task_locked_with_duration` *with* the removal of
duplicate rows it falls into when it finds several open ones; `ExpireRows` is
`update_expired_and_locked_actions` on the rows older than the expiry date.

**Task.** A record with the columns `status`, `locked_by`, `mapped_by`,
`validated_by`, the history and the invalidations. One operator per method.
`UnlockTask` is the whole of `unlock_task`, including what it records about
(in)validations before it closes the lock row. Two quirks of the code are
modelled as they are: `extend_task_lock_time` compares an integer with an `Enum`
member, so that every extension is recorded as EXTENDED_FOR_MAPPING
(`ExtendAction`); and `record_invalidation` names as mapper whoever wrote the
newest MAPPED row, also a validator who handed the task back as MAPPED.

**TaskLifecycle.** `tasks`, the project's counters `project`, the users' credits
`tally`. One action per request of the mapping and validation services and one
for `auto_unlock_tasks`; requests for several tasks whose tasks are committed one
by one and can be left in the middle are one step per task; `LockTasksForValidation`
is one step, as nothing fails after its checks. What a user has locked in another project reaches it
only as bare ids (`away`), which is all `get_locked_tasks_for_user` gives: locks held elsewhere
refuse a mapping lock, but `lock_tasks_for_validation` forgives them when the ids are the ids asked for,
and then has not looked at team and level. Who is permitted to map or to validate and who is an
administrator are constants, except for the part of the permission that depends
on the state, the locks a user holds. The cut `k` of `AutoUnlockTask` is any
prefix of the history: time is not modelled, so any lock may expire at any
moment, which covers every clock. A verdict about a task without a mapper on
record is disabled because announcing it raises `NotFound` and what the request
did to this task is not committed by the service (what the API's `finally` clause
may commit is not modelled).

**TwoProjects** composes two instances of `TaskLifecycle` over the same `Users` and the same set of ids; each passes
what the user holds in it to the other. Every request of either project is a step of it.

**RequestSteps.** The variables of `TaskLifecycle` are here what is *committed*;
`request` holds, for each worker, the request it serves, the columns of the task
as its session has loaded them (`seen`) and the counters it has read (`counts`).
A request is cut where the database may change under it: between reading the
task, looking up the user's locks, and each commit.

| Request | Steps |
|---|---|
| lock for mapping, for validation | `ReadForMapping` / `ReadForValidation` (checks on the task) - `Permit` (checks on the user's locks; the request may end here) - `Lock` |
| unlock after mapping, after validation | `ReadToUnlock` - `Notify` (the mapper's message, a commit) - `Count` - `CommitCounts` (only if `upsert_mapped_projects` adds the project) - `Rows` - `Finish` |
| undo | `ReadToUndo` - `Count` - `CommitCounts` - `Rows` |
| stop | `ReadToStop` - `Close` - `Load` - `Clear` |
| extend | `ReadToExtend` - `Close` - `Extend` |
| automatic release | `FindExpired` - `Expire` - `Load` (goes on or not) - `Clear` |
| comment | `Comment` |

`Rows` is everything `unlock_task` commits with the duration of the lock, that is,
all but status and holder; without an open row there is no such commit and `Rows`
writes everything. `Written` is the rule of the unit of work, taken from how the code relies on
it: an `UPDATE` names only columns whose value differs from the one loaded, and
a commit makes the session forget what it loaded, so that `Finish` writes both
columns whatever they hold. Requests over several tasks handle them one after the
other and are not taken apart here; the commits of `remove_duplicate_task_history_rows`
are one with the commit that follows. `Crash` stops a worker between any two steps.

**SerialRequests.** `settled` is what the database held when last no request was
under way. With one worker `settled` behaves as `TaskLifecycle` (`WholeRequests`):
the models of whole requests are right about requests that do not overlap.

**BulkActions.** `live` (the ids in use) and `total` (`total_tasks`) are added.
A bulk action is one step, as the code commits at its end or does the same to
every task. `SplitTask` gives the parts the copied history, with the newest
LOCKED row deleted. The number of parts is a constant: 4 in the code, 2 in the run.

### The pages

All of them follow one scheme. The server is a record or function of the rows that
matter. Requests under way are a set of records, each with what it was sent with
and its *phase*: sent, answered, failed. One action serves a request, another
takes its answer to the page: so requests are served, and answers taken, in any
order. A handler of the page is one action, and the effects React runs after it are
part of that action. What was closed over by a callback is a field of the request.

**ProjectPermissions** has the two decisions as operators, `userCanMap`,
`userCanValidate`, `getTaskAction` for the page, `is_user_permitted_to_map`,
`is_user_permitted_to_validate` for the server, over a user and a project seen as
what the decisions read. **ProjectEntry** opens the page, lets the user or project
change, and asks for the lock.

**TaskSelection.** `table` is the server's tasks as pages see them, `store` the locked
tasks in redux, `page` and `ui` the component, `net` the requests. Others lock,
unlock and split tasks, locks are released, requests fail before or after the
server acted (`Fail`). When a lock fails the page closes the editor's window, which throws where the browser blocked it
(`LockFailed`), and asks once for the locked tasks; `fetched` follows that request. A click on several tasks, deselection with its untrue
test, the zoom that crashes the map (`page = "broken"`), and the store that survives a
change of project are modelled as they are.

**TaskEditing.** `clock` is bounded by `MaxTime`; timers are deadlines, and the clock
waits for those that are due, as the browser's timers do not come a whole unit late.
The server releases an expired lock at any later time. `work.crossed` marks the one way in
which the timer of the expiry is lost: the buttons of the dialogs can be pressed again while a request
is under way, and an extension answered after the tasks told of it stops the timer that they
armed. `work.form` counts how often the form of the outcome has been mounted: another tab or a hidden sidebar unmounts
it (`setActiveSection`), and with it what it knew of its requests. The server dates a task by the newest
row of its history, of any kind (`lock.row`, `AddComment`). **TaskActivityDialog** numbers
its calls so that an older answer may overtake a newer one. **TaskVerdicts** keeps the
forms apart from the network: what is `submitted` is compared with what was locked.

**ProjectCreation** and **ProjectEditing** carry history variables (`lapses`, `early`,
`others`) that name the ways in which a property fails in the code, so that the
property can be stated of everything else; each is explained at its declaration and in
section 5. On the map of a new project there are drawings (`features`), of which the way on deletes only the
one that is the first feature of the area, and listeners that stay: the one for `draw.update` writes the
metadata of the moment it was put there, whenever a drawing is dragged (`updater`, `DrawUpdate`). The priority areas have
the same listener (`dragPriorityArea`). The teams of an edited project are the set of its pairs of team and role.

**TeamMembership** has the rows of a team with `function` and `active`, the whole of
`Team.update` with its deletions, and the page with its backup lists. `trail`
records who was let in, asked to leave, was lost in one of the named ways, or
had a row that a save of the switch really deleted (`wiped`).
**Catalogue** is one module for four catalogues, which differ in what they await and
what errors they show; the deletion of an organisation is its check and its commit.
**Inbox** numbers messages as they arrive. **Browsing** has the URL, the throttle, the
cancelling hooks and the filters as records of small numbers; how many pages of results
a search has is a constant function. **Session** keeps what is persisted apart
from what a reload forgets. **UserDirectory** has the list of users with its filters,
its pages and the menu by which roles and levels are set. A request or its answer may be lost (`LoseQuery`), and levels rise
by themselves (`check_and_update_mapper_level`); `untold` says that the server has changed since and no answer will tell.

The definitions named *Variant* in comments are plausible mistakes; each is put in
the place of a definition of the model to see that a property notices (`mutants`).

## 3. What TLC checks

| Run | Specification and size | Shows |
|---|---|---|
| `task_requests` | `MCSpec` of `MCTaskLifecycle`, 2 users permitted everything and no administrator, 1 task; 6 rows, or 10 without comments, extensions, second locks and releases | status, lock and records, over every history of up to six rows of lock, unlock, stop, comment, undo, extension, second lock and release; who is on record as mapper, validator and invalidator, also over longer histories of map, validate, invalidate, hand back and undo; and, in two projects of two tasks with six rows in all, that no request adds an id to those a user holds |
| `serial_requests` | `SerialSpec`, 1 worker, 2 users, 1 task, 5 rows | requests in steps implement the requests of `TaskLifecycle` |
| `crashed_requests` | `StepsSpec`, 1 worker, 1 crash, 2 users, 1 task, 5 rows | what is committed agrees on status, holder, mapper and validator in the middle of requests and after a crash |
| `bulk_actions` | `MCSpec` of `MCBulkActions`, 2 users, 3 ids, splits in 2, 6 rows | status and lock when a manager maps, validates, invalidates, resets, splits and deletes while others hold tasks; and, where managers use only "invalidate all" and "reset all" (`restarting`), exact counters |
| `task_selection` | `SelSpec`, 1 task that may be split in 2, 1 poll at a time; with others about 2 moves, 1 change, 1 fault, or alone 3 moves and 2 faults | the page to pick a task recovers from late and lost answers |
| `task_editing` | `MCSpec` of `MCEditing`, clock to 3, expiry after 2, 1 loss, 1 extension under way; dialog with 3 rows | the expiry is announced; buttons come back; the history converges |
| `project_pages` | `GallerySpec` of `MCProjectPages` | creation, editing, entry and outcome forms are true to what they show and to the server; with two extensions of a task under way, or the form left and come back to, the outcomes of a form exclude each other, and the timer of the expiry is kept, but where extensions cross |
| `people_pages` | `GallerySpec` of `MCPeoplePages` | the same of teams, catalogues, inbox, searches, session and list of users |
| `second_lock` | `TwoSpec`, 2 users, 1 task in each project, 3 rows | a counterexample, section 5 |
| `lock_race` | `StepsSpec`, 2 workers | a counterexample, section 5 |
| `crashed_verdict` | `StepsSpec`, 1 worker, 1 crash, 7 rows, without stops, extensions and releases | a counterexample, section 5 |
| `team_toggle` | as `people_pages` | a counterexample, section 5 |

The properties of the server:

* `StatusOnRecord` - a task nobody holds is in the status its last STATE_CHANGE
  row names. `clear_lock` and `reset_lock` depend on it.
* `LockOnRecord` - a task is locked exactly when it has a holder, and the newest of its
  LOCKED and AUTO_UNLOCKED rows is then that holder's. `record_auto_unlock` and
  `auto_unlock_expired_tasks` take it for granted.
* `LockIsReapable` - a locked task has an open row no older than its lock.
* `CountersExact` - each counter is the number of tasks whose last recorded status
  it counts.
* `InvalidationPending` - at most one pending invalidation, one while
  INVALIDATED, none once VALIDATED. (`get_open_for_task` fails on two.)
* `NoSelfValidation`, `ValidatorOnRecord` - who is on record as validator, through
  undos and re-locks.
* `RecordsKept` - no step rewrites or removes a STATE_CHANGE or COMMENT row.
* `NoNewIds` - while a user holds a lock, the ids of the tasks he holds, of two projects together, do not become
  more. That he gets no other *task* (`NoSecondLock`) is false, section 5.
* `WholeRequests` - from one idle moment to the next, the database changes as one
  request of `TaskLifecycle` changes it (a refinement, `INSTANCE ... WITH`).
* `HeldIffLocked` - a task is locked exactly when it has a holder, in every
  committed state.
* `LockExclusive` - a held task never passes directly from one holder to another.
* `TypeOK` is the type invariant; `StepsInv` and `BulkInv` conjoin those of `RequestSteps` and
  `BulkActions` with the invariants of `TaskLifecycle` that hold there.

A crash does break `LockOnRecord`, `LockIsReapable` and `CountersExact` (a row is
closed, or a change counted, and the task not changed), and with an undo `NoSelfValidation`; `StepsInv` has
what is left of it, that nobody but an administrator holds a task to validate that is recorded as his mapping; two workers break every
invariant about locks, status and counters, already by locking at once.

The properties of the pages:

* `ClickAnswered`, `StatusesConverge`, `LockFoundAgain` - the button that waits comes
  back, unless the editor's window was blocked; on a page that stays open the statuses come to be those of the server; a lock
  granted by a lost answer is found, if the one request that looks for it is answered and no older answer of its
  kind comes after it.
* `OneOutcome`, `ExpiryWatched`, `ExpiryTold`, `ButtonsComeBack` - no form has two outcomes of a
  validation under way; the timer that will tell of the expiry is never lost, and
  tells; buttons come back.
* `HistoryConverges` - the dialog comes to show the history of the server.
* `VerdictsSound` - what is submitted has a verdict for every locked task, and no bad
  imagery where the history forbids it.
* `CreatedAsShown`, `CreatedOnce` - the tasks, their number and the area of a new
  project are those shown; one visit creates one.
* `SomebodyMayWork`, `SuccessIsOfTheShown`, `TransferIsGranted` - a published project can
  be worked on, as the *server* decides; success is shown of what was saved; a
  transfer that is offered is accepted.
* `OffersAreGranted` - what the page offers the server grants.
* `MembershipIsAgreed` - nobody leaves a team unasked, or becomes an active member unlet.
  `SwitchKeepsMembers`, that the switch of notifications deletes nobody, is false, section 5.
* `OneVisitOneEntry`, `ProjectKeepsOrganisation` - no second campaign from one visit, no two entries of one
  name; no project without its organisation.
* `DeletesWhatIsShown` - the button over ticked messages deletes what is on the screen.
* `ShownIsAsked`, `PageWithinResults` - the results shown are of the search that was last
  let through; the page in the URL exists.
* `LoaderHasRequest`, `SwitchIsSaved` - the preloader has a request that will end it; a switch shows what is saved.
* `ListFollowsChanges` - once all is answered, the newest list came last and no change was left untold, the list of
  users is the server's.

Most of these name exceptions. Each exception is a history variable set by one
identified action of the code, and section 5 says what happens there. The property covers the rest of what is
modelled, and some exceptions take away the interleaving that makes it hard: what `SwitchIsSaved`,
`SuccessIsOfTheShown` and `OffersAreGranted` leave open (overlapping saves, saves of others,
changes after opening) is *not* right in the code, and not covered.

**Galleries.** `MCProjectPages`, `MCPeoplePages` and `MCEditing` check pages that share
no state side by side: `shown` is chosen at the start, and what is not shown stands still in
one state. Their behaviours are exactly those of the single specifications; a run answers the
one question, whether a page is true to what it shows, for all of them. (The interaction of pages that do
share state is in the modules: the store in `TaskSelection`, the session in `Session`.)

**Bounds.** `MaxRows` bounds a history; an action that would exceed it is not
enabled (`Room`), so runs stop and deadlock is not checked. The pages stop, too, when the
clicks are used up. Six rows are enough for
map, validate and undo with the locks in between (lock, MAPPED, lock, VALIDATED,
comment, MAPPED), for a second lock of the same task and its duplicates, and for
an extension that expires and is unlocked late; every action fires. What is said
of invalidations and validators needs a second verdict, eight rows at least, hence the
longer histories in `task_requests` of those behaviours (`part = "verdicts"`)
that leave out the other requests. A task of another project takes three or four rows: one history holds a lock, the other
a lock and what was mapped before, hence six rows in all for `part = "projects"`. In one project the locks held elsewhere are any set
of ids. Five rows in `serial_requests` and
`crashed_requests` hold map, validate and one more lock, or a validation and its undo. One worker
is the point of `serial_requests`; one crash is enough for a half-done request followed by
any others. In `serial_requests` and `crashed_requests` nobody holds tasks of another project. Two users suffice for every relation between holder, mapper, validator and
undoer that the properties mention. Users in the same sets are interchangeable and no property
names one, hence the symmetry, used only with invariants and `[][A]_vars`, never with liveness.
`Comments = {FALSE}` leaves out the comment *within* an unlock, whose row `AddTaskComment` adds anyway.

On the pages the bounds count what the user does (`MaxMoves`, `MaxEdits`, `MaxClicks`,
`MaxPresses`, `MaxSteps`, `MaxChanges`, `MaxActs`, `MaxQueries`) and what may go wrong (`MaxFaults`,
`MaxLosses`, `MaxUntold`); requests under way are otherwise all combinations. What is
exempted was found with these bounds, or read in the code.
In `task_selection` two faults, alone, let the request that looks for a lost lock be lost too, and three moves
let an older answer of its kind come after it; with others about there is one fault and one move less, as liveness costs. Three queries
of the list of users are a filter and two changes, or three changes, of several users; one of a lost
request and a risen level comes instead of the third (`FewClicks`). Four moves of `project_pages` are a
drawing, a second one, a drag and a way back, with as many steps on as there are. Two overlapping requests of a
kind are enough for one to overtake the other. One task that is split in two gives a
selection all it distinguishes: shown and gone, mine, another's and free. Three
accounts of a team give one that acts, one that is acted upon, one that is lost. Two results per
page, one message per page make pages with little data. The work on a task has two extensions under
way and a clock to 2 in `project_pages`, where extensions cross (without the exemption of `work.crossed` the run fails);
with the form left and come back to once (`MaxForms = 1`) nothing is lost and one extension is under way ("tabs"). `task_editing` has
one extension, a clock to 3 and one form, as liveness costs more; a form that is mounted anew knows of no request,
so its buttons are there at once, which is what `ButtonsComeBack` asks.

**Fairness.** Only the three specifications with liveness have it. `SelFairness`: the poll of
the activities recurs (a timer of the browser, `useInterval`, which runs while
the page is mounted), and of each kind of request some are served and some answers
are delivered. `EditFairness`: time passes and due timers fire; requests of each kind are served
and answered. `ActivityFairness`: the history is asked for each minute, requests
are answered. All of it is weak, and of the environment that the browser and the server provide;
a request that is lost counts as answered by failure. Nothing is assumed of the user,
nor that others stop, beyond the bounds. `lock_race` and `team_toggle` refute safety.

## 4. What is proved

Every theorem is about the whole specification, `Spec => []Invariant` or
`Spec => ActionProperty`, for any values of the constants:

| Module | Theorems | What they state |
|---|---|---|
| `TaskLifecycleProofs` | `TypeCorrect`, `StatusCorrect`, `CountersCorrect` | `TypeOK`, `StatusOnRecord`, `CountersExact` |
| | `LockRecorded`, `LockReapable`, `RecordsStay` | `LockOnRecord`, `LockIsReapable`, `RecordsKept` |
| | `LocksAreFew` | `NoNewIds`, of `TwoProjects` |
| `TaskVerdictProofs` | `InvalidationsCorrect`, `ValidatorIsAnother`, `ValidatorRecorded` | `InvalidationPending`, `NoSelfValidation`, `ValidatorOnRecord` |
| `BulkActionsProofs` | `BulkInvHolds`, `RestartCountersCorrect` | `BulkInv`, `CountersExact` (of `RestartSpec`, which `CountersAfterRestarts` checks) |
| `RequestStepsProofs` | `StepsInvHolds`, `HeldTasksLocked`, `OneWorkerLocks` | `StepsInv`, `HeldIffLocked`, `LockExclusive`, for one worker and any crashes |
| | `RequestsAreWhole` | `WholeRequests`, for one worker and no crash |
| `TaskPageProofs` | `OutcomesExclude`, `ExpiryIsWatched`, `VerdictsCorrect` | `OneOutcome`, `ExpiryWatched`, `VerdictsSound` |
| `ProjectPagesProofs` | `OffersCorrect` | `OffersAreGranted` |
| | `CreationShown`, `CreatedAtMostOnce` | `CreatedAsShown`, `CreatedOnce` |
| | `WorkersRemain`, `SuccessCorrect`, `TransferCorrect` | `SomebodyMayWork`, `SuccessIsOfTheShown`, `TransferIsGranted` |
| `PeoplePagesProofs` | `MembershipCorrect`, `DeletionCorrect` | `MembershipIsAgreed`, `DeletesWhatIsShown` |
| | `LoaderCorrect`, `SwitchCorrect` | `LoaderHasRequest`, `SwitchIsSaved` |
| | `ListCorrect`, `VisitsCorrect`, `OrganisationCorrect` | `ListFollowsChanges`, `OneVisitOneEntry`, `ProjectKeepsOrganisation` |
| | `ResultsCorrect`, `PagesCorrect` | `ShownIsAsked`, `PageWithinResults` |

So every invariant and every action property that the passing runs check is a theorem,
for every finite set of tasks, any users and permissions, histories of any length, and on the pages any
number of clicks, requests under way and late answers.

*Assumptions*: `NoUserAssumption` (the null user is no user), `PermissionAssumption`, `OtherPermissionAssumption`
(types of the constants), `TasksAssumption` and `VerdictsAssumption` (finitely many tasks), and the
named assumption on the constants of each page, of which the proofs use little:
`BrowsingAssumption` that each search has a number of pages of results, `TimesAssumption` that times are
numbers. TLC evaluates them in every run. The theorems about
`RequestSteps` assume `OneWorker`: with two workers most of the statements are false, as `lock_race` shows.
`RequestsAreWhole` also assumes `MaxCrashes = 0`, as half of a request is no request of `TaskLifecycle`, and
that an unlock may come without a comment (`FALSE \in Comments`), as in the code comments are optional.

*Argument.* `CountersExact` is not inductive. `_update_tasks_stats` moves one unit
from the counter of the "old status" to that of the new; most callers compute the
old status from the history (`get_last_status`), but `undo_mapping` passes the
column `task_status`. The two agree on a task that is not locked (`Settled`, which
is `StatusOnRecord` per task). To keep that when a lock is released one needs that
no STATE_CHANGE row names a lock, or `clear_lock` would put the task back *into* a
lock (`WellFormed`). `TypeOK` in turn needs that `record_validation` finds a mapper
whenever an invalidation is pending, hence that a MAPPED row then exists (`GoodTask`).
So `Inv == TypeOK /\ (\A t : GoodTask /\ Settled) /\ CountersExact`.

`TaskProofs` has one lemma per operation of `Task`, none of which knows of other
tasks, users or counters: `KeepsChanges` is what locks, extensions, comments and
automatic releases do to a history, `AppendChange` what a change of status does.
`TaskLifecycleProofs` then needs three lemmas about steps: no status on record
changes (`StepKeepsStatuses`, `StepKeepsStatus`), or one changes and is recounted
(`StepChangesStatus`, on `CountMoves`).

*Locks* (`TaskLifecycleProofs`). `Held` says per task where the row of its lock is: it is the
newest of the rows LOCKED and AUTO_UNLOCKED, and an open row is no older. Two operations rewrite
rows. `CloseLock` deletes duplicates, all of them older than one that stays, so the
newest row of a lock survives (`CloseLockRows`). `AutoUnlock` may expire older rows and keep the
lock, after an extension: then the row of the lock was not open, so the open row is newer than the
expiry date and stays (`AutoUnlockPreserves`). The same lemmas give `KeepsRecords`, for `RecordsKept`.
`NoNewIds` needs no invariant but the fields of the tasks: every step of a project releases tasks (`Released`), or gives one to
a user who holds it already or holds none in either project, or tasks to a user who holds, in both together, no id but those asked for.

*Verdicts* (`TaskVerdictProofs`). What makes these hard is the undo, which may put a task in a status of its past
with the one who undoes as validator. None of the three invariants is inductive. `Attributed`
adds that VALIDATED follows only MAPPED, BADIMAGERY or INVALIDATED on record, that INVALIDATED leaves no mapper,
and that an undo leads to VALIDATED only from INVALIDATED, so that there is no mapper to be the
same user. `Pending` adds that a task with a mapper, or invalidated once, has a MAPPED row, without which
`record_invalidation` would record nothing. `Checked` carries what was checked when a validator got
the lock to the moment it is released. Operations that change no status on record are `Quiet` and keep all of it.

*Teams*. `TeamInv` follows each person through the page and the requests: a request to add names
somebody let in, a request to leave somebody who asked, was asked or was lost from a list
(`Agreed`); the lists of the page, its backups and the teams it has seen hold nobody else (`TeamLists`). The sets of `trail`
only grow, so requests under way stay agreed on however late they are served.

*Inbox*. `InboxInv` has that ticks are of shown messages or marked as mixed, and that there are none while a list
is loading (`Ticks`), so that the list that replaces another finds nothing ticked.

*Session*. `SessionInv` ties what is under way to the token it was sent with (`Requests`), and says what is left
behind when there is no token or a login window is open (`Leftover`) and what somebody finds who comes
back from it (`Return`); `Loader` strengthens `LoaderHasRequest` by what `App` will see when it looks.

*Users*. `DirectoryInv` numbers the lists: the newest one asked for is for the filters now chosen
(`Numbering`); unless a change has been made that the page was not told of, the newest list is what
the server has, under way or shown (`Current`). When such a change is reported, a newer list is asked for; one that will not be reported makes it
`untold` until the newest list asked for is made after it, and a list whose answer is lost leaves the error.

*Switches*. `SwitchInv` says which saves are under way and what they carry (`Savers`, `SavesInHand`), and that,
unless something is `unsure` or `late`, whoever will tell the switch its value tells it what is saved
(`ToldWhatIsSaved`).

*Catalogues*. `VisitsOk` has what creates an entry tied to its visit: after the request the page of a campaign waits or
is gone. An organisation is only deleted by a request that was checked, and commits against the foreign key.

*Searches*. `BrowsingInv`: one request at most is listened to, and it asks what the page is about to show
(`ListensToTheNewest`); the pages offered are those of the results shown (`PagesAreShown`).

*Bulk actions* (`BulkActionsProofs`). Each bulk action is a sequence of operations of `Task` on each task, or of rows copied to a
part, so the lemmas of `TaskProofs` carry `GoodTask`, `Settled` and `Held` through it; new are the
lemmas about a row that is deleted (`ClearTaskLockGood`, `RecordAutoUnlockGood`) and about parts. `CountersExact`
holds of `RestartSpec` alone: the other bulk actions miscount (section 5).

*Requests in steps* (`RequestStepsProofs`). `StepsGood` adds to the types what a request that is under way may rely on: the
columns its session loaded are those of the task until the last commit (`Current`), and what it has found is
still so (`Found`), as nobody else works. A crash forgets the request, and what is committed is `Consistent` at every point.
That is less than `Inv`: a crash between two commits breaks `LockOnRecord` and `CountersExact`.

*Refinement* (`RequestsAreWhole`). `settled` is the database when the worker was last idle. `Progress` says of each place in a
request how the committed database differs from it: what has been counted, and which rows have been written
(`Underway`). Every step of a request but the last leaves `settled` alone and is a stutter; the last makes the
difference exactly one action of `TaskLifecycle` (`UnlockIsWhole` and its like), or none.

*The page of a task* (`TaskPageProofs`). An outcome of a validation under way has a button that waits in the form it was sent from, as long as that form is mounted
(`OutcomePending`), and no other button of it may be pressed meanwhile. An extension stops the timer of the expiry; `Watched` says that it is
armed, or that an answer will come that brings a time later than the one seen (`WillTell`) and so arms it again.
That fails if the tasks tell of the extension first, which is what `crossed` marks. For the verdicts, `FormInv`
says when tasks can be missing from those shown, as the code compares only numbers.

*The pages of a project* (`ProjectPagesProofs`). `PageImpliesServer` compares the two implementations of
the permissions, for any user, project and roles. `CreationInv` follows the area and its grid through the page, the
listeners on the map and the answers awaited, all of which hold copies (`PageGood`, `ListenersGood`, `CallGood`);
what a listener writes when a drawing is dragged is an area with tasks of its own, only of another time.
`EditingInv` has a copy that was sent equal to what the page shows while it is untouched (`SaveGood`), one save at
a time (`OneSave`), and teams for the permissions that need them in every copy that was let through
(`Staffed`); `LevelIsEnough` and `AnybodyMay` then find somebody for the server to let in.

*Only model-checked*: `ClickAnswered`, `StatusesConverge`, `LockFoundAgain`, `ButtonsComeBack`, `ExpiryTold` and
`HistoryConverges`, which are liveness under fairness and out of the prover's reach, as are `ENABLED`, induction
over data (its induction theorems take operators) and RECURSIVE operators; none of the latter is used in the modules
with theorems. `NoSelfValidation` with crashes, `LockExclusive` with two workers, `NoSecondLock` and
`SwitchKeepsMembers` are false, section 5.

## 5. Disagreements

Four runs expect a counterexample; `findings` has the lines and quotes.

| Run | What is said | What happens |
|---|---|---|
| `lock_race` | locking a task means that no other user can work on it | two requests at once both get the lock; the later write wins |
| `second_lock` | the locked tasks looked up are "on project"; a user with a locked task gets no other | a user who holds task 5 of one project, also to map it, gets task 5 of another to validate, and neither team nor level is looked at |
| `crashed_verdict` | users cannot validate their own tasks | a worker stops between the commits of a verdict, which is then given twice; the mapper's undo goes back to the first verdict and makes the mapper its validator |
| `team_toggle` | managers can turn the notifications of join requests on and off | the switch sends the manager as the list of members, and the server deletes everybody else; the trace ends with the row of a member gone |

### Seen while modelling: the server

* The permission to undo, a pair, is used as a condition and is always true: anybody
  undoes (`mapping_service.py`, `is_task_undoable`).
* An undo of a validation makes the undoer the mapper: `unlock_task` only looks whether the
  task is locked for validation, and an undo does not lock (`task.py:800`).
* Of duplicate rows of a lock, a finished row of an earlier session is removed first (`task.py:315`).
* Bulk actions count mapped tasks that are locked as validated; "map all" and "reset bad
  imagery" miscount around a locked BADIMAGERY task (`mapping_service.py:385`, `:404`: the counter can go
  to -1); a split leaves two counters as they were (`split_service.py:249-254`), deleting
  tasks leaves all (`project_service.py:91`).
* A worker that stops between closing the lock's row and releasing the task leaves a lock
  no sweep finds; its holder can still stop or unlock (`task.py:304`).
* An undo takes the credit from the user of the last action, who may only have commented
  (`mapping_service.py:344`). The holder of a validation lock can turn it into a mapping lock
  (`mapping_service.py:88`). Two workers that count at once lose an update (`stats_service.py:86`). An
  invalidation may name a validator who handed a task back as its mapper (`task.py:121`).
* Removing the custom editor of a project commits in the middle of the update (`project.py:476`).

### Seen while modelling: the pages

* Picking a task: deselecting the last task leaves the task action of the task
  (`taskSelection/index.js:243` takes the length of a number); answers of the grid overtake each
  other, and only a later one repairs it (`index.js:144`); zooming to a task that was split
  crashes the map (`map.js:74`); a pop-up that is blocked makes the failed lock throw, and the button waits for ever
  (`footer.js:45`); the one request that looks for a lock whose answer was lost may be lost too, or be overtaken by an older one
  (`footer.js:48`, `UseLockedTasks.js:16`); after locking, the store may name tasks that were not
  sent (`footer.js`), and its tasks are not tied to the project of the page.
* Working: of two extensions, one answered after the tasks have told of it leaves the expiry unannounced until
  the tasks have changed (`work.crossed`); the buttons of the mapping form look at the wrong variable
  (`actionSidebars.js:300`), so that a submission and a stop can both be under way, hence `OneOutcome`
  speaks of validation only; a tab changed and back, or the sidebar hidden and shown, gives a form that knows of no request, so that
  a second outcome can be sent (`action.js:330`, `:350`); a lock asked for again may come after the stop; bad imagery can be chosen before
  the history that forbids it; a comment or undo pressed twice is sent twice.
* Entering: the page knows nothing of drafts, of the level on private projects,
  nor that a managing team counts only with an organisation; the server refuses what was offered.
* Creating: after a failure the button stays pending for ever (`navButtons.js:48`); a
  late trim or file writes over a later state; resetting the grid leaves the number of the split
  tasks; a listener left from a drawing given up answers to the next; a drawing that stayed on the map
  and is dragged, at any step, writes the metadata of when it was drawn: a project of another area and with another
  number than shown (`projectCreate/index.js:125`, `navButtons.js:61`).
* Editing: a save overwrites what others saved; success appears although the page was
  edited meanwhile, and stays beside the error of a save that fails after it (`projectEdit.js:169`); the transfer lists managers of an organisation not saved yet; cleared
  priority areas come back with the next drawing, and an area that is dragged is added once more, in the copy of the
  project of then (`priorityAreasForm.js:211`); the text of an uploaded image may be lost; removing the custom editor
  leaves it among the permitted ones.
* Teams: the page of a team fails on every visit (`UseTeamMembersStatsQueryAPI.js:72`); the backup for
  "cancel" is old; overlapping answers bring a request back; the list is fetched before the
  update is served.
* Catalogues: only a campaign's button waits for its request; the delete dialog can send twice, and closing it does not
  stop its timer, which leaves whatever page is shown by then (`deleteModal/index.js:26`).
* Inbox: a list that replaces another without a spinner keeps the ticks; deleting the last
  message of a page asks for a page that is no more; a click on the bell can count a
  message that came in meanwhile as seen, and the count is up to thirty seconds old; the inbox hook
  dispatches an unknown action.
* Searches: a click on the map restores the filters of the map's first drawing; the filter of mapping types keeps the
  page; a page is chosen of the results before the throttle; a page without user id loads for ever.
* Session: a reload during the first login leaves the preloader on; late details of another login are shown;
  a late refusal logs a new session out; overlapping saves leave a switch that is not what is saved, and so does a switch clicked before the details are
  there, as no user's id is sent (`switchToggleField.js:21`).
* List of users: an answer may overtake another; a filter keeps the page, and a page beyond the last leaves
  an error that is never cleared, after which no list is shown again; a refused change says nothing, and one
  that was made but whose answer is lost leaves the list as it was, with no error (`user/list.js:240-251`).
* The favourite button is dead after a failed press (`UseFavProjectAPI.js`), as the method it asks for does not change.

## 6. Plan

1. **RequestSteps**, continued - requests over several tasks, the commits of
   `check_and_update_mapper_level` and of the API's `finally` clauses (`api/tasks/actions.py:284`).
2. **ProjectPage** - the questions on a project and the favourite button.
3. **Messaging** - fan-out after a request with failures in the middle
   (`message_service.py:294`, `:328`).
4. **ProjectProgress** - percentages from the counters, mails at 50 and 100 percent (`project.py:1170`).
5. Several requests at once in `TaskSelection`, two pages over one store.

Proofs: the safety properties of what 1 to 5 add, and that `RequestSteps` with several workers keeps
`StepsTypeOK`.

## 7. Not modelled

* Geometry (grid, split polygons, intersections), OAuth and the signing of tokens, templates, reports and
  statistics, and lookup tables (settings, tags, annotations, issues, keys): they keep no state whose steps
  interact, or compute data out of TLC's reach.
* Texts, layout, styles, icons and their tests: a large part of the front end, by lines.
* The map and the editors (Mapbox, iD, RapiD, JOSM): only the listeners a page puts on the map and
  whether an editor has unsaved edits appear.
* Fan-out of messages, mails, licences to accept, the deletion of projects and teams.
* Migrations and deployment scripts run once.

Each is listed in `PROJECT.json` with its reason.
