-------------------------- MODULE ProjectPagesProofs --------------------------
(***************************************************************************)
(* The pages of a project, each for any of its parameters and any number   *)
(* of clicks, loads and late answers: entering a project and its tasks,    *)
(* and the pages that create and edit a project.                           *)
(***************************************************************************)
EXTENDS ProjectEntry, ProjectCreation, ProjectEditing, TLAPS, FiniteSetTheorems

----------------------------------------------------------------------------
(***************************************************************************)
(* Sequences without a set of their elements: the listeners of a map and the *)
(* clicks that wait are sequences, and are looked at one element at a time. *)
(***************************************************************************)

IsSequence(s) == s \in Seq({s[i] : i \in DOMAIN s})

LEMMA AppendIsSequence ==
  ASSUME NEW s, IsSequence(s), NEW x
  PROVE  /\ IsSequence(Append(s, x)) /\ DOMAIN Append(s, x) = DOMAIN s \cup {Len(s) + 1}
         /\ Append(s, x)[Len(s) + 1] = x /\ \A i \in DOMAIN s : Append(s, x)[i] = s[i]
<1> DEFINE S == {s[i] : i \in DOMAIN s}
           a == Append(s, x)
           A == {a[i] : i \in DOMAIN a}
<1>1. s \in Seq(S)
  BY DEF IsSequence
<1> HIDE DEF S
<1>2. a \in Seq(S \cup {x}) /\ DOMAIN a = 1..Len(s) + 1 /\ a[Len(s) + 1] = x /\ DOMAIN s = 1..Len(s)
      /\ Len(s) \in Nat /\ \A i \in 1..Len(s) : a[i] = s[i]
  BY <1>1
<1>3. DOMAIN a = DOMAIN s \cup {Len(s) + 1}
  BY <1>2
<1> HIDE DEF a
<1>4. a \in [1..Len(a) -> A] /\ Len(a) \in Nat
  BY <1>2
<1> HIDE DEF A
<1>5. a \in Seq(A)
  BY <1>4
<1> QED
  BY <1>2, <1>3, <1>5 DEF IsSequence, a, A

LEMMA FirstOf ==
  ASSUME NEW s, IsSequence(s), s # <<>>
  PROVE  1 \in DOMAIN s /\ (Len(s) # 1 => 2 \in DOMAIN s /\ Len(s) > 1)
<1> DEFINE S == {s[i] : i \in DOMAIN s}
<1>1. s \in Seq(S)
  BY DEF IsSequence
<1> HIDE DEF S
<1>2. Len(s) \in Nat /\ DOMAIN s = 1..Len(s) /\ Len(s) # 0
  BY <1>1
<1> QED
  BY <1>2

LEMMA LastOf == ASSUME NEW s, IsSequence(s), s # <<>> PROVE Len(s) \in DOMAIN s
<1> DEFINE S == {s[i] : i \in DOMAIN s}
<1>1. s \in Seq(S)
  BY DEF IsSequence
<1> HIDE DEF S
<1>2. Len(s) \in Nat /\ DOMAIN s = 1..Len(s) /\ Len(s) # 0
  BY <1>1
<1> QED
  BY <1>2

----------------------------------------------------------------------------
(***************************************************************************)
(* Entering a project: what the page offers, the server grants.            *)
(***************************************************************************)

VisitFields == {"open", "edit", "offer", "message", "answer", "seen", "project"}
Statuses == {"none", "READY", "MAPPED", "VALIDATED", "LOCKED_FOR_MAPPING"}
\* The page offers what follows from what it fetched, until the server has answered.
OfferFollows ==
  visit.open /\ visit.answer = "none" =>
    /\ \E s \in Statuses : visit.offer = getTaskAction(visit.seen, visit.project, s)
    /\ visit.edit => useEditProjectAllowed(visit.seen)
EntryInv == /\ me \in UserOnProject /\ access \in ProjectAccess
            /\ DOMAIN visit = VisitFields
            /\ OfferFollows

\* A public project that is published and belongs to an organisation.
Open(proj) == ~proj.private /\ ~proj.draft /\ proj.hasOrg

----------------------------------------------------------------------------
\* The two implementations of the permissions: where the page lets a user through, so does the server.
LEMMA PageImpliesServer ==
  ASSUME NEW user \in UserOnProject, NEW proj \in ProjectAccess, NEW permission \in Permissions,
         NEW roles, Open(proj), MayOnPage(user, proj, permission, roles)
  PROVE  is_user_permitted(user, proj, permission, roles, FALSE)
<1>1. user.role # "READ_ONLY" /\ ~proj.draft
  BY DEF MayOnPage, Open
<1>2. CASE user.role = "ADMIN" \/ user.author \/ user.manages
  <2>1. is_user_action_permitted_on_project(user, proj)
    BY <1>2 DEF is_user_action_permitted_on_project
  <2> QED
    BY <1>1, <2>1 DEF is_user_permitted
<1>3. CASE Satisfies(user, permission, user.teams \cap roles # {})
  <2>1. ~evaluate_permission(user, permission, roles)
    BY <1>3 DEF Satisfies, evaluate_permission
  <2> QED
    BY <1>1, <2>1 DEF is_user_permitted
<1> QED
  BY <1>2, <1>3 DEF MayOnPage, Open

\* Work is offered to whom the page lets through.
LEMMA OfferedToMap ==
  ASSUME NEW user, NEW proj, NEW s, getTaskAction(user, proj, s) \in MappingActions
  PROVE  userCanMap(user, proj)
  BY DEF getTaskAction, getMessageOnValidationContext, getMessageOnMappingContext, MappingActions

LEMMA OfferedToValidate ==
  ASSUME NEW user, NEW proj, NEW s, getTaskAction(user, proj, s) \in ValidationActions
  PROVE  userCanValidate(user, proj)
  BY DEF getTaskAction, getMessageOnValidationContext, getMessageOnMappingContext, ValidationActions

\* Editing asks for less on the page than on the server only where there is no organisation.
LEMMA EditIsGranted ==
  ASSUME NEW user, NEW proj, Open(proj), useEditProjectAllowed(user)
  PROVE  is_user_action_permitted_on_project(user, proj)
  BY DEF Open, useEditProjectAllowed, is_user_action_permitted_on_project

----------------------------------------------------------------------------
LEMMA EntryStarts == ASSUME EntryInit PROVE EntryInv
<1>1. visit = NewVisit(me, access)
  BY DEF EntryInit
<1>2. DOMAIN visit = VisitFields /\ ~visit.open
  BY <1>1 DEF NewVisit, VisitFields
<1>3. me \in UserOnProject /\ access \in ProjectAccess
  BY EntryAssumption DEF EntryInit
<1> QED
  BY <1>2, <1>3 DEF EntryInv, OfferFollows

LEMMA SelectKeeps == ASSUME EntryInv, NEW s \in Statuses, SelectTask(s) PROVE EntryInv'
<1>1. /\ DOMAIN visit' = VisitFields /\ visit'.seen = me /\ visit'.project = access
      /\ visit'.offer = getTaskAction(me, access, s) /\ visit'.edit = useEditProjectAllowed(me)
  BY DEF EntryInv, VisitFields, SelectTask
<1>2. OfferFollows'
  BY <1>1 DEF OfferFollows
<1>3. UNCHANGED <<me, access>>
  BY DEF SelectTask
<1> QED
  BY <1>1, <1>2, <1>3 DEF EntryInv

LEMMA ChangeKeeps ==
  ASSUME EntryInv, \/ \E user \in LaterUsers : ChangeUser(user)
                   \/ \E proj \in LaterProjects : ChangeProject(proj)
  PROVE  EntryInv'
  BY EntryAssumption DEF EntryInv, OfferFollows, ChangeUser, ChangeProject

LEMMA AskKeeps == ASSUME EntryInv, AskForLock \/ AskToEdit PROVE EntryInv'
<1>1. DOMAIN visit' = VisitFields /\ visit'.answer \in {"granted", "refused"} /\ UNCHANGED <<me, access>>
  BY DEF EntryInv, VisitFields, AskForLock, AskToEdit, Ask
<1> QED
  BY <1>1 DEF EntryInv, OfferFollows

LEMMA EntryStep == ASSUME EntryInv, [EntryNext]_entryVars PROVE EntryInv'
<1>1. CASE UNCHANGED entryVars
  BY <1>1 DEF entryVars, EntryInv, OfferFollows
<1> QED
  BY <1>1, SelectKeeps, ChangeKeeps, AskKeeps DEF EntryNext, Statuses

----------------------------------------------------------------------------
\* A refusal, when nothing changed since the page was opened, is of a project the page knows too little of.
RefusedForAReason ==
  visit'.answer = "refused" /\ visit.answer = "none" =>
       \/ me # visit.seen \/ access # visit.project
       \/ access.private \/ access.draft \/ ~access.hasOrg

LEMMA LockIsGranted == ASSUME EntryInv, AskForLock PROVE RefusedForAReason
<1> SUFFICES ASSUME me = visit.seen, access = visit.project, Open(access), visit.answer = "none"
             PROVE  visit'.answer # "refused"
  BY DEF RefusedForAReason, Open
<1>1. me \in UserOnProject /\ access \in ProjectAccess /\ "answer" \in DOMAIN visit
  BY DEF EntryInv, VisitFields
<1>2. PICK s \in Statuses : visit.offer = getTaskAction(me, access, s)
  BY DEF EntryInv, OfferFollows, AskForLock
<1>3. CASE visit.offer \in MappingActions /\ Ask(is_user_permitted_to_map(me, access, FALSE))
  <2>1. MayOnPage(me, access, access.mappingPermission, TeamRoles)
    BY <1>2, <1>3, OfferedToMap DEF userCanMap
  <2>2. access.mappingPermission \in Permissions
    BY <1>1 DEF ProjectAccess
  <2>3. is_user_permitted_to_map(me, access, FALSE)
    BY <1>1, <2>1, <2>2, PageImpliesServer DEF is_user_permitted_to_map
  <2> QED
    BY <1>1, <1>3, <2>3 DEF Ask
<1>4. CASE visit.offer \in ValidationActions /\ Ask(is_user_permitted_to_validate(me, access, FALSE))
  <2>1. MayOnPage(me, access, access.validationPermission, {"VALIDATOR", "PROJECT_MANAGER"})
    BY <1>2, <1>4, OfferedToValidate DEF userCanValidate
  <2>2. access.validationPermission \in Permissions
    BY <1>1 DEF ProjectAccess
  <2>3. is_user_permitted_to_validate(me, access, FALSE)
    BY <1>1, <2>1, <2>2, PageImpliesServer DEF is_user_permitted_to_validate
  <2> QED
    BY <1>1, <1>4, <2>3 DEF Ask
<1> QED
  BY <1>3, <1>4 DEF AskForLock

LEMMA EditGranted == ASSUME EntryInv, AskToEdit PROVE RefusedForAReason
<1> SUFFICES ASSUME me = visit.seen, access = visit.project, Open(access), visit.answer = "none"
             PROVE  visit'.answer # "refused"
  BY DEF RefusedForAReason, Open
<1>1. is_user_action_permitted_on_project(me, access)
  BY EditIsGranted DEF AskToEdit, EntryInv, OfferFollows
<1>2. "answer" \in DOMAIN visit /\ "offer" \in DOMAIN visit
  BY DEF EntryInv, VisitFields
<1> QED
  BY <1>1, <1>2 DEF AskToEdit

\* No other step answers.
LEMMA NoAnswer ==
  ASSUME EntryInv, \/ \E s \in Statuses : SelectTask(s)
                   \/ \E user \in LaterUsers : ChangeUser(user)
                   \/ \E proj \in LaterProjects : ChangeProject(proj)
                   \/ UNCHANGED entryVars
  PROVE  visit'.answer = visit.answer
  BY DEF EntryInv, VisitFields, SelectTask, ChangeUser, ChangeProject, entryVars

LEMMA EntrySafeStep == EntryInv /\ [EntryNext]_entryVars => [RefusedForAReason]_entryVars
<1> SUFFICES ASSUME EntryInv, [EntryNext]_entryVars PROVE RefusedForAReason
  OBVIOUS
<1>1. CASE AskForLock
  BY <1>1, LockIsGranted
<1>2. CASE AskToEdit
  BY <1>2, EditGranted
<1>3. CASE visit'.answer = visit.answer
  BY <1>3 DEF RefusedForAReason
<1> QED
  BY <1>1, <1>2, <1>3, NoAnswer DEF EntryNext, Statuses

\* What the page of a project offers, the server grants, unless something changed since the page was opened or the
\* project is private, a draft or of no organisation (utils/projectPermissions.js, project_service.py).
THEOREM OffersCorrect == EntrySpec => OffersAreGranted
<1>1. EntryInit => EntryInv
  BY EntryStarts
<1>2. EntryInv /\ [EntryNext]_entryVars => EntryInv'
  BY EntryStep
<1>3. EntryInv /\ [EntryNext]_entryVars => [RefusedForAReason]_entryVars
  BY EntrySafeStep
<1> HIDE DEF RefusedForAReason
<1>4. EntrySpec => [][RefusedForAReason]_entryVars
  BY <1>1, <1>2, <1>3, PTL DEF EntrySpec
<1> QED
  BY <1>4 DEF OffersAreGranted, RefusedForAReason

----------------------------------------------------------------------------
(***************************************************************************)
(* Creating a project: it is created as the page shows it, and once.       *)
(***************************************************************************)

PageFields == {"step", "err", "drawing", "features", "made", "multi", "listeners", "updater", "clone", "button",
               "lapses", "meta"}
MetaFields == {"geom", "zoom", "grid", "temp", "number", "arbitrary", "organisation"}
GridFields == {"of", "n", "tiny"}
Shape(m) == DOMAIN m = MetaFields /\ DOMAIN m.grid = GridFields /\ DOMAIN m.temp = GridFields
\* The grid, and the one to return to, are of the area.
OfArea(m) == m.geom # NoGeom => m.grid.of = m.geom /\ m.temp.of = m.geom
\* The number is that of the tasks, or of the parts of an area that is not divided.
Right(m) == IF m.arbitrary THEN m.geom = NoGeom \/ m.number = m.geom.parts ELSE m.number = m.grid.n
\* Beyond the first step the number is that of the tasks, or of the parts of an area that is not divided.
Counts(p) ==
  p.lapses = {} =>
    /\ p.step \in {2, 3} => ~p.meta.arbitrary /\ p.meta.number = p.meta.grid.n
    /\ p.step = 4 => Right(p.meta)
Excused(lapses) == {"lateFile", "leftover", "dragged"} \cap lapses # {}
Measured(p) == p.step > 1 /\ p.meta.geom.over => Excused(p.lapses)
ListenersGood(p) ==
  /\ IsSequence(p.listeners)
  /\ \A i \in DOMAIN p.listeners :
       LET l == p.listeners[i] IN
       DOMAIN l = {"kind", "meta"} /\ Shape(l.meta) /\ ("leftover" \notin p.lapses => OfArea(l.meta))
  /\ p.updater # <<>> => Shape(p.updater[1])
PageGood(p) ==
  /\ DOMAIN p = PageFields /\ p.step \in 1..4 /\ Shape(p.meta)
  /\ "leftover" \notin p.lapses => OfArea(p.meta)
  /\ Counts(p) /\ Measured(p)
\* An answer awaited closes over metadata of the same kind; only a file may bring an area that was not measured.
CallGood(c, lapses) ==
  /\ DOMAIN c = {"kind", "meta", "geom"} /\ Shape(c.meta)
  /\ "leftover" \notin lapses => OfArea(c.meta)
  /\ c.kind # "file" /\ c.meta.geom.over => Excused(lapses)
CreationInv ==
  /\ PageGood(page) /\ ListenersGood(page)
  /\ \A c \in calls : CallGood(c, page.lapses)
  /\ created = {} \/ (page.button = "pending" /\ \E p : created = {p})
  /\ CreatedAsShown

----------------------------------------------------------------------------
\* Setting the metadata touches only what follows from them.
LEMMA MetaFacts ==
  ASSUME NEW p, NEW m, DOMAIN p = PageFields
  PROVE  LET q == WithMeta(p, m) IN
         /\ DOMAIN q = PageFields /\ q.meta = m /\ q.step = p.step /\ q.updater = p.updater
         /\ q.listeners = p.listeners /\ q.lapses = p.lapses /\ q.button = p.button /\ q.clone = p.clone
  BY DEF WithMeta, PageFields

LEMMA GridFacts == ASSUME NEW m, NEW g, DOMAIN m = MetaFields
  PROVE  LET n == WithGrid(m, g) IN
         /\ DOMAIN n = MetaFields /\ n.grid = g /\ n.number = g.n /\ n.geom = m.geom /\ n.temp = m.temp
         /\ n.arbitrary = m.arbitrary
  BY DEF WithGrid, MetaFields

LEMMA MakeFacts == ASSUME NEW geom, NEW zoom
  PROVE  DOMAIN makeGrid(geom, zoom) = GridFields /\ makeGrid(geom, zoom).of = geom
  BY DEF makeGrid, GridOf, GridFields

\* A geometry that is set brings its grid with it.
LEMMA DataGeomFacts ==
  ASSUME NEW p, NEW m, NEW geom, DOMAIN p = PageFields, Shape(m), geom # NoGeom
  PROVE  LET q == setDataGeom(p, m, geom) IN
         /\ DOMAIN q = PageFields /\ Shape(q.meta) /\ OfArea(q.meta) /\ q.step = p.step
         /\ q.updater = p.updater /\ q.listeners = p.listeners /\ q.lapses = p.lapses /\ q.button = p.button
<1> DEFINE grid == makeGrid(geom, StartZoom)
           n == [m EXCEPT !.geom = geom, !.zoom = StartZoom, !.grid = grid, !.temp = grid]
<1>1. DOMAIN n = MetaFields /\ n.geom = geom /\ n.grid = grid /\ n.temp = grid
  BY DEF Shape, MetaFields
<1>2. DOMAIN grid = GridFields /\ grid.of = geom
  BY MakeFacts
<1>3. setDataGeom(p, m, geom) = WithMeta(p, n)
  BY DEF setDataGeom
<1> HIDE DEF n, grid
<1>4. Shape(n) /\ OfArea(n)
  BY <1>1, <1>2 DEF Shape, OfArea
<1> QED
  BY <1>3, <1>4, MetaFacts

\* What is not about to be created: a page in order, with fewer answers and no more listeners to come.
LEMMA PageStep ==
  ASSUME CreationInv, PageGood(page'), page.lapses \subseteq page'.lapses, page'.button = page.button,
         page'.listeners \in {page.listeners, <<>>}, page'.updater = page.updater, calls' \subseteq calls,
         UNCHANGED created
  PROVE  CreationInv'
<1>1. ListenersGood(page')
  <2>1. CASE page'.listeners = page.listeners
    BY <2>1 DEF CreationInv, ListenersGood
  <2>2. CASE page'.listeners = <<>>
    BY <2>2 DEF CreationInv, ListenersGood, IsSequence
  <2> QED
    BY <2>1, <2>2
<1>2. \A c \in calls' : CallGood(c, page'.lapses)
  BY DEF CreationInv, CallGood, Excused
<1>3. CreatedAsShown'
  BY DEF CreationInv, CreatedAsShown, TasksOfTheArea, CountIsOfTheTasks, AreaWithinLimit
<1> QED
  BY <1>1, <1>2, <1>3 DEF CreationInv

\* The same with other metadata on the same step.
LEMMA MetaStep ==
  ASSUME CreationInv, NEW m, Shape(m), DOMAIN page' = PageFields, page'.meta = m, page'.step = page.step,
         page'.button = page.button, page.lapses \subseteq page'.lapses, page'.updater = page.updater,
         page'.listeners \in {page.listeners, <<>>}, calls' \subseteq calls, UNCHANGED created,
         "leftover" \notin page'.lapses => OfArea(m), Counts(page'), Measured(page')
  PROVE  CreationInv'
<1>1. PageGood(page')
  BY DEF PageGood, CreationInv
<1> QED
  BY <1>1, PageStep

LEMMA NowGood == ASSUME CreationInv
  PROVE /\ DOMAIN page = PageFields /\ page.step \in 1..4 /\ Shape(page.meta)
        /\ DOMAIN page.meta = MetaFields
        /\ "leftover" \notin page.lapses => OfArea(page.meta)
        /\ Counts(page) /\ Measured(page)
  BY DEF CreationInv, PageGood, Shape

LEMMA CreationStarts == ASSUME CreationInit PROVE CreationInv
<1>1. /\ DOMAIN page = PageFields /\ page.step = 1 /\ DOMAIN page.meta = MetaFields
      /\ page.meta.grid = GridOf(NoGeom, 0) /\ page.meta.temp = GridOf(NoGeom, 0)
      /\ page.meta.geom = NoGeom /\ page.listeners = <<>> /\ page.updater = <<>>
  BY DEF CreationInit, PageFields, MetaFields
<1>2. DOMAIN GridOf(NoGeom, 0) = GridFields
  BY DEF GridOf, GridFields
<1>3. PageGood(page)
  BY <1>1, <1>2 DEF PageGood, Shape, OfArea, Counts, Measured
<1>4. ListenersGood(page)
  BY <1>1 DEF ListenersGood, IsSequence
<1> QED
  BY <1>3, <1>4 DEF CreationInit, CreationInv, CreatedAsShown, TasksOfTheArea, CountIsOfTheTasks, AreaWithinLimit

----------------------------------------------------------------------------
\* A page of which neither the metadata nor the step changes.
LEMMA SamePage ==
  ASSUME CreationInv, DOMAIN page' = PageFields, page'.meta = page.meta, page'.step = page.step,
         page'.button = page.button, page'.lapses = page.lapses, page'.updater = page.updater,
         page'.listeners \in {page.listeners, <<>>}, calls' \subseteq calls, UNCHANGED created
  PROVE  CreationInv'
<1>1. PageGood(page')
  BY DEF CreationInv, PageGood, Counts, Measured
<1> QED
  BY <1>1, PageStep

\* To await another answer, or to listen for a drawing.
LEMMA CallStep ==
  ASSUME CreationInv, PageGood(page'), page'.lapses = page.lapses, page'.button = page.button,
         page'.listeners = page.listeners, page'.updater = page.updater, NEW c, CallGood(c, page.lapses), calls' = calls \cup {c},
         UNCHANGED created
  PROVE  CreationInv'
<1>1. ListenersGood(page')
  BY DEF CreationInv, ListenersGood
<1>2. \A d \in calls' : CallGood(d, page'.lapses)
  BY DEF CreationInv
<1> QED
  BY <1>1, <1>2 DEF CreationInv, CreatedAsShown, TasksOfTheArea, CountIsOfTheTasks, AreaWithinLimit

LEMMA ListenStep ==
  ASSUME CreationInv, NEW kind, Listen(kind), UNCHANGED <<calls, created>>
  PROVE  CreationInv'
<1> DEFINE l == [kind |-> kind, meta |-> page.meta]
           ls == Append(page.listeners, l)
<1>1. /\ DOMAIN page' = PageFields /\ page'.meta = page.meta /\ page'.step = page.step
      /\ page'.updater \in {page.updater, <<page.meta>>}
      /\ page'.lapses = page.lapses /\ page'.button = page.button /\ page'.listeners = ls
  BY NowGood DEF Listen, PageFields
<1>2. DOMAIN l = {"kind", "meta"} /\ l.meta = page.meta
  OBVIOUS
<1>3. IsSequence(page.listeners)
  BY DEF CreationInv, ListenersGood
<1> HIDE DEF l
<1>4. /\ IsSequence(ls) /\ DOMAIN ls = DOMAIN page.listeners \cup {Len(page.listeners) + 1}
      /\ ls[Len(page.listeners) + 1] = l /\ \A i \in DOMAIN page.listeners : ls[i] = page.listeners[i]
  BY <1>3, AppendIsSequence
<1> HIDE DEF ls
<1>5. ListenersGood(page')
  <2>1. \A i \in DOMAIN page.listeners :
          /\ DOMAIN page.listeners[i] = {"kind", "meta"} /\ Shape(page.listeners[i].meta)
          /\ "leftover" \notin page.lapses => OfArea(page.listeners[i].meta)
    BY DEF CreationInv, ListenersGood
  <2>2. page'.updater # <<>> => Shape(page'.updater[1])
    BY <1>1, NowGood DEF CreationInv, ListenersGood
  <2> QED
    BY <1>1, <1>2, <1>4, <2>1, <2>2, NowGood DEF ListenersGood
<1>6. PageGood(page')
  BY <1>1, NowGood DEF PageGood, Counts, Measured
<1> QED
  BY <1>1, <1>5, <1>6
  DEF CreationInv, CreatedAsShown, TasksOfTheArea, CountIsOfTheTasks, AreaWithinLimit

----------------------------------------------------------------------------
\* The area is cleared, or what is drawn is deleted: there is no area any more.
LEMMA ClearKeeps ==
  ASSUME CreationInv, NEW m, DOMAIN m = MetaFields, m.geom = NoGeom, m.grid = page.meta.grid,
         m.temp = page.meta.temp,
         (m.number = page.meta.number /\ m.arbitrary = page.meta.arbitrary) \/ page.step = 1, DOMAIN page' = PageFields, page'.meta = m, page'.updater = page.updater,
         page'.step = page.step, page'.button = page.button, page'.lapses = page.lapses,
         page'.listeners = page.listeners, UNCHANGED <<calls, created>>
  PROVE  CreationInv'
<1>1. Shape(m) /\ OfArea(m)
  BY NowGood DEF Shape, OfArea
<1>2. Counts(page')
  BY NowGood DEF Counts, Right
<1>3. Measured(page')
  BY DEF Measured, NoGeom
<1> QED
  BY <1>1, <1>2, <1>3, MetaStep

LEMMA ClearedFacts ==
  ASSUME CreationInv
  PROVE  LET q == Cleared(page) IN
         /\ DOMAIN q = PageFields /\ DOMAIN q.meta = MetaFields /\ q.meta.geom = NoGeom
         /\ q.meta.grid = page.meta.grid /\ q.meta.temp = page.meta.temp /\ q.updater = page.updater /\ q.step = page.step
         /\ q.button = page.button /\ q.lapses = page.lapses /\ q.listeners = page.listeners
<1> DEFINE m == [page.meta EXCEPT !.geom = NoGeom, !.arbitrary = FALSE, !.number = 0]
           w == WithMeta(page, m)
<1>1. DOMAIN m = MetaFields /\ m.geom = NoGeom /\ m.grid = page.meta.grid /\ m.temp = page.meta.temp
  BY NowGood DEF MetaFields
<1>2. Cleared(page) = [w EXCEPT !.features = WithoutFirst(@)]
  BY DEF Cleared
<1> HIDE DEF m
<1>3. /\ DOMAIN w = PageFields /\ w.meta = m /\ w.step = page.step
      /\ w.listeners = page.listeners /\ w.lapses = page.lapses /\ w.button = page.button /\ w.updater = page.updater
  BY MetaFacts, NowGood
<1> HIDE DEF w
<1> QED
  BY <1>1, <1>2, <1>3 DEF PageFields

LEMMA UploadKeeps == ASSUME CreationInv, uploadFile PROVE CreationInv'
<1>1. CASE \E geom \in Geometries \cup {NoGeom} : readGeoFile(geom)
  <2>1. PICK geom : readGeoFile(geom)
    BY <1>1
  <2> DEFINE c == [kind |-> "file", meta |-> page.meta, geom |-> geom]
  <2>2. CallGood(c, page.lapses)
    BY NowGood DEF CallGood
  <2>3. calls' = calls \cup {c} /\ page' = [page EXCEPT !.err = "none"]
    BY <2>1 DEF readGeoFile
  <2> HIDE DEF c
  <2>4. /\ DOMAIN page' = PageFields /\ page'.meta = page.meta /\ page'.step = page.step
        /\ page'.updater = page.updater /\ page'.lapses = page.lapses /\ page'.button = page.button
        /\ page'.listeners = page.listeners
    BY <2>3, NowGood DEF PageFields
  <2>5. PageGood(page')
    BY <2>4, NowGood DEF PageGood, Counts, Measured
  <2> QED
    BY <2>2, <2>3, <2>4, <2>5, CallStep DEF uploadFile
<1>2. CASE page' = [Cleared(page) EXCEPT !.err = "file"] /\ UNCHANGED calls
  <2> DEFINE q == Cleared(page)
  <2>1. /\ DOMAIN q = PageFields /\ DOMAIN q.meta = MetaFields /\ q.meta.geom = NoGeom
        /\ q.meta.grid = page.meta.grid /\ q.meta.temp = page.meta.temp /\ q.updater = page.updater /\ q.step = page.step
        /\ q.button = page.button /\ q.lapses = page.lapses /\ q.listeners = page.listeners
    BY ClearedFacts
  <2>2. page' = [q EXCEPT !.err = "file"] /\ page.step = 1 /\ UNCHANGED <<calls, created>>
    BY <1>2 DEF uploadFile
  <2> HIDE DEF q
  <2>3. /\ DOMAIN page' = PageFields /\ page'.meta = q.meta /\ page'.updater = page.updater /\ page'.step = page.step
        /\ page'.button = page.button /\ page'.lapses = page.lapses /\ page'.listeners = page.listeners
    BY <2>1, <2>2 DEF PageFields
  <2> QED
    BY <2>1, <2>2, <2>3, ClearKeeps
<1> QED
  BY <1>1, <1>2 DEF uploadFile

LEMMA DeleteKeeps == ASSUME CreationInv, deleteHandler PROVE CreationInv'
<1>1. page' = Cleared(page) /\ page.step = 1 /\ UNCHANGED <<calls, created>>
  BY DEF deleteHandler
<1> QED
  BY <1>1, ClearedFacts, ClearKeeps

LEMMA DrawDeleteKeeps == ASSUME CreationInv, DrawDelete PROVE CreationInv'
<1> DEFINE m == [page.meta EXCEPT !.geom = NoGeom]
           w == WithMeta(page, m)
<1>1. /\ DOMAIN m = MetaFields /\ m.geom = NoGeom /\ m.grid = page.meta.grid /\ m.temp = page.meta.temp
      /\ m.number = page.meta.number /\ m.arbitrary = page.meta.arbitrary
  BY NowGood DEF MetaFields
<1>2. PICK f \in page.features : page' = [w EXCEPT !.features = @ \ {f}]
  BY DEF DrawDelete
<1>3. UNCHANGED <<calls, created>>
  BY DEF DrawDelete
<1> HIDE DEF m
<1>4. /\ DOMAIN w = PageFields /\ w.meta = m /\ w.step = page.step /\ w.updater = page.updater
      /\ w.listeners = page.listeners /\ w.lapses = page.lapses /\ w.button = page.button
  BY MetaFacts, NowGood
<1> HIDE DEF w
<1>5. /\ DOMAIN page' = PageFields /\ page'.meta = m /\ page'.updater = page.updater /\ page'.step = page.step
      /\ page'.button = page.button /\ page'.lapses = page.lapses /\ page'.listeners = page.listeners
  BY <1>2, <1>4 DEF PageFields
<1> QED
  BY <1>1, <1>3, <1>5, ClearKeeps

LEMMA DrawKeeps == ASSUME CreationInv, drawHandler PROVE CreationInv'
<1>1. CASE page' = [page EXCEPT !.drawing = "no"]
  <2>1. /\ DOMAIN page' = PageFields /\ page'.meta = page.meta /\ page'.step = page.step
        /\ page'.updater = page.updater /\ page'.lapses = page.lapses /\ page'.button = page.button
        /\ page'.listeners = page.listeners
    BY <1>1, NowGood DEF PageFields
  <2> QED
    BY <2>1, NowGood, SamePage DEF drawHandler
<1>2. CASE Listen("area")
  BY <1>2, ListenStep DEF drawHandler
<1> QED
  BY <1>1, <1>2 DEF drawHandler

\* New metadata by a handler of the step: what updateMetadata leaves alone.
LEMMA UpdateStep ==
  ASSUME CreationInv, NEW m, Shape(m), updateMetadata(m), "leftover" \notin page.lapses => OfArea(m),
         UNCHANGED <<calls, created>>,
         page.step > 1 => m.geom = page.meta.geom,
         page.lapses = {} =>
           /\ page.step \in {2, 3} => ~m.arbitrary /\ m.number = m.grid.n
           /\ page.step = 4 => Right(m)
  PROVE  CreationInv'
<1>1. /\ DOMAIN page' = PageFields /\ page'.meta = m /\ page'.step = page.step /\ page'.updater = page.updater
      /\ page'.listeners = page.listeners /\ page'.lapses = page.lapses /\ page'.button = page.button
  BY NowGood, MetaFacts DEF updateMetadata
<1>2. Counts(page')
  BY <1>1 DEF Counts
<1>3. Measured(page')
  BY <1>1, NowGood DEF Measured
<1> QED
  BY <1>1, <1>2, <1>3, NowGood, MetaStep

LEMMA ToggleKeeps == ASSUME CreationInv, ToggleArbitrary PROVE CreationInv'
<1> DEFINE m == [page.meta EXCEPT !.arbitrary = ~@, !.number = page.meta.geom.parts]
<1>1. DOMAIN m = MetaFields /\ m.geom = page.meta.geom /\ m.grid = page.meta.grid /\ m.temp = page.meta.temp
  BY NowGood DEF MetaFields
<1>2. updateMetadata(m) /\ page.step = 1 /\ UNCHANGED <<calls, created>>
  BY DEF ToggleArbitrary
<1> HIDE DEF m
<1>3. Shape(m) /\ ("leftover" \notin page.lapses => OfArea(m))
  BY <1>1, NowGood DEF Shape, OfArea
<1> QED
  BY <1>2, <1>3, UpdateStep

----------------------------------------------------------------------------
\* The sizes: another grid of the area, with the number of its tasks.
LEMMA WithGridKeeps ==
  ASSUME CreationInv, NEW m, DOMAIN m = MetaFields, m.geom = page.meta.geom, m.arbitrary = page.meta.arbitrary,
         DOMAIN m.temp = GridFields, NEW grid, DOMAIN grid = GridFields,
         "leftover" \notin page.lapses /\ m.geom # NoGeom => m.temp.of = m.geom /\ grid.of = m.geom,
         page.step \in {2, 3}, updateMetadata(WithGrid(m, grid)), UNCHANGED <<calls, created>>
  PROVE  CreationInv'
<1> DEFINE n == WithGrid(m, grid)
<1>1. /\ DOMAIN n = MetaFields /\ n.grid = grid /\ n.number = grid.n /\ n.geom = m.geom /\ n.temp = m.temp
      /\ n.arbitrary = m.arbitrary
  BY GridFacts
<1>2. updateMetadata(n)
  OBVIOUS
<1> HIDE DEF n
<1>3. Shape(n) /\ ("leftover" \notin page.lapses => OfArea(n))
  BY <1>1 DEF Shape, OfArea
<1>4. page.lapses = {} => ~n.arbitrary /\ n.number = n.grid.n
  BY <1>1, NowGood DEF Counts
<1> QED
  BY <1>1, <1>2, <1>3, <1>4, UpdateStep

LEMMA NowTemp ==
  ASSUME CreationInv
  PROVE  /\ DOMAIN page.meta.temp = GridFields /\ DOMAIN page.meta.grid = GridFields
         /\ "leftover" \notin page.lapses /\ page.meta.geom # NoGeom =>
              page.meta.temp.of = page.meta.geom /\ page.meta.grid.of = page.meta.geom
  BY NowGood DEF Shape, OfArea

LEMMA SizeKeeps ==
  ASSUME CreationInv, NEW zoom, page.step = 2, UNCHANGED <<calls, created>>,
         updateMetadata(WithGrid([page.meta EXCEPT !.zoom = zoom, !.temp = makeGrid(page.meta.geom, zoom)],
                                 makeGrid(page.meta.geom, zoom)))
  PROVE  CreationInv'
<1> DEFINE grid == makeGrid(page.meta.geom, zoom)
           m == [page.meta EXCEPT !.zoom = zoom, !.temp = grid]
<1>1. /\ DOMAIN m = MetaFields /\ m.geom = page.meta.geom /\ m.arbitrary = page.meta.arbitrary /\ m.temp = grid
  BY NowGood DEF MetaFields
<1>2. DOMAIN grid = GridFields /\ grid.of = page.meta.geom
  BY MakeFacts
<1>3. updateMetadata(WithGrid(m, grid))
  OBVIOUS
<1> HIDE DEF m, grid
<1> QED
  BY <1>1, <1>2, <1>3, WithGridKeeps

LEMMA SplitFacts ==
  ASSUME NEW grid, DOMAIN grid = GridFields, NEW hit
  PROVE  DOMAIN splitTaskGrid(grid, hit) = GridFields /\ splitTaskGrid(grid, hit).of = grid.of
  BY DEF splitTaskGrid, GridFields

LEMMA SplitKeeps ==
  ASSUME CreationInv, NEW hit, page.step = 2, splitHandler(hit), UNCHANGED <<calls, created>>
  PROVE  CreationInv'
  BY NowGood, NowTemp, SplitFacts, WithGridKeeps DEF splitHandler

LEMMA ResetKeeps ==
  ASSUME CreationInv, page.step = 2, resetGrid, UNCHANGED <<calls, created>>
  PROVE  CreationInv'
<1> DEFINE m == [page.meta EXCEPT !.grid = page.meta.temp]
           w == WithMeta(page, m)
           lapses == IF page.meta.grid = page.meta.temp THEN page.lapses ELSE page.lapses \cup {"reset"}
<1>1. /\ DOMAIN m = MetaFields /\ m.geom = page.meta.geom /\ m.grid = page.meta.temp /\ m.temp = page.meta.temp
      /\ m.arbitrary = page.meta.arbitrary /\ m.number = page.meta.number
  BY NowGood DEF MetaFields
<1> HIDE DEF m
<1>2. /\ DOMAIN w = PageFields /\ w.meta = m /\ w.step = page.step /\ w.updater = page.updater
      /\ w.listeners = page.listeners /\ w.lapses = page.lapses /\ w.button = page.button
  BY MetaFacts, NowGood
<1>3. page' = [w EXCEPT !.lapses = lapses]
  BY <1>2 DEF resetGrid, m
<1> HIDE DEF w, lapses
<1>4. /\ DOMAIN page' = PageFields /\ page'.meta = m /\ page'.step = page.step /\ page'.updater = page.updater
      /\ page'.listeners = page.listeners /\ page'.lapses = lapses /\ page'.button = page.button
  BY <1>2, <1>3 DEF PageFields
<1>5. page.lapses \subseteq lapses /\ ("leftover" \in lapses <=> "leftover" \in page.lapses)
      /\ (lapses = {} => page.lapses = {} /\ page.meta.grid = page.meta.temp)
      /\ (Excused(page.lapses) => Excused(lapses))
  BY DEF lapses, Excused
<1>6. Shape(m) /\ ("leftover" \notin page.lapses => OfArea(m))
  BY <1>1, NowTemp DEF Shape, OfArea
<1>7. Counts(page')
  BY <1>1, <1>4, <1>5, NowGood DEF Counts
<1>8. Measured(page')
  BY <1>1, <1>4, <1>5, NowGood DEF Measured
<1> QED
  BY <1>4, <1>5, <1>6, <1>7, <1>8, NowGood, MetaStep

LEMMA SizesKeep == ASSUME CreationInv, SetTaskSizes PROVE CreationInv'
<1>1. page.step = 2 /\ UNCHANGED <<calls, created>>
  BY DEF SetTaskSizes
<1>2. CASE smallerSize
  BY <1>1, <1>2, SizeKeeps DEF smallerSize
<1>3. CASE largerSize
  BY <1>1, <1>3, SizeKeeps DEF largerSize
<1>4. CASE resetGrid
  BY <1>1, <1>4, ResetKeeps
<1>5. CASE splitDrawing
  BY <1>1, <1>5, ListenStep DEF splitDrawing
<1>6. CASE \E hit \in {1, 2} : splitHandler(hit)
  BY <1>1, <1>6, SplitKeeps
<1> QED
  BY <1>2, <1>3, <1>4, <1>5, <1>6 DEF SetTaskSizes

\* The third and the fourth step.
LEMMA TrimKeeps == ASSUME CreationInv, TrimProject PROVE CreationInv'
<1>1. CASE trimTaskGrid
  <2> DEFINE c == [kind |-> "trim", meta |-> page.meta, geom |-> page.meta.geom]
  <2>1. CallGood(c, page.lapses)
    <3>1. page.meta.geom.over => Excused(page.lapses)
      BY NowGood DEF TrimProject, Measured
    <3> QED
      BY <3>1, NowGood DEF CallGood
  <2>2. calls' = calls \cup {c} /\ page' = page /\ created' = created
    BY <1>1 DEF trimTaskGrid
  <2> HIDE DEF c
  <2> QED
    BY <2>1, <2>2, CallStep DEF CreationInv
<1>2. CASE removeTinyTasks
  <2> DEFINE grid == [page.meta.grid EXCEPT !.n = @ - page.meta.grid.tiny, !.tiny = 0]
  <2>1. DOMAIN grid = GridFields /\ grid.of = page.meta.grid.of
    BY NowTemp DEF GridFields
  <2>2. updateMetadata(WithGrid(page.meta, grid)) /\ UNCHANGED <<calls, created>> /\ page.step = 3
    BY <1>2 DEF removeTinyTasks, TrimProject
  <2> HIDE DEF grid
  <2> QED
    BY <2>1, <2>2, NowGood, NowTemp, WithGridKeeps
<1> QED
  BY <1>1, <1>2 DEF TrimProject

LEMMA ReviewKeeps == ASSUME CreationInv, Review \/ fetchCloneProjectInfo PROVE CreationInv'
<1>1. CASE Review
  <2> DEFINE m == [page.meta EXCEPT !.organisation = TRUE]
  <2>1. /\ DOMAIN m = MetaFields /\ m.geom = page.meta.geom /\ m.grid = page.meta.grid /\ m.temp = page.meta.temp
        /\ m.number = page.meta.number /\ m.arbitrary = page.meta.arbitrary
    BY NowGood DEF MetaFields
  <2>2. updateMetadata(m) /\ UNCHANGED <<calls, created>> /\ page.step = 4
    BY <1>1 DEF Review, setOrganisation
  <2> HIDE DEF m
  <2>3. Shape(m) /\ ("leftover" \notin page.lapses => OfArea(m))
    BY <2>1, NowGood DEF Shape, OfArea
  <2>4. page.lapses = {} => Right(m)
    BY <2>1, <2>2, NowGood DEF Counts, Right
  <2> QED
    BY <2>1, <2>2, <2>3, <2>4, UpdateStep
<1>2. CASE fetchCloneProjectInfo
  <2>1. /\ DOMAIN page' = PageFields /\ page'.meta = page.meta /\ page'.step = page.step
        /\ page'.updater = page.updater /\ page'.lapses = page.lapses /\ page'.button = page.button
        /\ page'.listeners = page.listeners /\ UNCHANGED <<calls, created>>
    BY <1>2, NowGood DEF fetchCloneProjectInfo, PageFields
  <2> QED
    BY <2>1, NowGood, SamePage
<1> QED
  BY <1>1, <1>2

----------------------------------------------------------------------------
\* What one listener makes of the page.
LEMMA MapGridShape ==
  ASSUME NEW p, DOMAIN p = PageFields, Shape(p.meta)
  PROVE  DOMAIN MapGrid(p) = GridFields /\ (p.step = 2 => MapGrid(p) = p.meta.grid)
  BY DEF MapGrid, GridOf, GridFields, Shape

LEMMA SplitAnswerFacts ==
  ASSUME NEW p, NEW m, DOMAIN p = PageFields, Shape(p.meta), Shape(m)
  PROVE  LET q == splitDrawingAnswer(p, m) IN
         /\ DOMAIN q = PageFields /\ Shape(q.meta) /\ q.step = p.step /\ q.lapses = p.lapses
         /\ q.button = p.button /\ q.updater = p.updater
         /\ q.meta.geom = m.geom /\ q.meta.temp = m.temp /\ q.meta.arbitrary = m.arbitrary
         /\ q.meta.number = q.meta.grid.n /\ q.meta.grid.of = MapGrid(p).of
<1> DEFINE hit == IF MapGrid(p).n = 0 THEN 0 ELSE 1
           g == splitTaskGrid(MapGrid(p), hit)
           n == WithGrid(m, g)
           w == WithMeta(p, n)
<1>1. DOMAIN g = GridFields /\ g.of = MapGrid(p).of
  BY MapGridShape, SplitFacts
<1>2. splitDrawingAnswer(p, m) = [w EXCEPT !.features = @ \ {p.made}]
  BY DEF splitDrawingAnswer
<1> HIDE DEF g
<1>3. /\ DOMAIN n = MetaFields /\ n.grid = g /\ n.number = g.n /\ n.geom = m.geom /\ n.temp = m.temp
      /\ n.arbitrary = m.arbitrary
  BY GridFacts DEF Shape
<1> HIDE DEF n
<1>4. /\ DOMAIN w = PageFields /\ w.meta = n /\ w.step = p.step /\ w.lapses = p.lapses /\ w.button = p.button /\ w.updater = p.updater
  BY MetaFacts
<1> HIDE DEF w
<1>5. Shape(n)
  BY <1>1, <1>3 DEF Shape
<1> QED
  BY <1>1, <1>2, <1>3, <1>4, <1>5 DEF PageFields

LEMMA AreaAnswerFacts ==
  ASSUME NEW p, NEW m, NEW geom, DOMAIN p = PageFields, Shape(p.meta), Shape(m)
  PROVE  LET q == setDataGeom(p, m, geom) IN
         /\ DOMAIN q = PageFields /\ Shape(q.meta) /\ q.step = p.step /\ q.lapses = p.lapses
         /\ q.button = p.button /\ q.updater = p.updater /\ q.listeners = p.listeners
         /\ q.meta = p.meta \/ (geom # NoGeom /\ OfArea(q.meta))
<1>1. CASE geom = NoGeom
  <2>1. setDataGeom(p, m, geom) = [p EXCEPT !.err = "geometry"]
    BY <1>1 DEF setDataGeom
  <2> QED
    BY <2>1 DEF PageFields
<1> QED
  BY <1>1, DataGeomFacts

\* The shape of the page survives any listener.
LEMMA AnswerShape ==
  ASSUME NEW p, NEW l, NEW geom, DOMAIN p = PageFields, Shape(p.meta), Shape(l.meta)
  PROVE  LET q == TaskAnswer(p, l, geom) IN
         DOMAIN q = PageFields /\ Shape(q.meta) /\ q.step = p.step /\ q.lapses = p.lapses /\ q.button = p.button
         /\ q.updater = p.updater
<1>1. CASE l.kind = "area"
  <2> DEFINE s == setDataGeom(p, l.meta, [geom EXCEPT !.feature = p.made])
  <2>1. TaskAnswer(p, l, geom) = [s EXCEPT !.features = IF Cardinality(@) > 1 THEN WithoutFirst(@) ELSE @]
    BY <1>1 DEF TaskAnswer, updateArea
  <2>2. /\ DOMAIN s = PageFields /\ Shape(s.meta) /\ s.step = p.step /\ s.lapses = p.lapses
        /\ s.button = p.button /\ s.updater = p.updater
    BY AreaAnswerFacts
  <2> HIDE DEF s
  <2> QED
    BY <2>1, <2>2 DEF PageFields
<1>2. CASE l.kind # "area"
  BY <1>2, SplitAnswerFacts DEF TaskAnswer
<1> QED
  BY <1>1, <1>2

\* One listener of the step that is shown: the metadata are again in order.
LEMMA OneAnswer ==
  ASSUME CreationInv, NEW p, DOMAIN p = PageFields, p.meta = page.meta, p.step = page.step,
         NEW l, Shape(l.meta), "leftover" \notin page.lapses, OfArea(l.meta), ~Elsewhere(l), NEW geom
  PROVE  LET q == TaskAnswer(p, l, geom) IN
         /\ OfArea(q.meta)
         /\ q.meta = page.meta \/ page.step = 1
              \/ /\ page.step = 2 /\ q.meta.geom = page.meta.geom /\ q.meta.arbitrary = page.meta.arbitrary
                 /\ q.meta.number = q.meta.grid.n
<1>0. Shape(p.meta)
  BY NowGood
<1>1. CASE l.kind = "area"
  <2> DEFINE s == setDataGeom(p, l.meta, [geom EXCEPT !.feature = p.made])
  <2>1. /\ TaskAnswer(p, l, geom) = [s EXCEPT !.features = IF Cardinality(@) > 1 THEN WithoutFirst(@) ELSE @]
        /\ page.step = 1
    BY <1>1 DEF TaskAnswer, Elsewhere, updateArea
  <2>2. DOMAIN s = PageFields /\ (s.meta = page.meta \/ OfArea(s.meta))
    BY <1>0, AreaAnswerFacts
  <2> HIDE DEF s
  <2> QED
    BY <2>1, <2>2, NowGood DEF PageFields
<1>2. CASE l.kind # "area"
  <2> DEFINE q == splitDrawingAnswer(p, l.meta)
  <2>1. TaskAnswer(p, l, geom) = q /\ page.step = 2 /\ l.meta = page.meta
    BY <1>2 DEF TaskAnswer, Elsewhere
  <2>2. /\ q.meta.geom = l.meta.geom /\ q.meta.temp = l.meta.temp /\ q.meta.arbitrary = l.meta.arbitrary
        /\ q.meta.number = q.meta.grid.n /\ q.meta.grid.of = MapGrid(p).of
    BY <1>0, SplitAnswerFacts
  <2>3. MapGrid(p) = page.meta.grid
    BY <1>0, <2>1, MapGridShape
  <2> HIDE DEF q
  <2> QED
    BY <2>1, <2>2, <2>3 DEF OfArea
<1> QED
  BY <1>1, <1>2

LEMMA DrawCreateKeeps == ASSUME CreationInv, NEW geom, DrawCreate(geom) PROVE CreationInv'
<1> DEFINE ls == page.listeners
           drawn == [page EXCEPT !.made = @ + 1, !.features = @ \cup {page.made + 1}]
           first == TaskAnswer(drawn, ls[1], geom)
           last == IF Len(ls) = 1 THEN first ELSE TaskAnswer(first, ls[2], geom)
           left == Len(ls) > 1 \/ Elsewhere(ls[1])
           lapses == IF left THEN page.lapses \cup {"leftover"} ELSE page.lapses
<1>1. ls # <<>> /\ UNCHANGED <<calls, created>>
  BY DEF DrawCreate
<1>2. /\ \A i \in DOMAIN ls : Shape(ls[i].meta) /\ ("leftover" \notin page.lapses => OfArea(ls[i].meta))
      /\ IsSequence(ls)
  BY DEF CreationInv, ListenersGood
<1>3. 1 \in DOMAIN ls /\ (Len(ls) # 1 => 2 \in DOMAIN ls /\ Len(ls) > 1)
  BY <1>1, <1>2, FirstOf
<1>13. /\ DOMAIN drawn = PageFields /\ drawn.meta = page.meta /\ drawn.step = page.step /\ drawn.lapses = page.lapses
       /\ drawn.button = page.button /\ drawn.updater = page.updater /\ Shape(drawn.meta)
  BY NowGood DEF PageFields
<1>14. page' = [last EXCEPT !.listeners = <<>>, !.drawing = "no",
                  !.lapses = IF left THEN @ \cup {"leftover"} ELSE @]
  BY DEF DrawCreate
<1> HIDE DEF drawn
<1>4. DOMAIN first = PageFields /\ Shape(first.meta) /\ first.step = page.step /\ first.lapses = page.lapses
      /\ first.button = page.button /\ first.updater = page.updater
  BY <1>2, <1>3, <1>13, AnswerShape
<1>5. ~left /\ "leftover" \notin page.lapses =>
        /\ OfArea(first.meta)
        /\ first.meta = page.meta \/ page.step = 1
             \/ /\ page.step = 2 /\ first.meta.geom = page.meta.geom /\ first.meta.arbitrary = page.meta.arbitrary
                /\ first.meta.number = first.meta.grid.n
  BY <1>2, <1>3, <1>13, OneAnswer
<1> HIDE DEF first
<1>6. DOMAIN last = PageFields /\ Shape(last.meta) /\ last.step = page.step /\ last.lapses = page.lapses
      /\ last.button = page.button /\ last.updater = page.updater
  BY <1>2, <1>3, <1>4, AnswerShape
<1>7. ~left => last = first
  BY <1>3
<1> HIDE DEF last
<1>9. /\ DOMAIN page' = PageFields /\ page'.meta = last.meta /\ page'.step = page.step /\ page'.button = page.button
      /\ page'.lapses = lapses /\ page'.listeners = <<>> /\ page'.updater = page.updater
  BY <1>6, <1>14 DEF PageFields
<1> HIDE DEF left
<1>10. /\ page.lapses \subseteq lapses /\ (left => lapses # {} /\ "leftover" \in lapses /\ Excused(lapses))
       /\ (~left => lapses = page.lapses)
  BY DEF Excused
<1> HIDE DEF lapses, ls
<1>11. "leftover" \notin lapses => OfArea(last.meta)
  BY <1>5, <1>7, <1>10
<1>12. Counts(page')
  <2> SUFFICES ASSUME lapses = {} PROVE Counts(page')
    BY <1>9 DEF Counts
  <2>1. ~left /\ page.lapses = {} /\ last.meta = first.meta
    BY <1>7, <1>10
  <2> QED
    BY <1>5, <1>9, <2>1, NowGood DEF Counts
<1>15. Measured(page')
  <2> SUFFICES ASSUME page.step > 1, last.meta.geom.over, ~left, "leftover" \notin page.lapses PROVE Excused(lapses)
    BY <1>9, <1>10 DEF Measured, Excused
  <2>1. last.meta.geom = page.meta.geom
    BY <1>5, <1>7, NowGood
  <2> QED
    BY <2>1, <1>10, NowGood DEF Measured
<1> QED
  BY <1>1, <1>6, <1>9, <1>10, <1>11, <1>12, <1>15, MetaStep

\* A drag: the area again, with its own grid; after the first step it is a lapse.
LEMMA DrawUpdateKeeps == ASSUME CreationInv, DrawUpdate PROVE CreationInv'
<1>1. PICK f \in page.features, geom \in Drawings :
        page' = [setDataGeom(page, page.updater[1], [geom EXCEPT !.feature = f])
                   EXCEPT !.lapses = IF page.step = 1 THEN @ ELSE @ \cup {"dragged"}]
  BY DEF DrawUpdate
<1> DEFINE s == setDataGeom(page, page.updater[1], [geom EXCEPT !.feature = f])
           lapses == IF page.step = 1 THEN page.lapses ELSE page.lapses \cup {"dragged"}
<1>2. Shape(page.updater[1]) /\ UNCHANGED <<calls, created>>
  BY DEF DrawUpdate, CreationInv, ListenersGood
<1>3. /\ DOMAIN s = PageFields /\ Shape(s.meta) /\ s.step = page.step /\ s.lapses = page.lapses
      /\ s.button = page.button /\ s.updater = page.updater /\ s.listeners = page.listeners
      /\ s.meta = page.meta \/ OfArea(s.meta)
  BY <1>2, NowGood, AreaAnswerFacts
<1>4. page' = [s EXCEPT !.lapses = IF page.step = 1 THEN @ ELSE @ \cup {"dragged"}]
  BY <1>1
<1> HIDE DEF s
<1>5. /\ DOMAIN page' = PageFields /\ page'.meta = s.meta /\ page'.step = page.step /\ page'.button = page.button
      /\ page'.lapses = lapses /\ page'.listeners = page.listeners /\ page'.updater = page.updater
  BY <1>3, <1>4 DEF PageFields
<1>6. /\ page.lapses \subseteq lapses /\ (page.step # 1 => lapses # {} /\ Excused(lapses))
      /\ ("leftover" \in lapses <=> "leftover" \in page.lapses)
  BY DEF Excused
<1> HIDE DEF lapses
<1>7. "leftover" \notin lapses => OfArea(s.meta)
  BY <1>3, <1>6, NowGood
<1>8. Counts(page') /\ Measured(page')
  BY <1>5, <1>6, NowGood DEF Counts, Measured
<1> QED
  BY <1>2, <1>3, <1>5, <1>6, <1>7, <1>8, MetaStep

----------------------------------------------------------------------------
\* The answers write over the metadata those they were asked with.
LEMMA FileKeeps ==
  ASSUME CreationInv, NEW c \in calls, c.kind = "file", FileAnswer(c), calls' = calls \ {c}, UNCHANGED created
  PROVE  CreationInv'
<1> DEFINE s == setDataGeom(page, c.meta, c.geom)
           late == page.step # 1 /\ c.geom # NoGeom
           lapses == IF late THEN page.lapses \cup {"lateFile"} ELSE page.lapses
<1>1. Shape(c.meta) /\ ("leftover" \notin page.lapses => OfArea(c.meta))
  BY DEF CreationInv, CallGood
<1>2. /\ DOMAIN s = PageFields /\ Shape(s.meta) /\ s.step = page.step /\ s.lapses = page.lapses
      /\ s.button = page.button /\ s.updater = page.updater /\ s.listeners = page.listeners
      /\ s.meta = page.meta \/ (c.geom # NoGeom /\ OfArea(s.meta))
  BY <1>1, NowGood, AreaAnswerFacts
<1>3. page' = [s EXCEPT !.lapses = IF late THEN @ \cup {"lateFile"} ELSE @]
  BY DEF FileAnswer
<1> HIDE DEF s
<1>4. /\ DOMAIN page' = PageFields /\ page'.meta = s.meta /\ page'.step = page.step /\ page'.button = page.button
      /\ page'.lapses = lapses /\ page'.listeners = page.listeners /\ page'.updater = page.updater
  BY <1>2, <1>3 DEF PageFields
<1>5. /\ page.lapses \subseteq lapses /\ (late => lapses # {} /\ Excused(lapses))
      /\ ("leftover" \in lapses <=> "leftover" \in page.lapses) /\ (~late => lapses = page.lapses)
  BY DEF Excused
<1>6. page.step = 1 \/ late \/ s.meta = page.meta
  BY <1>2
<1> HIDE DEF late, lapses
<1>7. "leftover" \notin lapses => OfArea(s.meta)
  BY <1>2, <1>5, NowGood
<1>8. Counts(page') /\ Measured(page')
  BY <1>4, <1>5, <1>6, NowGood DEF Counts, Measured
<1> QED
  BY <1>2, <1>4, <1>5, <1>7, <1>8, NowGood, MetaStep

LEMMA TrimAnswerKeeps ==
  ASSUME CreationInv, NEW c \in calls, c.kind # "file", TrimAnswer(c), calls' = calls \ {c}, UNCHANGED created
  PROVE  CreationInv'
<1>1. PICK n \in 1..c.meta.temp.n, tiny \in 0..1 :
        page' = [WithMeta(page, WithGrid(c.meta, [c.meta.temp EXCEPT !.n = n, !.tiny = tiny]))
                   EXCEPT !.lapses = IF page.step # 3 \/ page.meta # c.meta THEN @ \cup {"lateTrim"} ELSE @]
  BY DEF TrimAnswer
<1> DEFINE grid == [c.meta.temp EXCEPT !.n = n, !.tiny = tiny]
           m == WithGrid(c.meta, grid)
           w == WithMeta(page, m)
           late == page.step # 3 \/ page.meta # c.meta
           lapses == IF late THEN page.lapses \cup {"lateTrim"} ELSE page.lapses
<1>2. Shape(c.meta) /\ ("leftover" \notin page.lapses => OfArea(c.meta))
      /\ (c.meta.geom.over => Excused(page.lapses))
  BY DEF CreationInv, CallGood
<1>3. DOMAIN grid = GridFields /\ grid.of = c.meta.temp.of
  BY <1>2 DEF Shape, GridFields
<1>4. page' = [w EXCEPT !.lapses = IF late THEN @ \cup {"lateTrim"} ELSE @]
  BY <1>1
<1> HIDE DEF grid
<1>5. /\ DOMAIN m = MetaFields /\ m.grid = grid /\ m.number = grid.n /\ m.geom = c.meta.geom
      /\ m.temp = c.meta.temp /\ m.arbitrary = c.meta.arbitrary
  BY <1>2, GridFacts DEF Shape
<1> HIDE DEF m
<1>6. /\ DOMAIN w = PageFields /\ w.meta = m /\ w.step = page.step /\ w.updater = page.updater
      /\ w.listeners = page.listeners /\ w.lapses = page.lapses /\ w.button = page.button
  BY MetaFacts, NowGood
<1> HIDE DEF w
<1>7. /\ DOMAIN page' = PageFields /\ page'.meta = m /\ page'.step = page.step /\ page'.button = page.button
      /\ page'.lapses = lapses /\ page'.listeners = page.listeners /\ page'.updater = page.updater
  BY <1>4, <1>6 DEF PageFields
<1>8. /\ page.lapses \subseteq lapses /\ (late => lapses # {}) /\ (Excused(page.lapses) => Excused(lapses))
      /\ ("leftover" \in lapses <=> "leftover" \in page.lapses) /\ (~late => lapses = page.lapses)
  BY DEF Excused
<1>9. ~late => page.step = 3 /\ page.meta = c.meta
  OBVIOUS
<1> HIDE DEF late, lapses
<1>10. Shape(m) /\ ("leftover" \notin lapses => OfArea(m))
  BY <1>2, <1>3, <1>5, <1>8 DEF Shape, OfArea
<1>11. Counts(page')
  <2> SUFFICES ASSUME lapses = {} PROVE page.step = 3 /\ ~m.arbitrary /\ m.number = m.grid.n
    BY <1>7 DEF Counts
  <2> QED
    BY <1>5, <1>8, <1>9, NowGood DEF Counts
<1>12. Measured(page')
  BY <1>2, <1>5, <1>7, <1>8 DEF Measured
<1> QED
  BY <1>7, <1>8, <1>10, <1>11, <1>12, NowGood, MetaStep

LEMMA FetchedKeeps == ASSUME CreationInv, NEW c \in calls, Fetched(c) PROVE CreationInv'
<1>1. calls' = calls \ {c} /\ UNCHANGED created
  BY DEF Fetched
<1>2. CASE UNCHANGED page
  BY <1>1, <1>2, NowGood, SamePage
<1> QED
  BY <1>1, <1>2, FileKeeps, TrimAnswerKeeps DEF Fetched

----------------------------------------------------------------------------
\* To another step.
LEMMA SetStepFacts ==
  ASSUME NEW p, DOMAIN p = PageFields, NEW step
  PROVE  LET q == SetStep(p, step) IN
         /\ DOMAIN q = PageFields /\ q.step = step /\ q.meta = p.meta /\ q.updater = p.updater
         /\ q.lapses = p.lapses /\ q.button = p.button /\ q.listeners = p.listeners
  BY DEF SetStep, PageFields

\* A page on another step, with metadata whose area, grid and grid to return to belong together as before.
LEMMA OtherStep ==
  ASSUME CreationInv, NEW p, NEW step \in 1..4, DOMAIN p = PageFields, page' = SetStep(p, step),
         p.updater = page.updater, p.lapses = page.lapses, p.button = page.button, p.listeners = page.listeners,
         DOMAIN p.meta = MetaFields, p.meta.geom = page.meta.geom,
         p.meta.grid \in {page.meta.grid, page.meta.temp}, p.meta.temp \in {page.meta.grid, page.meta.temp},
         page.step > 1 \/ ~page.meta.geom.over,
         page.lapses = {} =>
           /\ step \in {2, 3} => ~p.meta.arbitrary /\ p.meta.number = p.meta.grid.n
           /\ step = 4 => Right(p.meta),
         UNCHANGED <<calls, created>>
  PROVE  CreationInv'
<1>1. /\ DOMAIN page' = PageFields /\ page'.step = step /\ page'.meta = p.meta /\ page'.updater = page.updater
      /\ page'.lapses = page.lapses /\ page'.button = page.button /\ page'.listeners = page.listeners
  BY SetStepFacts
<1>2. Shape(p.meta) /\ ("leftover" \notin page.lapses => OfArea(p.meta))
  BY NowTemp DEF Shape, OfArea
<1>3. Counts(page')
  BY <1>1 DEF Counts
<1>4. Measured(page')
  BY <1>1, NowGood DEF Measured
<1>5. PageGood(page')
  BY <1>1, <1>2, <1>3, <1>4 DEF PageGood
<1> QED
  BY <1>1, <1>5, PageStep

LEMMA FirstStepKeeps ==
  ASSUME CreationInv, page.step = 1, ~page.meta.geom.over, UNCHANGED <<calls, created>>,
         page' = NextFrom([WithMeta(page, [page.meta EXCEPT !.number =
                   IF page.meta.arbitrary THEN page.meta.geom.parts ELSE page.meta.grid.n])
                   EXCEPT !.features = @ \ {page.meta.geom.feature}])
  PROVE  CreationInv'
<1> DEFINE number == IF page.meta.arbitrary THEN page.meta.geom.parts ELSE page.meta.grid.n
           m == [page.meta EXCEPT !.number = number]
           w == WithMeta(page, m)
           p == [w EXCEPT !.features = @ \ {page.meta.geom.feature}]
<1>1. /\ DOMAIN m = MetaFields /\ m.geom = page.meta.geom /\ m.grid = page.meta.grid /\ m.temp = page.meta.temp
      /\ m.number = number /\ m.arbitrary = page.meta.arbitrary
  BY NowGood DEF MetaFields
<1>2. page' = NextFrom(p)
  OBVIOUS
<1>3. number = IF m.arbitrary THEN m.geom.parts ELSE m.grid.n
  BY <1>1
<1> HIDE DEF number, m
<1>4. /\ DOMAIN w = PageFields /\ w.meta = m /\ w.step = page.step /\ w.updater = page.updater
      /\ w.listeners = page.listeners /\ w.lapses = page.lapses /\ w.button = page.button
  BY MetaFacts, NowGood
<1> HIDE DEF w
<1>5. /\ DOMAIN p = PageFields /\ p.meta = m /\ p.step = 1 /\ p.updater = page.updater
      /\ p.listeners = page.listeners /\ p.lapses = page.lapses /\ p.button = page.button
  BY <1>4 DEF PageFields
<1> HIDE DEF p
<1> DEFINE step == IF p.meta.arbitrary THEN 4 ELSE p.step + 1
<1>6. page' = SetStep(p, step)
  BY <1>2 DEF NextFrom
<1>7. step \in {2, 4} /\ (step = 2 => ~p.meta.arbitrary)
  BY <1>5
<1> HIDE DEF step
<1>8. /\ step \in {2, 3} => ~p.meta.arbitrary /\ p.meta.number = p.meta.grid.n
      /\ step = 4 => Right(p.meta)
  BY <1>1, <1>3, <1>5, <1>7 DEF Right
<1>9. /\ step \in 1..4 /\ DOMAIN p.meta = MetaFields /\ p.meta.geom = page.meta.geom
      /\ p.meta.grid \in {page.meta.grid, page.meta.temp} /\ p.meta.temp \in {page.meta.grid, page.meta.temp}
  BY <1>1, <1>5, <1>7
<1> QED
  BY <1>5, <1>6, <1>8, <1>9, OtherStep

LEMMA SecondStepKeeps ==
  ASSUME CreationInv, page.step = 2, UNCHANGED <<calls, created>>,
         page' = NextFrom(WithMeta(page, [page.meta EXCEPT !.temp = page.meta.grid]))
  PROVE  CreationInv'
<1> DEFINE m == [page.meta EXCEPT !.temp = page.meta.grid]
           p == WithMeta(page, m)
<1>1. /\ DOMAIN m = MetaFields /\ m.geom = page.meta.geom /\ m.grid = page.meta.grid /\ m.temp = page.meta.grid
      /\ m.number = page.meta.number /\ m.arbitrary = page.meta.arbitrary
  BY NowGood DEF MetaFields
<1>2. page' = NextFrom(p)
  OBVIOUS
<1> HIDE DEF m
<1>3. /\ DOMAIN p = PageFields /\ p.meta = m /\ p.step = 2 /\ p.updater = page.updater
      /\ p.listeners = page.listeners /\ p.lapses = page.lapses /\ p.button = page.button
  BY MetaFacts, NowGood
<1> HIDE DEF p
<1> DEFINE step == IF p.meta.arbitrary THEN 4 ELSE p.step + 1
<1>4. page' = SetStep(p, step)
  BY <1>2 DEF NextFrom
<1>5. step \in {3, 4} /\ (p.meta.arbitrary <=> page.meta.arbitrary) /\ (step = 4 => p.meta.arbitrary)
  BY <1>1, <1>3
<1> HIDE DEF step
<1>6. page.lapses = {} => ~p.meta.arbitrary /\ p.meta.number = p.meta.grid.n
  BY <1>1, <1>3, NowGood DEF Counts
<1>7. /\ step \in 1..4 /\ DOMAIN p.meta = MetaFields /\ p.meta.geom = page.meta.geom
      /\ p.meta.grid \in {page.meta.grid, page.meta.temp} /\ p.meta.temp \in {page.meta.grid, page.meta.temp}
  BY <1>1, <1>3, <1>5
<1>8. page.lapses = {} => step # 4
  BY <1>5, <1>6
<1>9. page.step > 1
  OBVIOUS
<1> QED
  BY <1>3, <1>4, <1>6, <1>7, <1>8, <1>9, OtherStep

LEMMA ThirdStepKeeps ==
  ASSUME CreationInv, page.step = 3, UNCHANGED <<calls, created>>, page' = NextFrom([page EXCEPT !.err = "none"])
  PROVE  CreationInv'
<1> DEFINE p == [page EXCEPT !.err = "none"]
<1>1. page' = SetStep(p, 4)
  BY NowGood DEF NextFrom, PageFields
<1>2. /\ DOMAIN p = PageFields /\ p.meta = page.meta /\ p.updater = page.updater
      /\ p.listeners = page.listeners /\ p.lapses = page.lapses /\ p.button = page.button
  BY NowGood DEF PageFields
<1> HIDE DEF p
<1>3. page.lapses = {} => ~p.meta.arbitrary /\ p.meta.number = p.meta.grid.n
  BY <1>2, NowGood DEF Counts
<1>4. page.lapses = {} => Right(p.meta)
  BY <1>3 DEF Right
<1>5. page.step > 1 /\ 4 \in 1..4 /\ 4 \notin {2, 3}
  OBVIOUS
<1>6. /\ DOMAIN p.meta = MetaFields /\ p.meta.geom = page.meta.geom
      /\ p.meta.grid \in {page.meta.grid, page.meta.temp} /\ p.meta.temp \in {page.meta.grid, page.meta.temp}
  BY <1>2, NowGood
<1> QED
  BY <1>1, <1>2, <1>4, <1>5, <1>6, OtherStep

LEMMA ForwardKeeps == ASSUME CreationInv, page.step < 4, validateStep PROVE CreationInv'
<1>1. UNCHANGED <<calls, created>>
  BY DEF validateStep
<1>2. CASE \E err \in {"area", "noGeometry"} : page' = [page EXCEPT !.err = err]
  <2>1. /\ DOMAIN page' = PageFields /\ page'.meta = page.meta /\ page'.step = page.step
        /\ page'.updater = page.updater /\ page'.lapses = page.lapses /\ page'.button = page.button
        /\ page'.listeners = page.listeners
    BY <1>2, NowGood DEF PageFields
  <2> QED
    BY <1>1, <2>1, NowGood, SamePage
<1>3. CASE /\ page.step = 1 /\ ~OverLimit(page.meta.geom)
           /\ page' = NextFrom([WithMeta(page, [page.meta EXCEPT !.number =
                IF page.meta.arbitrary THEN page.meta.geom.parts ELSE page.meta.grid.n])
                EXCEPT !.features = @ \ {page.meta.geom.feature}])
  BY <1>1, <1>3, FirstStepKeeps DEF OverLimit
<1>4. CASE page.step = 2 /\ page' = NextFrom(WithMeta(page, [page.meta EXCEPT !.temp = page.meta.grid]))
  BY <1>1, <1>4, SecondStepKeeps
<1>5. CASE page.step = 3 /\ page' = NextFrom([page EXCEPT !.err = "none"])
  BY <1>1, <1>5, ThirdStepKeeps
<1> QED
  BY <1>2, <1>3, <1>4, <1>5 DEF validateStep

\* Where a step back leads, and what it leaves of the metadata.
Back(p) ==
  IF p.meta.arbitrary /\ p.meta.geom = NoGeom THEN p.step ELSE IF p.meta.arbitrary THEN 1 ELSE p.step - 1
LEMMA BackFacts ==
  ASSUME CreationInv, page.step > 1, clearParamsStep
  PROVE  \E m : /\ page' = SetStep(WithMeta(page, m), Back(page))
                /\ DOMAIN m = MetaFields /\ m.geom = page.meta.geom /\ m.arbitrary = page.meta.arbitrary
                /\ m.grid \in {page.meta.grid, page.meta.temp} /\ m.temp = page.meta.temp
                /\ page.step = 3 /\ ~m.arbitrary => m.number = m.grid.n
                /\ page.step = 4 /\ ~m.arbitrary => m = page.meta
<1>1. CASE page.meta.arbitrary
  <2> DEFINE m == [page.meta EXCEPT !.number = page.meta.geom.parts]
  <2>1. page' = SetStep(WithMeta(page, m), Back(page))
    BY <1>1 DEF clearParamsStep, Back
  <2>2. /\ DOMAIN m = MetaFields /\ m.geom = page.meta.geom /\ m.arbitrary = page.meta.arbitrary
        /\ m.grid = page.meta.grid /\ m.temp = page.meta.temp
    BY NowGood DEF MetaFields
  <2> HIDE DEF m
  <2> QED
    BY <1>1, <2>1, <2>2
<1>2. CASE ~page.meta.arbitrary /\ page.step = 2
  <2> DEFINE m == [page.meta EXCEPT !.number = 0]
  <2>1. page' = SetStep(WithMeta(page, m), Back(page))
    BY <1>2 DEF clearParamsStep, Back
  <2>2. /\ DOMAIN m = MetaFields /\ m.geom = page.meta.geom /\ m.arbitrary = page.meta.arbitrary
        /\ m.grid = page.meta.grid /\ m.temp = page.meta.temp
    BY NowGood DEF MetaFields
  <2> HIDE DEF m
  <2> QED
    BY <1>2, <2>1, <2>2
<1>3. CASE ~page.meta.arbitrary /\ page.step = 3
  <2> DEFINE m == WithGrid(page.meta, page.meta.temp)
  <2>1. page' = SetStep(WithMeta(page, m), Back(page))
    BY <1>3 DEF clearParamsStep, Back
  <2>2. /\ DOMAIN m = MetaFields /\ m.geom = page.meta.geom /\ m.arbitrary = page.meta.arbitrary
        /\ m.grid = page.meta.temp /\ m.temp = page.meta.temp /\ m.number = page.meta.temp.n
    BY NowGood, GridFacts
  <2> HIDE DEF m
  <2> QED
    BY <1>3, <2>1, <2>2
<1>4. CASE ~page.meta.arbitrary /\ page.step = 4
  <2>1. page' = SetStep(WithMeta(page, page.meta), Back(page))
    BY <1>4 DEF clearParamsStep, Back
  <2> QED
    BY <1>4, <2>1, NowGood
<1> QED
  BY <1>1, <1>2, <1>3, <1>4, NowGood

LEMMA BackKeeps == ASSUME CreationInv, page.step > 1, clearParamsStep PROVE CreationInv'
<1> DEFINE back == Back(page)
<1>1. PICK m : /\ page' = SetStep(WithMeta(page, m), back)
               /\ DOMAIN m = MetaFields /\ m.geom = page.meta.geom /\ m.arbitrary = page.meta.arbitrary
               /\ m.grid \in {page.meta.grid, page.meta.temp} /\ m.temp = page.meta.temp
               /\ page.step = 3 /\ ~m.arbitrary => m.number = m.grid.n
               /\ page.step = 4 /\ ~m.arbitrary => m = page.meta
  BY BackFacts
<1> DEFINE p == WithMeta(page, m)
<1>2. /\ DOMAIN p = PageFields /\ p.meta = m /\ p.updater = page.updater
      /\ p.listeners = page.listeners /\ p.lapses = page.lapses /\ p.button = page.button
  BY MetaFacts, NowGood
<1>3. page' = SetStep(p, back) /\ UNCHANGED <<calls, created>>
  BY <1>1 DEF clearParamsStep
<1> HIDE DEF p
<1>4. /\ back \in 1..4
      /\ \/ back = page.step /\ m.arbitrary /\ m.geom = NoGeom
         \/ back = 1
         \/ back = 2 /\ page.step = 3 /\ ~m.arbitrary
         \/ back = 3 /\ page.step = 4 /\ ~m.arbitrary
  BY <1>1, NowGood DEF Back
<1> HIDE DEF back
<1>5. page.lapses = {} /\ back \in {2, 3} => ~p.meta.arbitrary /\ p.meta.number = p.meta.grid.n
  BY <1>1, <1>2, <1>4, NowGood DEF Counts, Right
<1>6. back = 4 => Right(p.meta)
  BY <1>1, <1>2, <1>4 DEF Right
<1>7. /\ back \in 1..4
      /\ page.lapses = {} =>
           /\ back \in {2, 3} => ~p.meta.arbitrary /\ p.meta.number = p.meta.grid.n
           /\ back = 4 => Right(p.meta)
  BY <1>4, <1>5, <1>6
<1>9. page.step > 1 \/ ~page.meta.geom.over
  OBVIOUS
<1>8. /\ DOMAIN p.meta = MetaFields /\ p.meta.geom = page.meta.geom
      /\ p.meta.grid \in {page.meta.grid, page.meta.temp} /\ p.meta.temp \in {page.meta.grid, page.meta.temp}
  BY <1>1, <1>2
<1> QED
  BY <1>2, <1>3, <1>7, <1>8, <1>9, OtherStep

----------------------------------------------------------------------------
\* The only step that posts a project.
LEMMA CreateKeeps == ASSUME CreationInv, handleCreate PROVE CreationInv'
<1> DEFINE complete == page.meta.geom # NoGeom /\ (page.meta.organisation \/ page.clone = "fetched")
           r == [geom |-> page.meta.geom, tasks |-> page.meta.grid,
                 arbitrary |-> page.meta.arbitrary, number |-> page.meta.number,
                 clone |-> page.clone = "fetched", times |-> Cardinality(created) + 1,
                 lapses |-> page.lapses]
<1>1. page.step = 4 /\ page.button # "pending" /\ UNCHANGED calls
  BY DEF handleCreate
<1>2. created = {}
  BY <1>1 DEF CreationInv
<1>3. /\ DOMAIN page' = PageFields /\ page'.meta = page.meta /\ page'.step = page.step
      /\ page'.updater = page.updater /\ page'.lapses = page.lapses
      /\ page'.listeners = page.listeners /\ page'.button = createProjectFn(complete)
  BY NowGood DEF handleCreate, PageFields
<1>4. PageGood(page') /\ ListenersGood(page') /\ \A c \in calls' : CallGood(c, page'.lapses)
  BY <1>1, <1>3 DEF CreationInv, PageGood, Counts, Measured, ListenersGood
<1>5. CASE ~complete
  <2>1. created' = created
    BY <1>5 DEF handleCreate
  <2> QED
    BY <1>2, <1>4, <2>1 DEF CreationInv, CreatedAsShown, TasksOfTheArea, CountIsOfTheTasks, AreaWithinLimit
<1>6. CASE complete
  <2>1. created' = {r}
    BY <1>2, <1>6 DEF handleCreate
  <2>2. /\ r.geom = page.meta.geom /\ r.tasks = page.meta.grid /\ r.number = page.meta.number
        /\ r.lapses = page.lapses
    OBVIOUS
  <2>3. r.arbitrary <=> page.meta.arbitrary
    OBVIOUS
  <2>4. page'.button = "pending" /\ page.meta.geom # NoGeom
    BY <1>3, <1>6 DEF createProjectFn
  <2> HIDE DEF r
  <2>5. TasksOfTheArea'
    BY <2>1, <2>2, <2>4, NowGood DEF TasksOfTheArea, OfArea
  <2>6. CountIsOfTheTasks'
    <3> SUFFICES ASSUME page.lapses = {} PROVE r.number = IF r.arbitrary THEN r.geom.parts ELSE r.tasks.n
      BY <2>1, <2>2 DEF CountIsOfTheTasks
    <3> QED
      BY <1>1, <2>2, <2>3, <2>4, NowGood DEF Counts, Right
  <2>7. AreaWithinLimit'
    <3> SUFFICES ASSUME page.meta.geom.over PROVE Excused(page.lapses)
      BY <2>1, <2>2 DEF AreaWithinLimit, Excused
    <3> QED
      BY <1>1, NowGood DEF Measured
  <2> QED
    BY <1>4, <2>1, <2>4, <2>5, <2>6, <2>7 DEF CreationInv, CreatedAsShown
<1> QED
  BY <1>5, <1>6

LEMMA FailedKeeps == ASSUME CreationInv, CreationFailed PROVE CreationInv'
<1>1. /\ DOMAIN page' = PageFields /\ page'.meta = page.meta /\ page'.step = page.step
      /\ page'.updater = page.updater /\ page'.lapses = page.lapses /\ page'.button = page.button
      /\ page'.listeners = page.listeners /\ UNCHANGED <<calls, created>>
  BY NowGood DEF CreationFailed, PageFields
<1> QED
  BY <1>1, NowGood, SamePage

LEMMA CreationStep == ASSUME CreationInv, [CreationNext]_creationVars PROVE CreationInv'
<1>1. CASE SetAOI
  BY <1>1, UploadKeeps, DrawKeeps, DeleteKeeps, ToggleKeeps DEF SetAOI
<1>2. CASE SetTaskSizes \/ TrimProject \/ DrawUpdate \/ DrawDelete
  BY <1>2, SizesKeep, TrimKeeps, DrawUpdateKeeps, DrawDeleteKeeps
<1>3. CASE page.step > 1 /\ clearParamsStep
  BY <1>3, BackKeeps
<1>4. CASE NavButtons
  BY <1>4, ForwardKeeps, CreateKeeps DEF NavButtons
<1>5. CASE Review \/ fetchCloneProjectInfo
  BY <1>5, ReviewKeeps
<1>6. CASE \E geom \in Drawings : DrawCreate(geom)
  BY <1>6, DrawCreateKeeps
<1>7. CASE \E c \in calls : Fetched(c)
  BY <1>7, FetchedKeeps
<1>8. CASE CreationFailed
  BY <1>8, FailedKeeps
<1>9. CASE UNCHANGED creationVars
  BY <1>9, NowGood, SamePage DEF creationVars
<1> QED
  BY <1>1, <1>2, <1>3, <1>4, <1>5, <1>6, <1>7, <1>8, <1>9 DEF CreationNext, ProjectCreate

LEMMA CreationCorrect == CreationSpec => []CreationInv
<1>1. CreationInit => CreationInv
  BY CreationStarts
<1>2. CreationInv /\ [CreationNext]_creationVars => CreationInv'
  BY CreationStep
<1> QED
  BY <1>1, <1>2, PTL DEF CreationSpec

\* What is posted is what the steps of the page led to: the tasks are of the area, as many as the page says, and
\* the area was measured, but for the lapses that are named (components/projectCreate).
THEOREM CreationShown == CreationSpec => []CreatedAsShown
<1>1. CreationInv => CreatedAsShown
  BY DEF CreationInv
<1> QED
  BY <1>1, CreationCorrect, PTL

\* One visit posts at most one project (projectCreate/navButtons.js).
THEOREM CreatedAtMostOnce == CreationSpec => []CreatedOnce
<1>1. CreationInv => CreatedOnce
  <2>1. Cardinality({}) = 0 /\ \A p : Cardinality({p}) = 1
    BY FS_EmptySet, FS_Singleton
  <2>2. 0 <= 1 /\ 1 <= 1
    OBVIOUS
  <2> QED
    BY <2>1, <2>2, Zenon DEF CreationInv, CreatedOnce
<1> QED
  BY <1>1, CreationCorrect, PTL

----------------------------------------------------------------------------
(***************************************************************************)
(* Editing a project: somebody may always work on it, a success is told of *)
(* what is shown, and it is handed to those who may have it.               *)
(***************************************************************************)

EditFields == {"info", "success", "error", "pending", "option", "select", "drawing", "updater", "managers",
               "username", "modal", "touched", "early"}
ProjectFields == {"status", "mappingPermission", "validationPermission", "teams", "mappingEditors",
                  "validationEditors", "customEditor", "mappingTypes", "organisation", "author", "defaultLocale",
                  "complete", "priorityAreas"}
\* A copy of the project, on the page, with a listener or on its way.
GoodInfo(p) == /\ DOMAIN p = ProjectFields
               /\ \A x \in p.teams : x.role \in TeamRoles
               /\ p.mappingPermission \in Permissions /\ p.validationPermission \in Permissions
\* Whoever the permissions ask for, some team of the project has it.
Staffed(p) ==
  /\ p.mappingPermission \in TeamsOnly => RolesIn(p) # {}
  /\ p.validationPermission \in TeamsOnly => RolesIn(p) \cap {"VALIDATOR", "PROJECT_MANAGER"} # {}

EditPageGood ==
  /\ DOMAIN editPage = EditFields /\ GoodInfo(info)
  /\ DOMAIN editPage.select = {"team", "role", "edit"} /\ editPage.select.role \in TeamRoles \cup {"none"}
  /\ IsSequence(editPage.drawing) /\ \A i \in DOMAIN editPage.drawing : GoodInfo(editPage.drawing[i])
  /\ \A b \in editPage.updater : GoodInfo(b)
\* Who may take over is known for the organisation that is shown, and only while the actions are.
Handover ==
  /\ editPage.option # "actions" => editPage.managers = {} /\ editPage.username = "none"
  /\ editPage.managers \in {{}, Managers[info.organisation]}
  /\ editPage.username # "none" => editPage.username \in editPage.managers

Same == Update(project, info) = project
\* A saved copy is what the page shows, until it is edited; its answer is about the project as it is now.
SaveGood(r) ==
  /\ r.kind \in {"save", "answer"} => editPage.pending
  /\ r.kind = "save" =>
       /\ GoodInfo(r.body) /\ Staffed(r.body)
       /\ ~editPage.touched => r.body = info
       /\ editPage.success => ~editPage.touched
  /\ r.kind = "answer" => (r.body.ok /\ ~editPage.touched /\ ~others => Same)
HandoverGood(r) ==
  r.kind = "transfer" =>
    /\ r.by = "me" /\ r.body.to \in Managers[r.body.seen.organisation]
    /\ "me" \in Managers[r.body.seen.organisation] \/ r.body.seen.author = "me"
OneSave == \A r, s \in requests : r.kind \in {"save", "answer"} /\ s.kind \in {"save", "answer"} => r = s

EditingInv ==
  /\ EditPageGood /\ Handover
  /\ \A r \in requests : SaveGood(r) /\ HandoverGood(r)
  /\ OneSave
  /\ GoodInfo(project) /\ Staffed(project)
  /\ SuccessIsOfTheShown /\ TransferIsGranted

----------------------------------------------------------------------------
LEMMA NowEditing == ASSUME EditingInv
  PROVE /\ DOMAIN editPage = EditFields /\ GoodInfo(info) /\ DOMAIN info = ProjectFields
        /\ DOMAIN editPage.select = {"team", "role", "edit"} /\ editPage.select.role \in TeamRoles \cup {"none"}
        /\ IsSequence(editPage.drawing) /\ \A i \in DOMAIN editPage.drawing : GoodInfo(editPage.drawing[i])
        /\ \A b \in editPage.updater : GoodInfo(b)
        /\ GoodInfo(project) /\ Staffed(project) /\ OneSave
  BY DEF EditingInv, EditPageGood, GoodInfo

\* A new copy of the project: what NewInfo makes of the page.
LEMMA NewInfoFacts ==
  ASSUME NEW p, NEW i, DOMAIN p = EditFields
  PROVE  LET q == NewInfo(p, i) IN
         /\ DOMAIN q = EditFields /\ q.info = i /\ ~q.success /\ q.pending = p.pending /\ q.option = p.option
         /\ q.select = p.select /\ q.drawing = p.drawing /\ q.managers = p.managers /\ q.username = p.username
         /\ q.early = p.early /\ q.updater = p.updater /\ (~q.touched => ~p.touched /\ i = p.info)
  BY DEF NewInfo, EditFields

\* What the actions on the page keep of the requests that are under way.
LEMMA SaveStays ==
  ASSUME NEW r, SaveGood(r), UNCHANGED <<project, others>>, editPage.pending => editPage'.pending,
         ~editPage'.touched => ~editPage.touched /\ info' = info,
         editPage'.success => ~editPage'.touched \/ editPage.touched,
         editPage'.success => editPage.success
  PROVE  SaveGood(r)'
<1>1. r.kind \in {"save", "answer"} => editPage'.pending
  BY DEF SaveGood
<1>2. ASSUME r.kind = "save"
      PROVE  /\ GoodInfo(r.body)' /\ Staffed(r.body)'
             /\ ~editPage'.touched => r.body = info'
             /\ editPage'.success => ~editPage'.touched
  BY <1>2 DEF SaveGood, GoodInfo, Staffed
<1>3. ASSUME r.kind = "answer", r.body.ok, ~editPage'.touched, ~others' PROVE Same'
  BY <1>3 DEF SaveGood, Same
<1> QED
  BY <1>1, <1>2, <1>3 DEF SaveGood

\* An edit: a new copy of the project, on a form that is not that of the actions.
LEMMA InfoStep ==
  ASSUME EditingInv, NEW i, GoodInfo(i), editPage.option # "actions",
         DOMAIN editPage' = EditFields, editPage'.info = i, ~editPage'.success, editPage'.pending = editPage.pending,
         editPage'.option = editPage.option, editPage'.managers = editPage.managers,
         editPage'.username = editPage.username,
         DOMAIN editPage'.select = {"team", "role", "edit"}, editPage'.select.role \in TeamRoles \cup {"none"},
         editPage'.drawing \in {editPage.drawing, <<>>}, \A b \in editPage'.updater : GoodInfo(b),
         ~editPage'.touched => ~editPage.touched /\ i = info,
         UNCHANGED <<project, requests, others>>
  PROVE  EditingInv'
<1>1. IsSequence(editPage'.drawing) /\ \A j \in DOMAIN editPage'.drawing : GoodInfo(editPage'.drawing[j])
  <2>1. CASE editPage'.drawing = <<>>
    BY <2>1 DEF IsSequence
  <2> QED
    BY <2>1, NowEditing
<1>2. EditPageGood'
  BY <1>1 DEF EditPageGood, info, GoodInfo
<1>3. Handover'
  BY DEF EditingInv, Handover, info
<1>4. \A r \in requests : SaveGood(r)'
  BY SaveStays DEF EditingInv, info
<1>5. \A r \in requests : HandoverGood(r)'
  BY DEF EditingInv, HandoverGood
<1>6. SuccessIsOfTheShown'
  BY DEF SuccessIsOfTheShown
<1>7. OneSave' /\ GoodInfo(project)' /\ Staffed(project)' /\ TransferIsGranted'
  BY DEF EditingInv, OneSave, GoodInfo, Staffed, TransferIsGranted
<1> QED
  BY <1>2, <1>3, <1>4, <1>5, <1>6, <1>7 DEF EditingInv

\* Any other step of the page: the copy of the project stays, and no save is sent.
Harmless(r) == r.kind \notin {"save", "answer", "refused"} /\ HandoverGood(r)
LEMMA PageOnly ==
  ASSUME EditingInv, EditPageGood', Handover', info' = info, editPage'.success => editPage.success,
         editPage.pending => editPage'.pending, editPage'.touched <=> editPage.touched,
         editPage.early => editPage'.early,
         UNCHANGED <<project, others>>, \A r \in requests' : r \in requests \/ Harmless(r)
  PROVE  EditingInv'
<1>1. \A r \in requests' : SaveGood(r)'
  <2> SUFFICES ASSUME NEW r \in requests' PROVE SaveGood(r)'
    OBVIOUS
  <2>1. SaveGood(r)
    BY DEF EditingInv, SaveGood, Harmless
  <2> QED
    BY <2>1, SaveStays
<1>2. \A r \in requests' : HandoverGood(r)'
  BY DEF EditingInv, Harmless, HandoverGood
<1>3. SuccessIsOfTheShown'
  BY DEF EditingInv, SuccessIsOfTheShown
<1>4. OneSave'
  BY DEF EditingInv, OneSave, Harmless
<1>5. GoodInfo(project)' /\ Staffed(project)' /\ TransferIsGranted'
  BY DEF EditingInv, GoodInfo, Staffed, TransferIsGranted, Harmless
<1> QED
  BY <1>1, <1>2, <1>3, <1>4, <1>5 DEF EditingInv

LEMMA EditingStarts == ASSUME EditingInit PROVE EditingInv
<1>1. PICK org \in Organisations, author \in People, settled \in BOOLEAN :
        project = [(IF settled THEN Settled(org) ELSE Draft(org)) EXCEPT !.author = author]
  BY DEF EditingInit
<1> DEFINE d == IF settled THEN Settled(org) ELSE Draft(org)
<1>2. DOMAIN Draft(org) = ProjectFields /\ Draft(org).mappingPermission = "ANY"
      /\ Draft(org).validationPermission = "LEVEL" /\ Draft(org).teams = {}
  BY DEF Draft, ProjectFields
<1> DEFINE t == [team |-> CHOOSE u \in TeamIds : TRUE, role |-> "MAPPER"]
<1>3. DOMAIN Settled(org) = ProjectFields /\ Settled(org).mappingPermission = "ANY"
      /\ Settled(org).validationPermission = "LEVEL" /\ Settled(org).teams = {t}
  BY <1>2 DEF Settled, ProjectFields
<1>4. t.role \in TeamRoles
  BY DEF TeamRoles
<1> HIDE DEF t
<1>5. DOMAIN d = ProjectFields /\ d.mappingPermission = "ANY" /\ d.validationPermission = "LEVEL"
      /\ \A x \in d.teams : x.role \in TeamRoles
  BY <1>2, <1>3, <1>4
<1>6. project = [d EXCEPT !.author = author]
  BY <1>1
<1> HIDE DEF d
<1>7. DOMAIN project = ProjectFields /\ project.mappingPermission = "ANY" /\ project.validationPermission = "LEVEL"
      /\ \A x \in project.teams : x.role \in TeamRoles
  BY <1>5, <1>6 DEF ProjectFields
<1>8. GoodInfo(project) /\ Staffed(project)
  BY <1>7 DEF GoodInfo, Staffed, Permissions, TeamsOnly
<1>9. /\ DOMAIN editPage = EditFields /\ info = project /\ ~editPage.success /\ editPage.option = "description"
      /\ editPage.select = NoTeam /\ editPage.drawing = <<>> /\ editPage.updater = {}
      /\ editPage.managers = {} /\ editPage.username = "none" /\ requests = {}
  BY DEF EditingInit, EditFields, info
<1>10. EditPageGood
  BY <1>8, <1>9 DEF EditPageGood, NoTeam, IsSequence
<1>11. Handover
  BY <1>9 DEF Handover
<1> QED
  BY <1>8, <1>9, <1>10, <1>11 DEF EditingInv, OneSave, SuccessIsOfTheShown, TransferIsGranted

----------------------------------------------------------------------------
\* The forms.
LEMMA SetInfoKeeps ==
  ASSUME EditingInv, NEW i, GoodInfo(i), editPage.option # "actions", setProjectInfo(i),
         UNCHANGED <<project, requests, others>>
  PROVE  EditingInv'
<1>1. editPage' = NewInfo(editPage, i)
  BY DEF setProjectInfo
<1>2. /\ DOMAIN editPage' = EditFields /\ editPage'.info = i /\ ~editPage'.success
      /\ editPage'.pending = editPage.pending /\ editPage'.option = editPage.option
      /\ editPage'.select = editPage.select /\ editPage'.drawing = editPage.drawing /\ editPage'.updater = editPage.updater
      /\ editPage'.managers = editPage.managers /\ editPage'.username = editPage.username
      /\ (~editPage'.touched => ~editPage.touched /\ i = info)
  BY <1>1, NowEditing, NewInfoFacts DEF info
<1> QED
  BY <1>2, NowEditing, InfoStep

\* A field that no permission depends on.
LEMMA FieldIsGood ==
  ASSUME EditingInv, NEW f \in ProjectFields \ {"teams", "mappingPermission", "validationPermission"}, NEW v
  PROVE  GoodInfo([info EXCEPT ![f] = v])
<1> DEFINE i == [info EXCEPT ![f] = v]
<1>1. DOMAIN i = ProjectFields /\ i.teams = info.teams /\ i.mappingPermission = info.mappingPermission
      /\ i.validationPermission = info.validationPermission
  BY NowEditing DEF ProjectFields
<1> HIDE DEF i
<1>2. GoodInfo(i)
  BY <1>1, NowEditing DEF GoodInfo
<1> QED
  BY <1>2 DEF i

LEMMA FieldKeeps ==
  ASSUME EditingInv, NEW f \in ProjectFields \ {"teams", "mappingPermission", "validationPermission"}, NEW v,
         editPage.option # "actions", setProjectInfo([info EXCEPT ![f] = v]), UNCHANGED <<project, requests, others>>
  PROVE  EditingInv'
  BY FieldIsGood, SetInfoKeeps

LEMMA OtherEditKeeps ==
  ASSUME EditingInv, editPage.option # "actions", OtherEdit, UNCHANGED <<project, requests, others>>
  PROVE  EditingInv'
<1> DEFINE q == NewInfo(editPage, info)
<1>1. editPage' = [q EXCEPT !.touched = TRUE]
  BY DEF OtherEdit
<1>2. /\ DOMAIN q = EditFields /\ q.info = info /\ ~q.success
      /\ q.pending = editPage.pending /\ q.option = editPage.option
      /\ q.select = editPage.select /\ q.drawing = editPage.drawing
      /\ q.managers = editPage.managers /\ q.username = editPage.username /\ q.updater = editPage.updater
  BY NowEditing, NewInfoFacts
<1> HIDE DEF q
<1>3. /\ DOMAIN editPage' = EditFields /\ editPage'.info = info /\ ~editPage'.success
      /\ editPage'.pending = editPage.pending /\ editPage'.option = editPage.option
      /\ editPage'.select = editPage.select /\ editPage'.drawing = editPage.drawing /\ editPage'.updater = editPage.updater
      /\ editPage'.managers = editPage.managers /\ editPage'.username = editPage.username /\ editPage'.touched
  BY <1>1, <1>2 DEF EditFields
<1> QED
  BY <1>3, NowEditing, InfoStep

LEMMA DescriptionKeeps ==
  ASSUME EditingInv, DescriptionForm, UNCHANGED <<project, requests, others>> PROVE EditingInv'
<1>1. PICK s : setProjectInfo([info EXCEPT !.status = s])
  BY DEF DescriptionForm
<1>2. editPage.option # "actions" /\ "status" \in ProjectFields \ {"teams", "mappingPermission", "validationPermission"}
  BY DEF DescriptionForm, In, ProjectFields
<1> QED
  BY <1>1, <1>2, FieldKeeps

LEMMA LocaleKeeps ==
  ASSUME EditingInv, InputLocale, UNCHANGED <<project, requests, others>> PROVE EditingInv'
<1>1. PICK c : setProjectInfo([info EXCEPT !.complete = c])
  BY DEF InputLocale
<1>2. editPage.option # "actions" /\ "complete" \in ProjectFields \ {"teams", "mappingPermission", "validationPermission"}
  BY DEF InputLocale, In, ProjectFields
<1> QED
  BY <1>1, <1>2, FieldKeeps

LEMMA MetadataKeeps ==
  ASSUME EditingInv, MetadataForm, UNCHANGED <<project, requests, others>> PROVE EditingInv'
<1>1. editPage.option # "actions"
  BY DEF MetadataForm, In
<1>2. {"mappingTypes", "organisation"} \subseteq ProjectFields \ {"teams", "mappingPermission", "validationPermission"}
  BY DEF ProjectFields
<1>3. CASE \E t : setProjectInfo([info EXCEPT !.mappingTypes = t])
  BY <1>1, <1>2, <1>3, FieldKeeps
<1>4. CASE \E o : setProjectInfo([info EXCEPT !.organisation = o])
  BY <1>1, <1>2, <1>4, FieldKeeps
<1>5. CASE OtherEdit
  BY <1>1, <1>5, OtherEditKeeps
<1> QED
  BY <1>3, <1>4, <1>5 DEF MetadataForm, ProjectInterests, ExtraIdParams

LEMMA PermissionsKeep ==
  ASSUME EditingInv, PermissionsBlock, UNCHANGED <<project, requests, others>> PROVE EditingInv'
<1>1. editPage.option # "actions"
  BY DEF PermissionsBlock, In
<1>2. PICK permission \in Permissions :
        \/ setProjectInfo([info EXCEPT !.mappingPermission = permission])
        \/ setProjectInfo([info EXCEPT !.validationPermission = permission])
  BY DEF PermissionsBlock
<1> DEFINE i == [info EXCEPT !.mappingPermission = permission]
           j == [info EXCEPT !.validationPermission = permission]
<1>3. DOMAIN i = ProjectFields /\ i.teams = info.teams /\ i.mappingPermission = permission
      /\ i.validationPermission = info.validationPermission
  BY NowEditing DEF ProjectFields
<1>4. DOMAIN j = ProjectFields /\ j.teams = info.teams /\ j.mappingPermission = info.mappingPermission
      /\ j.validationPermission = permission
  BY NowEditing DEF ProjectFields
<1>5. setProjectInfo(i) \/ setProjectInfo(j)
  BY <1>2
<1> HIDE DEF i, j
<1>6. GoodInfo(i) /\ GoodInfo(j)
  BY <1>3, <1>4, NowEditing DEF GoodInfo
<1> QED
  BY <1>1, <1>5, <1>6, SetInfoKeeps

LEMMA SettingsKeep ==
  ASSUME EditingInv, SettingsForm \/ CustomEditorForm, UNCHANGED <<project, requests, others>> PROVE EditingInv'
<1>1. editPage.option # "actions"
  BY DEF SettingsForm, CustomEditorForm, In
<1>2. {"defaultLocale", "mappingEditors", "validationEditors", "customEditor"}
        \subseteq ProjectFields \ {"teams", "mappingPermission", "validationPermission"}
  BY DEF ProjectFields
<1>3. CASE \E v : setProjectInfo([info EXCEPT !.defaultLocale = v])
  BY <1>1, <1>2, <1>3, FieldKeeps
<1>4. CASE \E v : setProjectInfo([info EXCEPT !.mappingEditors = v])
  BY <1>1, <1>2, <1>4, FieldKeeps
<1>5. CASE \E v : setProjectInfo([info EXCEPT !.validationEditors = v])
  BY <1>1, <1>2, <1>5, FieldKeeps
<1>6. CASE \E v : setProjectInfo([info EXCEPT !.customEditor = v])
  BY <1>1, <1>2, <1>6, FieldKeeps
<1> QED
  BY <1>3, <1>4, <1>5, <1>6 DEF SettingsForm, CustomEditorForm

\* The teams: whatever is chosen, a team has a role of a team.
LEMMA TeamsAreGood ==
  ASSUME EditingInv, NEW teams, \A x \in teams : x.role \in TeamRoles
  PROVE  GoodInfo([info EXCEPT !.teams = teams])
<1> DEFINE i == [info EXCEPT !.teams = teams]
<1>1. DOMAIN i = ProjectFields /\ i.teams = teams /\ i.mappingPermission = info.mappingPermission
      /\ i.validationPermission = info.validationPermission
  BY NowEditing DEF ProjectFields
<1> HIDE DEF i
<1>2. GoodInfo(i)
  BY <1>1, NowEditing DEF GoodInfo
<1> QED
  BY <1>2 DEF i

LEMMA NewTeamsKeep ==
  ASSUME EditingInv, NEW teams, \A x \in teams : x.role \in TeamRoles, editPage.option # "actions",
         editPage' = [NewInfo(editPage, [info EXCEPT !.teams = teams]) EXCEPT !.select = NoTeam],
         UNCHANGED <<project, requests, others>>
  PROVE  EditingInv'
<1> DEFINE i == [info EXCEPT !.teams = teams]
           q == NewInfo(editPage, i)
<1>1. GoodInfo(i)
  BY TeamsAreGood
<1>2. editPage' = [q EXCEPT !.select = NoTeam]
  OBVIOUS
<1> HIDE DEF i
<1>3. /\ DOMAIN q = EditFields /\ q.info = i /\ ~q.success
      /\ q.pending = editPage.pending /\ q.option = editPage.option /\ q.drawing = editPage.drawing
      /\ q.managers = editPage.managers /\ q.username = editPage.username /\ q.updater = editPage.updater
      /\ (~q.touched => ~editPage.touched /\ i = info)
  BY NowEditing, NewInfoFacts DEF info
<1> HIDE DEF q
<1>4. /\ DOMAIN editPage' = EditFields /\ editPage'.info = i /\ ~editPage'.success
      /\ editPage'.pending = editPage.pending /\ editPage'.option = editPage.option
      /\ editPage'.select = NoTeam /\ editPage'.drawing = editPage.drawing /\ editPage'.updater = editPage.updater
      /\ editPage'.managers = editPage.managers /\ editPage'.username = editPage.username
      /\ (~editPage'.touched => ~editPage.touched /\ i = info)
  BY <1>2, <1>3 DEF EditFields
<1>5. DOMAIN editPage'.select = {"team", "role", "edit"} /\ editPage'.select.role \in TeamRoles \cup {"none"}
  BY <1>4 DEF NoTeam
<1> QED
  BY NowEditing, <1>1, <1>4, <1>5, InfoStep

\* A choice of a team changes nothing but the choice.
LEMMA TeamChoiceKeeps ==
  ASSUME EditingInv, NEW s, DOMAIN s = {"team", "role", "edit"}, s.role \in TeamRoles \cup {"none"},
         editPage' = [editPage EXCEPT !.select = s], UNCHANGED <<project, requests, others>>
  PROVE  EditingInv'
<1>1. /\ DOMAIN editPage' = EditFields /\ editPage'.info = editPage.info /\ editPage'.success = editPage.success
      /\ editPage'.pending = editPage.pending /\ editPage'.option = editPage.option
      /\ editPage'.select = s /\ editPage'.drawing = editPage.drawing /\ editPage'.updater = editPage.updater
      /\ editPage'.managers = editPage.managers /\ editPage'.username = editPage.username
      /\ editPage'.touched = editPage.touched /\ editPage'.early = editPage.early
  BY NowEditing DEF EditFields
<1>2. EditPageGood'
  BY <1>1, NowEditing DEF EditPageGood, GoodInfo, info
<1>3. Handover'
  BY <1>1 DEF EditingInv, Handover, info
<1>4. info' = info
  BY <1>1 DEF info
<1> QED
  BY <1>1, <1>2, <1>3, <1>4, PageOnly

LEMMA TeamsKeep ==
  ASSUME EditingInv, TeamSelect, UNCHANGED <<project, requests, others>> PROVE EditingInv'
<1>1. editPage.option # "actions"
  BY DEF TeamSelect, In
<1>2. \A x \in info.teams : x.role \in TeamRoles
  BY NowEditing DEF GoodInfo
<1>3. ASSUME NEW t, chooseTeam(t) PROVE EditingInv'
  <2> DEFINE s == [editPage.select EXCEPT !.team = t]
  <2>1. DOMAIN s = {"team", "role", "edit"} /\ s.role = editPage.select.role
    BY NowEditing
  <2>2. editPage' = [editPage EXCEPT !.select = s]
    BY <1>3 DEF chooseTeam
  <2> HIDE DEF s
  <2> QED
    BY <2>1, <2>2, NowEditing, TeamChoiceKeeps
<1>4. ASSUME NEW r \in TeamRoles, chooseRole(r) PROVE EditingInv'
  <2> DEFINE s == [editPage.select EXCEPT !.role = r]
  <2>1. DOMAIN s = {"team", "role", "edit"} /\ s.role = r
    BY NowEditing
  <2>2. editPage' = [editPage EXCEPT !.select = s]
    BY <1>4 DEF chooseRole
  <2> HIDE DEF s
  <2> QED
    BY <2>1, <2>2, TeamChoiceKeeps
<1>5. ASSUME NEW x \in info.teams, editTeam(x) PROVE EditingInv'
  <2> DEFINE s == [team |-> x.team, role |-> x.role, edit |-> TRUE]
  <2>1. DOMAIN s = {"team", "role", "edit"} /\ s.role = x.role
    OBVIOUS
  <2>2. editPage' = [editPage EXCEPT !.select = s]
    BY <1>5 DEF editTeam
  <2> HIDE DEF s
  <2> QED
    BY <1>2, <2>1, <2>2, TeamChoiceKeeps
<1>6. ASSUME NEW x \in info.teams, removeTeam(x) PROVE EditingInv'
  <2> DEFINE teams == {y \in info.teams : y.team # x.team}
  <2>1. \A y \in teams : y.role \in TeamRoles
    BY <1>2
  <2>2. setProjectInfo([info EXCEPT !.teams = teams])
    BY <1>6 DEF removeTeam
  <2> HIDE DEF teams
  <2> QED
    BY <1>1, <2>1, <2>2, TeamsAreGood, SetInfoKeeps
<1>7. ASSUME editPage.select.role # "none", addTeam PROVE EditingInv'
  <2> DEFINE teams == info.teams \cup {newTeam}
  <2>1. newTeam.role = editPage.select.role
    BY DEF newTeam
  <2>2. \A y \in teams : y.role \in TeamRoles
    BY <1>2, <1>7, <2>1, NowEditing
  <2>3. editPage' = [NewInfo(editPage, [info EXCEPT !.teams = teams]) EXCEPT !.select = NoTeam]
    BY <1>7 DEF addTeam
  <2> HIDE DEF teams
  <2> QED
    BY <1>1, <2>2, <2>3, NewTeamsKeep
<1>8. ASSUME editPage.select.role # "none", updateTeam PROVE EditingInv'
  <2> DEFINE teams == {IF x.team = newTeam.team THEN newTeam ELSE x : x \in info.teams}
  <2>1. newTeam.role = editPage.select.role
    BY DEF newTeam
  <2>2. \A y \in teams : y = newTeam \/ y \in info.teams
    OBVIOUS
  <2>3. editPage' = [NewInfo(editPage, [info EXCEPT !.teams = teams]) EXCEPT !.select = NoTeam]
    BY <1>8 DEF updateTeam
  <2> HIDE DEF teams
  <2>4. \A y \in teams : y.role \in TeamRoles
    BY <1>2, <1>8, <2>1, <2>2, NowEditing
  <2> QED
    BY <1>1, <2>3, <2>4, NewTeamsKeep
<1>9. ASSUME editPage' = [editPage EXCEPT !.select = NoTeam] PROVE EditingInv'
  <2>1. DOMAIN NoTeam = {"team", "role", "edit"} /\ NoTeam.role = "none"
    BY DEF NoTeam
  <2> QED
    BY <1>9, <2>1, TeamChoiceKeeps
<1> QED
  BY <1>3, <1>4, <1>5, <1>6, <1>7, <1>8, <1>9 DEF TeamSelect

\* The priority areas, with the copy of the project that a listener for a drawing closes over.
LEMMA DrawPolygonKeeps ==
  ASSUME EditingInv, drawPolygonHandler, UNCHANGED <<project, requests, others>> PROVE EditingInv'
<1> DEFINE ls == Append(editPage.drawing, info)
<1>1. /\ DOMAIN editPage' = EditFields /\ editPage'.info = editPage.info /\ editPage'.success = editPage.success
      /\ editPage'.pending = editPage.pending /\ editPage'.option = editPage.option
      /\ editPage'.select = editPage.select /\ editPage'.drawing = ls /\ editPage'.updater \subseteq {info}
      /\ editPage'.managers = editPage.managers /\ editPage'.username = editPage.username
      /\ editPage'.touched = editPage.touched /\ editPage'.early = editPage.early
  BY NowEditing DEF drawPolygonHandler, EditFields
<1>2. /\ IsSequence(ls) /\ DOMAIN ls = DOMAIN editPage.drawing \cup {Len(editPage.drawing) + 1}
      /\ ls[Len(editPage.drawing) + 1] = info /\ \A i \in DOMAIN editPage.drawing : ls[i] = editPage.drawing[i]
  BY NowEditing, AppendIsSequence
<1> HIDE DEF ls
<1>3. \A i \in DOMAIN ls : GoodInfo(ls[i])
  BY <1>2, NowEditing
<1>4. EditPageGood'
  BY <1>1, <1>2, <1>3, NowEditing DEF EditPageGood, GoodInfo, info
<1>5. Handover'
  BY <1>1 DEF EditingInv, Handover, info
<1>6. info' = info
  BY <1>1 DEF info
<1> QED
  BY <1>1, <1>4, <1>5, <1>6, PageOnly

LEMMA PolygonKeeps ==
  ASSUME EditingInv, NEW area, editPage.option # "actions", updatePriorityAreas(area),
         UNCHANGED <<project, requests, others>>
  PROVE  EditingInv'
<1> DEFINE base == editPage.drawing[Len(editPage.drawing)]
           areas == base.priorityAreas \o [i \in DOMAIN editPage.drawing |-> area]
           j == [base EXCEPT !.priorityAreas = areas]
           q == NewInfo(editPage, j)
<1>1. GoodInfo(base)
  BY NowEditing, LastOf DEF updatePriorityAreas
<1>2. editPage' = [q EXCEPT !.drawing = <<>>, !.updater = {j}]
  BY DEF updatePriorityAreas
<1> HIDE DEF areas, base
<1>3. DOMAIN j = ProjectFields /\ j.teams = base.teams /\ j.mappingPermission = base.mappingPermission
      /\ j.validationPermission = base.validationPermission
  BY <1>1 DEF GoodInfo, ProjectFields
<1> HIDE DEF j
<1>4. GoodInfo(j)
  BY <1>1, <1>3 DEF GoodInfo
<1>5. /\ DOMAIN q = EditFields /\ q.info = j /\ ~q.success /\ q.select = editPage.select
      /\ q.pending = editPage.pending /\ q.option = editPage.option
      /\ q.managers = editPage.managers /\ q.username = editPage.username
      /\ (~q.touched => ~editPage.touched /\ j = info)
  BY NowEditing, NewInfoFacts DEF info
<1> HIDE DEF q
<1>6. /\ DOMAIN editPage' = EditFields /\ editPage'.info = j /\ ~editPage'.success
      /\ editPage'.pending = editPage.pending /\ editPage'.option = editPage.option
      /\ editPage'.select = editPage.select /\ editPage'.drawing = <<>> /\ editPage'.updater = {j}
      /\ editPage'.managers = editPage.managers /\ editPage'.username = editPage.username
      /\ (~editPage'.touched => ~editPage.touched /\ j = info)
  BY <1>2, <1>5 DEF EditFields
<1> QED
  BY <1>4, <1>6, NowEditing, InfoStep

\* A drawing dragged, or all taken away: a new copy, with a list of areas of its own.
LEMMA ListenersKeep ==
  ASSUME EditingInv, NEW base, GoodInfo(base), NEW areas, editPage.option # "actions",
         NEW us \in SUBSET {[base EXCEPT !.priorityAreas = areas]},
         editPage' = [NewInfo(editPage, [base EXCEPT !.priorityAreas = areas]) EXCEPT !.updater = us],
         UNCHANGED <<project, requests, others>>
  PROVE  EditingInv'
<1> DEFINE j == [base EXCEPT !.priorityAreas = areas]
           q == NewInfo(editPage, j)
<1>1. editPage' = [q EXCEPT !.updater = us] /\ us \subseteq {j}
  OBVIOUS
<1>2. DOMAIN j = ProjectFields /\ j.teams = base.teams /\ j.mappingPermission = base.mappingPermission
      /\ j.validationPermission = base.validationPermission
  BY DEF GoodInfo, ProjectFields
<1> HIDE DEF j
<1>3. GoodInfo(j)
  BY <1>2 DEF GoodInfo
<1>4. /\ DOMAIN q = EditFields /\ q.info = j /\ ~q.success /\ q.select = editPage.select /\ q.drawing = editPage.drawing
      /\ q.pending = editPage.pending /\ q.option = editPage.option
      /\ q.managers = editPage.managers /\ q.username = editPage.username
      /\ (~q.touched => ~editPage.touched /\ j = info)
  BY NowEditing, NewInfoFacts DEF info
<1> HIDE DEF q
<1>5. /\ DOMAIN editPage' = EditFields /\ editPage'.info = j /\ ~editPage'.success
      /\ editPage'.pending = editPage.pending /\ editPage'.option = editPage.option
      /\ editPage'.select = editPage.select /\ editPage'.drawing = editPage.drawing /\ editPage'.updater = us
      /\ editPage'.managers = editPage.managers /\ editPage'.username = editPage.username
      /\ (~editPage'.touched => ~editPage.touched /\ j = info)
  BY <1>1, <1>4 DEF EditFields
<1> QED
  BY <1>1, <1>3, <1>5, NowEditing, InfoStep

LEMMA AreasKeep ==
  ASSUME EditingInv, PriorityAreasForm, UNCHANGED <<project, requests, others>> PROVE EditingInv'
<1>1. editPage.option # "actions" /\ "priorityAreas" \in ProjectFields \ {"teams", "mappingPermission", "validationPermission"}
  BY DEF PriorityAreasForm, In, ProjectFields
<1>2. CASE \E v : setProjectInfo([info EXCEPT !.priorityAreas = v])
  BY <1>1, <1>2, FieldKeeps
<1>3. ASSUME NEW area, dragPriorityArea(area) PROVE EditingInv'
  <2>1. PICK base \in editPage.updater :
          LET dragged == [base EXCEPT !.priorityAreas = Append(@, area)] IN
          editPage' = [NewInfo(editPage, dragged) EXCEPT !.updater = {dragged}]
    BY <1>3 DEF dragPriorityArea
  <2> QED
    BY <1>1, <2>1, NowEditing, ListenersKeep
<1>4. CASE clearAll
  BY <1>1, <1>4, NowEditing, ListenersKeep DEF clearAll
<1> QED
  BY <1>1, <1>2, <1>3, <1>4, DrawPolygonKeeps, PolygonKeeps DEF PriorityAreasForm

LEMMA OptionKeeps ==
  ASSUME EditingInv, NEW o, setOption(o), UNCHANGED <<project, requests, others>> PROVE EditingInv'
<1>1. /\ DOMAIN editPage' = EditFields /\ editPage'.info = editPage.info /\ ~editPage'.success
      /\ editPage'.pending = editPage.pending /\ editPage'.option = o
      /\ editPage'.select = NoTeam /\ editPage'.drawing = <<>> /\ editPage'.updater = {}
      /\ editPage'.managers = {} /\ editPage'.username = "none"
      /\ editPage'.touched = editPage.touched /\ editPage'.early = editPage.early
  BY NowEditing DEF setOption, EditFields
<1>2. DOMAIN NoTeam = {"team", "role", "edit"} /\ NoTeam.role = "none" /\ info' = info
  BY <1>1 DEF NoTeam, info
<1>3. IsSequence(<<>>)
  BY DEF IsSequence
<1>4. EditPageGood'
  BY <1>1, <1>2, <1>3, NowEditing DEF EditPageGood, GoodInfo
<1>5. Handover'
  BY <1>1 DEF Handover
<1> QED
  BY <1>1, <1>2, <1>4, <1>5, PageOnly

LEMMA FormsKeep ==
  ASSUME EditingInv, EditForm, UNCHANGED <<project, requests, others>> PROVE EditingInv'
<1>1. InstructionsForm => editPage.option # "actions"
  BY DEF InstructionsForm, In
<1>2. ImageryForm => editPage.option # "actions"
  BY DEF ImageryForm, In
<1> QED
  BY <1>1, <1>2, DescriptionKeeps, LocaleKeeps, OtherEditKeeps, MetadataKeeps, PermissionsKeep, SettingsKeep,
     TeamsKeep, AreasKeep, OptionKeeps
  DEF EditForm, InstructionsForm, ImageryForm

----------------------------------------------------------------------------
\* The fields of the page that the server's answers and the actions leave alone.
SameEditPage == /\ DOMAIN editPage' = EditFields /\ editPage'.info = editPage.info
            /\ editPage'.option = editPage.option /\ editPage'.select = editPage.select
            /\ editPage'.drawing = editPage.drawing /\ editPage'.updater = editPage.updater
LEMMA SamePageGood == ASSUME EditingInv, SameEditPage PROVE EditPageGood' /\ info' = info
  BY NowEditing DEF SameEditPage, EditPageGood, GoodInfo, info

\* What is neither a save nor its answer has nothing to keep.
LEMMA QuietIsGood == ASSUME NEW r, r.kind \notin {"save", "answer"} PROVE SaveGood(r)'
  BY DEF SaveGood

LEMMA SaveKeeps == ASSUME EditingInv, saveChanges, UNCHANGED <<project, others>> PROVE EditingInv'
<1>1. CASE editPage' = [editPage EXCEPT !.error = "missing"] /\ UNCHANGED requests
  <2>1. /\ SameEditPage /\ editPage'.success = editPage.success /\ editPage'.pending = editPage.pending
        /\ editPage'.managers = editPage.managers /\ editPage'.username = editPage.username
        /\ editPage'.touched = editPage.touched /\ editPage'.early = editPage.early
    BY <1>1, NowEditing DEF SameEditPage, EditFields
  <2>2. Handover'
    BY <2>1 DEF EditingInv, Handover, SameEditPage, info
  <2> QED
    BY <1>1, <2>1, <2>2, SamePageGood, PageOnly
<1>2. CASE /\ ~missingFields(info) /\ editPage' = [editPage EXCEPT !.pending = TRUE, !.touched = FALSE]
           /\ SendEdit([kind |-> "save", by |-> "me", body |-> info])
  <2>0. PICK n : n = [kind |-> "save", by |-> "me", body |-> info]
    OBVIOUS
  <2>1. /\ SameEditPage /\ editPage'.success = editPage.success /\ editPage'.pending
        /\ editPage'.managers = editPage.managers /\ editPage'.username = editPage.username
        /\ ~editPage'.touched /\ editPage'.early = editPage.early
    BY <1>2, NowEditing DEF SameEditPage, EditFields
  <2>2. EditPageGood' /\ info' = info
    BY <2>1, SamePageGood
  <2>3. Handover'
    BY <2>1 DEF EditingInv, Handover, SameEditPage, info
  <2>4. requests' = requests \cup {n} /\ n.kind = "save" /\ n.body = info
    BY <1>2, <2>0 DEF SendEdit
  <2>5. Staffed(info)
    BY <1>2 DEF missingFields, doesMappingTeamNotExist, doesValidationTeamNotExist, Staffed
  <2>6. SaveGood(n)'
    <3>1. GoodInfo(n.body)' /\ Staffed(n.body)'
      BY <2>4, <2>5, NowEditing DEF GoodInfo, Staffed
    <3>2. n.body = info' /\ n.kind # "answer"
      BY <2>2, <2>4
    <3> QED
      BY <2>1, <3>1, <3>2 DEF SaveGood
  <2>7. \A r \in requests : r.kind \notin {"save", "answer"}
    BY DEF EditingInv, SaveGood, saveChanges
  <2>8. \A r \in requests' : SaveGood(r)' /\ HandoverGood(r)'
    <3>1. \A r \in requests : SaveGood(r)'
      BY <2>7, QuietIsGood
    <3>2. \A r \in requests' : HandoverGood(r)'
      BY <2>4 DEF EditingInv, HandoverGood
    <3> QED
      BY <2>4, <2>6, <3>1, <3>2
  <2>9. OneSave'
    BY <2>4, <2>7 DEF OneSave
  <2>10. SuccessIsOfTheShown'
    BY <2>1, <2>2 DEF EditingInv, SuccessIsOfTheShown
  <2>11. GoodInfo(project)' /\ Staffed(project)' /\ TransferIsGranted'
    BY <2>4 DEF EditingInv, GoodInfo, Staffed, TransferIsGranted
  <2> QED
    BY <2>2, <2>3, <2>8, <2>9, <2>10, <2>11 DEF EditingInv
<1> QED
  BY <1>1, <1>2 DEF saveChanges

\* To save is to write what was sent, but for the author, and to save it again would change nothing.
LEMMA UpdateFacts ==
  ASSUME NEW d, NEW p, GoodInfo(d)
  PROVE  LET u == Update(p, d) IN
         /\ GoodInfo(u) /\ (Staffed(d) => Staffed(u)) /\ u.author = p.author /\ Update(u, d) = u
<1> DEFINE u == Update(p, d)
<1>1. /\ DOMAIN u = ProjectFields /\ u.teams = d.teams /\ u.mappingPermission = d.mappingPermission
      /\ u.validationPermission = d.validationPermission /\ u.author = p.author
  BY DEF Update, GoodInfo, ProjectFields
<1>2. Update(u, d) = u
  BY <1>1 DEF Update
<1> HIDE DEF u
<1>3. GoodInfo(u) /\ (Staffed(d) => Staffed(u))
  BY <1>1 DEF GoodInfo, Staffed, RolesIn
<1> QED
  BY <1>1, <1>2, <1>3 DEF u

LEMMA UpdateProjectKeeps ==
  ASSUME EditingInv, NEW r \in requests, update_project(r), UNCHANGED <<editPage, others>>
  PROVE  EditingInv'
<1> DEFINE ok == /\ (r.body.status = "PUBLISHED" => r.body.defaultLocale \in r.body.complete)
                 /\ (Permitted(r.by, project) \/ InManagerTeam(r.by, project))
<1>0. PICK a : a = [kind |-> "answer", by |-> r.by, body |-> [ok |-> ok]]
  OBVIOUS
<1>1. /\ r.kind = "save" /\ project' = IF ok THEN Update(project, r.body) ELSE project
      /\ requests' = (requests \ {r}) \cup {a}
  BY <1>0 DEF update_project
<1>2. a.kind = "answer" /\ (a.body.ok <=> ok)
  BY <1>0
<1> HIDE DEF ok
<1>3. /\ GoodInfo(r.body) /\ Staffed(r.body) /\ (~editPage.touched => r.body = info)
      /\ (editPage.success => ~editPage.touched) /\ editPage.pending
  BY <1>1 DEF EditingInv, SaveGood
<1>4. info' = info
  BY DEF info
<1>5. GoodInfo(project') /\ Staffed(project')
  BY <1>1, <1>3, NowEditing, UpdateFacts
<1>6. ok /\ ~editPage.touched => Same'
  BY <1>1, <1>3, <1>4, UpdateFacts DEF Same
<1>7. ~ok => project' = project
  BY <1>1
<1>8. SaveGood(a)'
  <2>1. a.kind \in {"save", "answer"} /\ a.kind # "save" /\ editPage'.pending
    BY <1>2, <1>3
  <2>2. a.body.ok /\ ~editPage'.touched /\ ~others' => Same'
    BY <1>2, <1>6
  <2> QED
    BY <2>1, <2>2 DEF SaveGood
<1>9. \A s \in requests : s = r \/ s.kind \notin {"save", "answer"}
  BY <1>1 DEF EditingInv, OneSave
<1>10. \A s \in requests' : SaveGood(s)' /\ HandoverGood(s)'
  <2>1. \A s \in requests \ {r} : SaveGood(s)'
    BY <1>9, QuietIsGood
  <2>2. \A s \in requests' : HandoverGood(s)'
    BY <1>1, <1>2 DEF EditingInv, HandoverGood
  <2> QED
    BY <1>1, <1>8, <2>1, <2>2
<1>11. OneSave'
  BY <1>1, <1>9 DEF OneSave
<1>12. SuccessIsOfTheShown'
  <2> SUFFICES ASSUME editPage.success, ~editPage.early, ~others PROVE Update(project', info) = project'
    BY <1>4 DEF SuccessIsOfTheShown
  <2>1. CASE ok
    BY <1>3, <1>4, <1>6, <2>1 DEF Same
  <2>2. CASE ~ok
    BY <1>7, <2>2 DEF EditingInv, SuccessIsOfTheShown
  <2> QED
    BY <2>1, <2>2
<1>13. TransferIsGranted'
  BY <1>1, <1>2 DEF EditingInv, TransferIsGranted
<1>14. EditPageGood' /\ Handover'
  BY <1>4 DEF EditingInv, EditPageGood, GoodInfo, Handover
<1> QED
  BY <1>5, <1>10, <1>11, <1>12, <1>13, <1>14 DEF EditingInv, GoodInfo, Staffed

LEMMA SaveAnswerKeeps ==
  ASSUME EditingInv, NEW r \in requests, SaveAnswer(r), UNCHANGED <<project, others>>
  PROVE  EditingInv'
<1>1. r.kind = "answer" /\ requests' = requests \ {r}
  BY DEF SaveAnswer
<1>2. /\ SameEditPage
      /\ IF r.body.ok THEN editPage'.success /\ editPage'.early = editPage.touched
         ELSE editPage'.success = editPage.success /\ editPage'.early = editPage.early
      /\ editPage'.managers = editPage.managers /\ editPage'.username = editPage.username
  BY NowEditing DEF SaveAnswer, Shown, SameEditPage, EditFields
<1>3. EditPageGood' /\ info' = info
  BY <1>2, SamePageGood
<1>4. Handover'
  BY <1>2 DEF EditingInv, Handover, SameEditPage, info
<1>5. \A s \in requests' : s \in requests /\ s.kind \notin {"save", "answer"}
  BY <1>1 DEF EditingInv, OneSave
<1>6. \A s \in requests' : SaveGood(s)' /\ HandoverGood(s)'
  BY <1>5 DEF EditingInv, SaveGood, HandoverGood
<1>7. OneSave'
  BY <1>5 DEF OneSave
<1>8. SuccessIsOfTheShown'
  <2>1. r.body.ok /\ ~editPage.touched /\ ~others => Same
    BY <1>1 DEF EditingInv, SaveGood
  <2>2. CASE r.body.ok
    BY <1>2, <1>3, <2>1, <2>2 DEF SuccessIsOfTheShown, Same
  <2>3. CASE ~r.body.ok
    BY <1>2, <1>3, <2>3 DEF EditingInv, SuccessIsOfTheShown
  <2> QED
    BY <2>2, <2>3
<1>9. GoodInfo(project)' /\ Staffed(project)' /\ TransferIsGranted'
  BY <1>1 DEF EditingInv, GoodInfo, Staffed, TransferIsGranted
<1> QED
  BY <1>3, <1>4, <1>6, <1>7, <1>8, <1>9 DEF EditingInv

\* Somebody else saves: from then on nothing is promised about what the page shows.
LEMMA OthersKeep ==
  ASSUME EditingInv, OtherManagerSaves, others' = TRUE, UNCHANGED <<editPage, requests>>
  PROVE  EditingInv'
<1>1. PICK p : /\ \/ p = [project EXCEPT !.status = "ARCHIVED"]
                  \/ \E org \in Organisations : p = [project EXCEPT !.organisation = org]
               /\ project' = p
  BY DEF OtherManagerSaves
<1>2. /\ DOMAIN project' = ProjectFields /\ project'.teams = project.teams
      /\ project'.mappingPermission = project.mappingPermission
      /\ project'.validationPermission = project.validationPermission
  BY <1>1, NowEditing DEF GoodInfo, ProjectFields
<1>3. GoodInfo(project') /\ Staffed(project')
  BY <1>2, NowEditing DEF GoodInfo, Staffed, RolesIn
<1>4. info' = info
  BY DEF info
<1>5. EditPageGood' /\ Handover'
  BY <1>4 DEF EditingInv, EditPageGood, GoodInfo, Handover
<1>6. \A s \in requests' : SaveGood(s)' /\ HandoverGood(s)'
  BY <1>4 DEF EditingInv, SaveGood, HandoverGood, GoodInfo, Staffed
<1>7. OneSave' /\ TransferIsGranted' /\ SuccessIsOfTheShown'
  BY DEF EditingInv, OneSave, TransferIsGranted, SuccessIsOfTheShown
<1> QED
  BY <1>3, <1>5, <1>6, <1>7 DEF EditingInv, GoodInfo, Staffed

----------------------------------------------------------------------------
\* The transfer.
LEMMA ManagersKeep ==
  ASSUME EditingInv, FetchManagers \/ (\E u \in People : chooseManager(u)), UNCHANGED <<project, requests, others>>
  PROVE  EditingInv'
<1>1. /\ SameEditPage /\ editPage'.success = editPage.success /\ editPage'.pending = editPage.pending
      /\ editPage'.touched = editPage.touched /\ editPage'.early = editPage.early
  BY NowEditing DEF FetchManagers, chooseManager, SameEditPage, EditFields
<1>2. CASE FetchManagers
  <2>1. editPage'.managers = Managers[info.organisation] /\ editPage'.username = editPage.username
        /\ editPage.option = "actions" /\ editPage.managers = {}
    BY <1>2, NowEditing DEF FetchManagers, EditFields, In
  <2>2. Handover'
    BY <1>1, <2>1 DEF EditingInv, Handover, SameEditPage, info
  <2> QED
    BY <1>1, <2>2, SamePageGood, PageOnly
<1>3. CASE \E u \in People : chooseManager(u)
  <2>1. PICK u : u \in editPage.managers /\ editPage' = [editPage EXCEPT !.username = u]
    BY <1>3 DEF chooseManager
  <2>2. editPage'.managers = editPage.managers /\ editPage'.username = u
    BY <2>1, NowEditing DEF EditFields
  <2>3. Handover'
    BY <1>1, <2>1, <2>2 DEF EditingInv, Handover, SameEditPage, info
  <2> QED
    BY <1>1, <2>3, SamePageGood, PageOnly
<1> QED
  BY <1>2, <1>3

LEMMA TransferKeeps ==
  ASSUME EditingInv, transferOwnership, UNCHANGED <<editPage, project, others>>
  PROVE  EditingInv'
<1> DEFINE n == [kind |-> "transfer", by |-> "me", body |-> [to |-> editPage.username, seen |-> info]]
<1>1. requests' = requests \cup {n}
  BY DEF transferOwnership, SendEdit
<1>2. n.kind = "transfer" /\ n.by = "me" /\ n.body.to = editPage.username /\ n.body.seen = info
  OBVIOUS
<1> HIDE DEF n
<1>3. /\ editPage.username \in Managers[info.organisation]
      /\ "me" \in Managers[info.organisation] \/ info.author = "me"
  BY DEF transferOwnership, hasAccess, EditingInv, Handover
<1>4. Harmless(n)
  BY <1>2, <1>3 DEF Harmless, HandoverGood
<1>5. EditPageGood' /\ Handover' /\ info' = info
  BY DEF EditingInv, EditPageGood, GoodInfo, Handover, info
<1> QED
  BY <1>1, <1>4, <1>5, PageOnly

\* A new author makes no difference to what the page shows.
LEMMA AuthorIsKept ==
  ASSUME EditingInv, NEW to, Same, project' = [project EXCEPT !.author = to], info' = info PROVE Same'
<1>1. DOMAIN info = ProjectFields /\ DOMAIN project = ProjectFields
  BY NowEditing DEF GoodInfo
<1> DEFINE v == IF info.customEditor = "null" THEN "undefined" ELSE info.customEditor
           old == [info EXCEPT !.author = project.author, !.customEditor = v]
           new == [info EXCEPT !.author = to, !.customEditor = v]
<1>2. project = old
  BY DEF Same, Update
<1>3. project'.author = to
  BY <1>1 DEF ProjectFields
<1>4. Update(project', info) = new
  BY <1>3 DEF Update
<1> HIDE DEF v
<1>5. \A f \in ProjectFields : [old EXCEPT !.author = to][f] = new[f]
  BY <1>1
<1>6. DOMAIN new = ProjectFields /\ DOMAIN [old EXCEPT !.author = to] = ProjectFields
  BY <1>1
<1>7. [old EXCEPT !.author = to] = new
  BY <1>5, <1>6
<1> QED
  BY <1>2, <1>4, <1>7 DEF Same

LEMMA HandOverKeeps ==
  ASSUME EditingInv, NEW r \in requests, transfer_project_to(r), UNCHANGED <<editPage, others>>
  PROVE  EditingInv'
<1> DEFINE to == r.body.to
           allowed == Permitted(r.by, project) /\ to \in Managers[project.organisation]
           n == [kind |-> "refused", by |-> r.by, body |-> [seen |-> r.body.seen, was |-> project]]
<1>1. /\ r.kind = "transfer" /\ project' = IF allowed THEN [project EXCEPT !.author = to] ELSE project
      /\ requests' = (requests \ {r}) \cup (IF allowed \/ to = project.author THEN {} ELSE {n})
  BY DEF transfer_project_to
<1>2. n.kind = "refused" /\ n.body.seen = r.body.seen /\ n.body.was = project
  OBVIOUS
<1>3. allowed <=> Permitted(r.by, project) /\ to \in Managers[project.organisation]
  OBVIOUS
<1> HIDE DEF n, allowed
<1>4. \A s \in requests' : s \in requests \/ (s = n /\ ~allowed)
  BY <1>1
<1>5. info' = info
  BY DEF info
<1>6. Same => Same'
  BY <1>1, <1>5, AuthorIsKept DEF Same
<1>7. GoodInfo(project') /\ Staffed(project')
  <2>1. /\ DOMAIN project' = ProjectFields /\ project'.teams = project.teams
        /\ project'.mappingPermission = project.mappingPermission
        /\ project'.validationPermission = project.validationPermission
    BY <1>1, NowEditing DEF GoodInfo, ProjectFields
  <2> QED
    BY <2>1, NowEditing DEF GoodInfo, Staffed, RolesIn
<1>8. EditPageGood' /\ Handover'
  BY <1>5 DEF EditingInv, EditPageGood, GoodInfo, Handover
<1>9. \A s \in requests' : SaveGood(s)' /\ HandoverGood(s)'
  <2> SUFFICES ASSUME NEW s \in requests' PROVE SaveGood(s)' /\ HandoverGood(s)'
    OBVIOUS
  <2>1. CASE s \in requests
    <3>1. SaveGood(s) /\ HandoverGood(s)
      BY <2>1 DEF EditingInv
    <3>2. HandoverGood(s)'
      BY <3>1 DEF HandoverGood
    <3>3. SaveGood(s)'
      BY <1>5, <1>6, <3>1 DEF SaveGood, GoodInfo, Staffed
    <3> QED
      BY <3>2, <3>3
  <2>2. CASE s = n
    BY <1>2, <2>2 DEF SaveGood, HandoverGood
  <2> QED
    BY <1>4, <2>1, <2>2
<1>10. OneSave'
  BY <1>2, <1>4 DEF EditingInv, OneSave
<1>11. SuccessIsOfTheShown'
  BY <1>5, <1>6 DEF EditingInv, SuccessIsOfTheShown, Same
<1>12. TransferIsGranted'
  <2>1. r.by = "me" /\ to \in Managers[r.body.seen.organisation]
        /\ ("me" \in Managers[r.body.seen.organisation] \/ r.body.seen.author = "me")
    BY <1>1 DEF EditingInv, HandoverGood
  <2>2. r.body.seen.organisation = project.organisation /\ r.body.seen.author = project.author => allowed
    BY <1>3, <2>1 DEF Permitted
  <2> QED
    BY <1>2, <1>4, <2>2 DEF EditingInv, TransferIsGranted
<1> QED
  BY <1>7, <1>8, <1>9, <1>10, <1>11, <1>12 DEF EditingInv, GoodInfo, Staffed

----------------------------------------------------------------------------
\* The other actions, each in its modal.
LEMMA ModalKeeps ==
  ASSUME EditingInv, NEW modal, editPage' = [editPage EXCEPT !.modal = modal], UNCHANGED <<project, others>>,
         \A r \in requests' : r \in requests \/ Harmless(r)
  PROVE  EditingInv'
<1>1. /\ SameEditPage /\ editPage'.success = editPage.success /\ editPage'.pending = editPage.pending
      /\ editPage'.managers = editPage.managers /\ editPage'.username = editPage.username
      /\ editPage'.touched = editPage.touched /\ editPage'.early = editPage.early
  BY NowEditing DEF SameEditPage, EditFields
<1>2. Handover'
  BY <1>1 DEF EditingInv, Handover, SameEditPage, info
<1> QED
  BY <1>1, <1>2, SamePageGood, PageOnly

LEMMA ActionKeeps ==
  ASSUME EditingInv, NEW action, ActionModal(action), UNCHANGED <<project, others>> PROVE EditingInv'
<1>1. ASSUME NEW modal, editPage' = [editPage EXCEPT !.modal = modal], UNCHANGED requests PROVE EditingInv'
  BY <1>1, ModalKeeps
<1>2. ASSUME NEW modal, editPage' = [editPage EXCEPT !.modal = modal],
             SendEdit([kind |-> "action", by |-> "me", body |-> [action |-> action]])
      PROVE  EditingInv'
  <2> DEFINE n == [kind |-> "action", by |-> "me", body |-> [action |-> action]]
  <2>1. n.kind = "action" /\ requests' = requests \cup {n}
    BY <1>2 DEF SendEdit
  <2> HIDE DEF n
  <2> QED
    BY <1>2, <2>1, ModalKeeps DEF Harmless, HandoverGood
<1> QED
  BY <1>1, <1>2 DEF ActionModal

LEMMA ActionsKeep == ASSUME EditingInv, ActionsForm, UNCHANGED <<project, others>> PROVE EditingInv'
  BY ActionKeeps DEF ActionsForm, ResetTasksModal, ResetBadImageryModal, ValidateAllTasksModal,
     InvalidateAllTasksModal, MapAllTasksModal, MessageContributorsModal

LEMMA ActionAnswerKeeps ==
  ASSUME EditingInv, NEW r \in requests, ActionAnswer(r), UNCHANGED <<project, others>> PROVE EditingInv'
<1>1. \A s \in requests' : s \in requests
  BY DEF ActionAnswer
<1>2. CASE \E modal : editPage' = [editPage EXCEPT !.modal = modal]
  BY <1>1, <1>2, ModalKeeps
<1>3. CASE editPage' = editPage
  <2>1. EditPageGood' /\ Handover' /\ info' = info
    BY <1>3 DEF EditingInv, EditPageGood, GoodInfo, Handover, info
  <2> QED
    BY <1>1, <1>3, <2>1, PageOnly
<1> QED
  BY <1>2, <1>3 DEF ActionAnswer

LEMMA EditingStep == ASSUME EditingInv, [EditingNext]_editingVars PROVE EditingInv'
<1>1. CASE UNCHANGED editingVars
  <2>1. EditPageGood' /\ Handover' /\ info' = info
    BY <1>1 DEF editingVars, EditingInv, EditPageGood, GoodInfo, Handover, info
  <2> QED
    BY <1>1, <2>1, PageOnly DEF editingVars
<1>2. CASE ProjectEdit
  <2>1. UNCHANGED <<project, others>>
    BY <1>2 DEF ProjectEdit
  <2>2. CASE EditForm /\ UNCHANGED requests
    BY <2>1, <2>2, FormsKeep
  <2>3. CASE saveChanges \/ ActionsForm
    BY <2>1, <2>3, SaveKeeps, ActionsKeep
  <2>4. CASE TransferProject
    BY <2>1, <2>4, ManagersKeep, TransferKeeps DEF TransferProject
  <2>5. CASE \E r \in requests : SaveAnswer(r) \/ ActionAnswer(r)
    BY <2>1, <2>5, SaveAnswerKeeps, ActionAnswerKeeps
  <2> QED
    BY <1>2, <2>2, <2>3, <2>4, <2>5 DEF ProjectEdit
<1>3. CASE Server
  <2>1. UNCHANGED editPage
    BY <1>3 DEF Server
  <2>2. CASE \E r \in requests : (update_project(r) \/ transfer_project_to(r)) /\ UNCHANGED others
    BY <2>1, <2>2, UpdateProjectKeeps, HandOverKeeps
  <2>3. CASE OtherManagerSaves /\ others' = TRUE /\ UNCHANGED requests
    BY <2>1, <2>3, OthersKeep
  <2> QED
    BY <1>3, <2>2, <2>3 DEF Server
<1> QED
  BY <1>1, <1>2, <1>3 DEF EditingNext

----------------------------------------------------------------------------
\* With the teams that the permissions ask for, an experienced member of one of them is let through.
LEMMA LevelIsEnough ==
  ASSUME NEW permission \in Permissions, NEW roles, NEW r, NEW proj,
         permission \in TeamsOnly => r \in roles, ~proj.draft
  PROVE  is_user_permitted(Member({r}), proj, permission, roles, FALSE)
<1>1. Member({r}).role = "MAPPER" /\ Member({r}).level = "ADVANCED" /\ Member({r}).teams = {r}
  BY DEF Member
<1>2. ~evaluate_permission(Member({r}), permission, roles)
  BY <1>1 DEF evaluate_permission, Experienced, TeamsOnly
<1> QED
  BY <1>1, <1>2 DEF is_user_permitted

LEMMA AnybodyMay ==
  ASSUME NEW permission \in Permissions, permission \notin TeamsOnly, NEW roles, NEW proj, ~proj.draft
  PROVE  is_user_permitted(Member({}), proj, permission, roles, FALSE)
<1>1. Member({}).role = "MAPPER" /\ Member({}).level = "ADVANCED"
  BY DEF Member
<1>2. ~evaluate_permission(Member({}), permission, roles)
  BY <1>1 DEF evaluate_permission, Experienced, TeamsOnly, Permissions
<1> QED
  BY <1>1, <1>2 DEF is_user_permitted

LEMMA StaffedIsEnough == ASSUME EditingInv PROVE SomebodyMayWork
<1> SUFFICES ASSUME project.status = "PUBLISHED"
             PROVE  LET workers == {Member({})} \cup {Member({r}) : r \in RolesIn(project)} IN
                    /\ \E u \in workers : is_user_permitted_to_map(u, Access, FALSE)
                    /\ \E u \in workers : is_user_permitted_to_validate(u, Access, FALSE)
  BY DEF SomebodyMayWork
<1> DEFINE workers == {Member({})} \cup {Member({r}) : r \in RolesIn(project)}
<1>1. /\ project.mappingPermission \in Permissions /\ project.validationPermission \in Permissions
      /\ RolesIn(project) \subseteq TeamRoles /\ Staffed(project)
  BY NowEditing DEF GoodInfo, RolesIn
<1>2. /\ ~Access.draft /\ Access.mappingPermission = project.mappingPermission
      /\ Access.validationPermission = project.validationPermission
  BY DEF Access
<1>3. Member({}) \in workers /\ \A r \in RolesIn(project) : Member({r}) \in workers
  OBVIOUS
<1> HIDE DEF workers
<1>4. \E u \in workers : is_user_permitted_to_map(u, Access, FALSE)
  <2>1. CASE project.mappingPermission \in TeamsOnly
    <3>1. PICK r \in RolesIn(project) : r \in TeamRoles
      BY <1>1, <2>1 DEF Staffed
    <3>2. is_user_permitted_to_map(Member({r}), Access, FALSE)
      BY <1>1, <1>2, <3>1, LevelIsEnough DEF is_user_permitted_to_map
    <3> QED
      BY <1>3, <3>2
  <2>2. CASE project.mappingPermission \notin TeamsOnly
    BY <1>1, <1>2, <1>3, <2>2, AnybodyMay DEF is_user_permitted_to_map
  <2> QED
    BY <2>1, <2>2
<1>5. \E u \in workers : is_user_permitted_to_validate(u, Access, FALSE)
  <2>1. CASE project.validationPermission \in TeamsOnly
    <3>1. PICK r \in RolesIn(project) : r \in {"VALIDATOR", "PROJECT_MANAGER"}
      BY <1>1, <2>1 DEF Staffed
    <3>2. is_user_permitted_to_validate(Member({r}), Access, FALSE)
      BY <1>1, <1>2, <3>1, LevelIsEnough DEF is_user_permitted_to_validate
    <3> QED
      BY <1>3, <3>2
  <2>2. CASE project.validationPermission \notin TeamsOnly
    BY <1>1, <1>2, <1>3, <2>2, AnybodyMay DEF is_user_permitted_to_validate
  <2> QED
    BY <2>1, <2>2
<1> QED
  BY <1>4, <1>5 DEF workers

LEMMA EditingCorrect == EditingSpec => []EditingInv
<1>1. EditingInit => EditingInv
  BY EditingStarts
<1>2. EditingInv /\ [EditingNext]_editingVars => EditingInv'
  BY EditingStep
<1> QED
  BY <1>1, <1>2, PTL DEF EditingSpec

\* What the forms let through leaves work on the project for somebody (projectEdit.js, project_service.py).
THEOREM WorkersRemain == EditingSpec => []SomebodyMayWork
<1>1. EditingInv => SomebodyMayWork
  BY StaffedIsEnough
<1> QED
  BY <1>1, EditingCorrect, PTL

\* "Project updated successfully" is about what the page shows (projectEdit.js).
THEOREM SuccessCorrect == EditingSpec => []SuccessIsOfTheShown
<1>1. EditingInv => SuccessIsOfTheShown
  BY DEF EditingInv
<1> QED
  BY <1>1, EditingCorrect, PTL

\* The server refuses a transfer that the page offered only for a change it could not know (actionsForm.js).
THEOREM TransferCorrect == EditingSpec => []TransferIsGranted
<1>1. EditingInv => TransferIsGranted
  BY DEF EditingInv
<1> QED
  BY <1>1, EditingCorrect, PTL
=============================================================================
