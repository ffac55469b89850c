---------------------------- MODULE ProjectEditing ----------------------------
(***************************************************************************)
(* The pages on which a project is edited (views/projectEdit.js,           *)
(* components/projectEdit): nine forms over one copy of the project, which *)
(* is fetched once and sent back whole.  Other managers save theirs in     *)
(* between, the answers come late, and the transfer of the project acts on *)
(* the project as it was saved, not as it is edited.                       *)
(***************************************************************************)
EXTENDS Naturals, Sequences, ProjectPermissions

CONSTANTS
  TeamIds, Locales, Organisations,
  People,        \* "me" is the one at the page
  Managers,     \* by organisation: the users who manage it
  Crews,        \* by team: its active members
  Areas,        \* the priority areas that may be drawn
  MaxEdits,     \* bounds the edits
  MaxSaves      \* and the requests: saved projects, transfers, uploads

ASSUME EditingAssumption == /\ "me" \in People /\ Managers \in [Organisations -> SUBSET People]
                            /\ Crews \in [TeamIds -> SUBSET People]

VARIABLES editPage,  \* the page
          project,   \* the project on the server
          requests,  \* on their way, with what they carry
          edits, saves, others  \* counters, and whether somebody else saved

editingVars == <<editPage, project, requests, edits, saves, others>>

\* "ID" stands for every editor that needs no set-up.
Editors == {"ID", "CUSTOM"}
NoTeam == [team |-> "none", role |-> "none", edit |-> FALSE]
NoOrganisation == "none"
Modal(action, status) == [action |-> action, status |-> status]
NoModal == Modal("none", "closed")

\* A project as it was created: a draft without texts.  "complete" holds the locales
\* with every mandatory text.
Draft(org) ==
  [status |-> "DRAFT", mappingPermission |-> "ANY", validationPermission |-> "LEVEL",
   teams |-> {}, mappingEditors |-> Editors, validationEditors |-> Editors,
   customEditor |-> "undefined", mappingTypes |-> {}, organisation |-> org, author |-> "me",
   defaultLocale |-> CHOOSE l \in Locales : TRUE, complete |-> {}, priorityAreas |-> <<>>]
Settled(org) ==
  [Draft(org) EXCEPT !.status = "PUBLISHED", !.mappingTypes = {"ROADS"}, !.complete = Locales,
                     !.teams = {[team |-> CHOOSE t \in TeamIds : TRUE, role |-> "MAPPER"]}]

EditingInit ==
  /\ \E org \in Organisations, author \in People, settled \in BOOLEAN :
       project = [(IF settled THEN Settled(org) ELSE Draft(org)) EXCEPT !.author = author]
  /\ editPage = [info |-> project, success |-> FALSE, error |-> "none", pending |-> FALSE,
                 option |-> "description", select |-> NoTeam, drawing |-> <<>>, updater |-> {},
                 managers |-> {}, username |-> "none", modal |-> NoModal, touched |-> FALSE, early |-> FALSE]
  /\ requests = {} /\ edits = 0 /\ saves = 0 /\ others = FALSE

----------------------------------------------------------------------------
\* A plausible slip: the effect runs only when another form is opened.
KeepsResult(p, info) == [p EXCEPT !.info = info, !.touched = @ \/ info # p.info]
\* Every edit makes a new copy, and the effect on it takes the last result away.
NewInfo(p, info) == [p EXCEPT !.info = info, !.success = FALSE, !.error = "none",
                              !.touched = @ \/ info # p.info]
setProjectInfo(info) == editPage' = NewInfo(editPage, info)
In(option) == editPage.option = option
info == editPage.info
setOption(option) ==
  /\ editPage.option # option
  /\ editPage' = [editPage EXCEPT !.option = option, !.success = FALSE, !.error = "none",
                    !.select = NoTeam, !.drawing = <<>>, !.updater = {}, !.managers = {}, !.username = "none"]

DescriptionForm ==
  /\ In("description")
  /\ \E s \in {"PUBLISHED", "ARCHIVED", "DRAFT"} : setProjectInfo([info EXCEPT !.status = s])
\* A field that is left: the last missing text of a locale is given, or one is emptied.
InputLocale ==
  /\ In("description") \/ In("instructions")
  /\ \E l \in Locales :
       \/ setProjectInfo([info EXCEPT !.complete = @ \cup {l}])
       \/ setProjectInfo([info EXCEPT !.complete = @ \ {l}])
\* An edit of what nothing here depends on.
OtherEdit == editPage' = [NewInfo(editPage, info) EXCEPT !.touched = TRUE]
InstructionsForm == In("instructions") /\ (InputLocale \/ OtherEdit)
ImageryForm == In("imagery") /\ OtherEdit
ProjectInterests == OtherEdit
ExtraIdParams == OtherEdit
\* Only the organisations that the user manages are listed.
MetadataForm ==
  /\ In("metadata")
  /\ \/ \E types \in {{}, {"ROADS"}} : setProjectInfo([info EXCEPT !.mappingTypes = types])
     \/ \E org \in Organisations :
          "me" \in Managers[org] /\ setProjectInfo([info EXCEPT !.organisation = org])
     \/ ProjectInterests \/ ExtraIdParams
PermissionsBlock ==
  /\ In("permissions")
  /\ \E permission \in Permissions :
       \/ setProjectInfo([info EXCEPT !.mappingPermission = permission])
       \/ setProjectInfo([info EXCEPT !.validationPermission = permission])
CheckBox(items, item) == IF item \in items THEN items \ {item} ELSE items \cup {item}
SettingsForm ==
  /\ In("settings")
  /\ \/ \E l \in Locales : setProjectInfo([info EXCEPT !.defaultLocale = l])
     \/ \E e \in IF info.customEditor = "set" THEN Editors ELSE {"ID"} :
          \/ setProjectInfo([info EXCEPT !.mappingEditors = CheckBox(@, e)])
          \/ setProjectInfo([info EXCEPT !.validationEditors = CheckBox(@, e)])
\* To remove the custom editor leaves it among the editors that are enabled.
CustomEditorForm ==
  /\ In("custom_editor")
  /\ \/ setProjectInfo([info EXCEPT !.customEditor = "set"])
     \/ /\ info.customEditor = "set"
        /\ \/ setProjectInfo([info EXCEPT !.mappingEditors = CheckBox(@, "CUSTOM")])
           \/ setProjectInfo([info EXCEPT !.validationEditors = CheckBox(@, "CUSTOM")])
           \/ setProjectInfo([info EXCEPT !.customEditor = "null"])

\* The teams of the project, each with its role; their order is that of the list only.
Assigned == {x.team : x \in info.teams}
filteredTeams == TeamIds \ Assigned
chooseTeam(t) ==
  /\ ~editPage.select.edit /\ t \in filteredTeams
  /\ editPage' = [editPage EXCEPT !.select.team = t]
chooseRole(r) ==
  editPage.select.team # "none" /\ editPage' = [editPage EXCEPT !.select.role = r]
editTeam(x) ==
  editPage' = [editPage EXCEPT !.select = [team |-> x.team, role |-> x.role, edit |-> TRUE]]
removeTeam(x) == setProjectInfo([info EXCEPT !.teams = {y \in @ : y.team # x.team}])
newTeam == [team |-> editPage.select.team, role |-> editPage.select.role]
addTeam ==
  editPage' = [NewInfo(editPage, [info EXCEPT !.teams = @ \cup {newTeam}])
                 EXCEPT !.select = NoTeam]
updateTeam ==
  editPage' = [NewInfo(editPage, [info EXCEPT !.teams =
                 {IF x.team = newTeam.team THEN newTeam ELSE x : x \in @}])
                 EXCEPT !.select = NoTeam]
TeamSelect ==
  /\ In("permissions")
  /\ \/ \E t \in TeamIds : chooseTeam(t)
     \/ \E r \in TeamRoles : chooseRole(r)
     \/ \E x \in info.teams : editTeam(x) \/ removeTeam(x)
     \/ /\ editPage.select.team # "none" /\ editPage.select.role # "none"
        /\ IF editPage.select.edit THEN updateTeam ELSE addTeam
     \/ editPage.select.edit /\ editPage' = [editPage EXCEPT !.select = NoTeam]

\* The listeners for a drawing close over the project and its list of areas, to which they
\* append; clearAll makes a new list, which they do not know, and takes the drawings away.  The
\* listener for changes stays: of an area drawn here and dragged, the last one has the last word.
drawPolygonHandler ==
  /\ Len(editPage.drawing) < 2
  /\ editPage' = [editPage EXCEPT !.drawing = Append(@, info), !.updater = IF @ = {} THEN {} ELSE {info}]
updatePriorityAreas(area) ==
  /\ editPage.drawing # <<>>
  /\ LET base == editPage.drawing[Len(editPage.drawing)]
         areas == base.priorityAreas \o [i \in DOMAIN editPage.drawing |-> area] IN
     editPage' = [NewInfo(editPage, [base EXCEPT !.priorityAreas = areas])
                    EXCEPT !.drawing = <<>>, !.updater = {[base EXCEPT !.priorityAreas = areas]}]
dragPriorityArea(area) ==
  \E base \in editPage.updater :
    LET dragged == [base EXCEPT !.priorityAreas = Append(@, area)] IN
    editPage' = [NewInfo(editPage, dragged) EXCEPT !.updater = {dragged}]
clearAll == editPage' = [NewInfo(editPage, [info EXCEPT !.priorityAreas = <<>>]) EXCEPT !.updater = {}]
PriorityAreasForm ==
  /\ In("priority_areas")
  /\ \/ drawPolygonHandler \/ clearAll
     \/ \E a \in Areas : \/ updatePriorityAreas(a) \/ dragPriorityArea(a)
                        \/ setProjectInfo([info EXCEPT !.priorityAreas = <<a>>])

EditForm ==
  \/ DescriptionForm \/ InputLocale \/ InstructionsForm \/ MetadataForm \/ ImageryForm
  \/ PermissionsBlock \/ SettingsForm \/ CustomEditorForm \/ TeamSelect \/ PriorityAreasForm
  \/ \E o \in {"description", "instructions", "metadata", "imagery", "permissions", "settings",
               "custom_editor", "priority_areas", "actions"} : setOption(o)

----------------------------------------------------------------------------
\* saveChanges: what is mandatory, and then the whole copy.
NoEditor(editors, p) ==
  editors = {} \/ (editors = {"CUSTOM"} /\ p.customEditor = "undefined")
RolesIn(p) == {x.role : x \in p.teams}
TeamsOnly == {"TEAMS", "TEAMS_LEVEL"}
doesMappingTeamNotExist(p) == p.mappingPermission \in TeamsOnly /\ RolesIn(p) = {}
MapperTeamIsEnough(p) == p.validationPermission \in TeamsOnly /\ RolesIn(p) = {}
doesValidationTeamNotExist(p) ==
  p.validationPermission \in TeamsOnly /\ RolesIn(p) \cap {"VALIDATOR", "PROJECT_MANAGER"} = {}
missingFields(p) ==
  \/ p.defaultLocale \notin p.complete \/ p.mappingTypes = {}
  \/ NoEditor(p.mappingEditors, p) \/ NoEditor(p.validationEditors, p)
  \/ p.organisation = NoOrganisation
  \/ doesMappingTeamNotExist(p) \/ doesValidationTeamNotExist(p)
SendEdit(request) == requests' = requests \cup {request}
saveChanges ==
  /\ ~editPage.pending
  /\ IF missingFields(info)
     THEN editPage' = [editPage EXCEPT !.error = "missing"] /\ UNCHANGED requests
     ELSE /\ editPage' = [editPage EXCEPT !.pending = TRUE, !.touched = FALSE]
          /\ SendEdit([kind |-> "save", by |-> "me", body |-> info])

\* Project.update writes every field but the author.
Permitted(user, p) == user = p.author \/ user \in Managers[p.organisation]
InManagerTeam(user, p) == \E x \in p.teams : x.role = "PROJECT_MANAGER" /\ user \in Crews[x.team]
Update(p, dto) ==
  [dto EXCEPT !.author = p.author, !.customEditor = IF @ = "null" THEN "undefined" ELSE @]
update_project(r) ==
  LET valid == r.body.status = "PUBLISHED" => r.body.defaultLocale \in r.body.complete
      ok == valid /\ (Permitted(r.by, project) \/ InManagerTeam(r.by, project)) IN
  /\ r.kind = "save"
  /\ project' = IF ok THEN Update(project, r.body) ELSE project
  /\ requests' = (requests \ {r}) \cup
       {[kind |-> "answer", by |-> r.by, body |-> [ok |-> ok]]}
\* A failure leaves a success of before on the page.
Shown(ok) ==
  editPage' = IF ok THEN [editPage EXCEPT !.pending = FALSE, !.success = TRUE, !.error = "none", !.early = editPage.touched]
              ELSE [editPage EXCEPT !.pending = FALSE, !.error = "server"]
SaveAnswer(r) ==
  /\ r.kind = "answer" /\ requests' = requests \ {r} /\ Shown(r.body.ok)

\* Another manager saves their own copy.
OtherManagerSaves ==
  \E p \in {[project EXCEPT !.status = "ARCHIVED"]} \cup
           {[project EXCEPT !.organisation = org] : org \in Organisations} :
    p # project /\ project' = p

----------------------------------------------------------------------------
\* The transfer: the managers of the organisation as it is edited are fetched.
FetchManagers ==
  /\ In("actions") /\ editPage.managers = {}
  /\ editPage' = [editPage EXCEPT !.managers = Managers[info.organisation]]
chooseManager(u) ==
  u \in editPage.managers /\ editPage' = [editPage EXCEPT !.username = u]
ByAnybody == TRUE
hasAccess == "me" \in editPage.managers \/ info.author = "me"
transferOwnership ==
  /\ In("actions") /\ editPage.username # "none" /\ hasAccess
  /\ \A r \in requests : r.kind # "transfer"
  /\ SendEdit([kind |-> "transfer", by |-> "me", body |-> [to |-> editPage.username, seen |-> info]])
SaveAsked == saves < MaxSaves /\ saves' = saves + 1
TransferProject ==
  \/ /\ FetchManagers \/ \E u \in People : chooseManager(u)
     /\ UNCHANGED <<requests, saves>>
  \/ transferOwnership /\ SaveAsked /\ UNCHANGED editPage
transfer_project_to(r) ==
  LET to == r.body.to
      allowed == Permitted(r.by, project) /\ to \in Managers[project.organisation] IN
  /\ r.kind = "transfer"
  /\ project' = IF allowed THEN [project EXCEPT !.author = to] ELSE project
  /\ requests' = (requests \ {r}) \cup
       IF allowed \/ to = project.author THEN {}
       ELSE {[kind |-> "refused", by |-> r.by, body |-> [seen |-> r.body.seen, was |-> project]]}

\* The other actions on all the tasks are one request each, in a modal that knows its
\* result as long as it stays open.
ActionModal(action) ==
  /\ In("actions")
  /\ \/ /\ editPage.modal = NoModal
        /\ editPage' = [editPage EXCEPT !.modal = Modal(action, "idle")] /\ UNCHANGED requests
     \/ /\ editPage.modal \in {Modal(action, s) : s \in {"idle", "success", "error"}}
        /\ editPage' = [editPage EXCEPT !.modal = Modal(action, "pending")]
        /\ SendEdit([kind |-> "action", by |-> "me", body |-> [action |-> action]])
     \/ /\ editPage.modal \in {Modal(action, s) : s \in {"idle", "pending", "success", "error"}}
        /\ editPage' = [editPage EXCEPT !.modal = NoModal] /\ UNCHANGED requests
ActionAnswer(r) ==
  /\ r.kind = "action" /\ requests' = requests \ {r}
  /\ \E s \in {"success", "error"} :
       editPage' = IF editPage.modal = Modal(r.body.action, "pending")
                   THEN [editPage EXCEPT !.modal = Modal(r.body.action, s)] ELSE editPage

ResetTasksModal == ActionModal("RESET_ALL")
ResetBadImageryModal == ActionModal("RESET_BAD_IMAGERY")
ValidateAllTasksModal == ActionModal("VALIDATE_ALL_TASKS")
InvalidateAllTasksModal == ActionModal("INVALIDATE_ALL_TASKS")
MapAllTasksModal == ActionModal("MAP_ALL_TASKS")
MessageContributorsModal == ActionModal("MESSAGE_CONTRIBUTORS")
ActionsForm ==
  \/ ResetTasksModal \/ ResetBadImageryModal \/ ValidateAllTasksModal
  \/ InvalidateAllTasksModal \/ MapAllTasksModal \/ MessageContributorsModal

Edit == edits < MaxEdits /\ edits' = edits + 1
ProjectEdit ==
  /\ UNCHANGED <<project, others>>
  /\ \/ EditForm /\ Edit /\ UNCHANGED <<requests, saves>>
     \/ (saveChanges \/ ActionsForm) /\ SaveAsked /\ UNCHANGED edits
     \/ TransferProject /\ UNCHANGED edits
     \/ \E r \in requests : (SaveAnswer(r) \/ ActionAnswer(r)) /\ UNCHANGED <<edits, saves>>
Server ==
  /\ UNCHANGED <<editPage, edits>>
  /\ \/ \E r \in requests : (update_project(r) \/ transfer_project_to(r)) /\ UNCHANGED <<saves, others>>
     \/ OtherManagerSaves /\ SaveAsked /\ others' = TRUE /\ UNCHANGED requests
EditingNext == ProjectEdit \/ Server

EditingSpec == EditingInit /\ [][EditingNext]_editingVars

----------------------------------------------------------------------------
\* A public project that is published can be mapped, and validated, by some experienced
\* member of its teams, or by anybody: what the forms let through never shuts out
\* everyone but the managers (projectEdit.js checks the teams; the server does not).
Member(role) == [role |-> "MAPPER", level |-> "ADVANCED", author |-> FALSE, manages |-> FALSE,
                 listed |-> FALSE, teams |-> role]
Access == [private |-> FALSE, draft |-> project.status = "DRAFT", hasOrg |-> TRUE,
           mappingPermission |-> project.mappingPermission,
           validationPermission |-> project.validationPermission,
           allMapped |-> FALSE, allValidated |-> FALSE]
SomebodyMayWork ==
  project.status = "PUBLISHED" =>
    LET workers == {Member({})} \cup {Member({r}) : r \in RolesIn(project)} IN
    /\ \E u \in workers : is_user_permitted_to_map(u, Access, FALSE)
    /\ \E u \in workers : is_user_permitted_to_validate(u, Access, FALSE)

\* "Project updated successfully" is shown only while the server has what the page shows,
\* unless the page was edited before the answer came, or somebody else saved.
SuccessIsOfTheShown ==
  editPage.success => Update(project, info) = project \/ editPage.early \/ others

\* Whom the page offers to hand the project over, the server accepts, unless the
\* organisation of the page is not the saved one, or the author changed meanwhile.
TransferIsGranted ==
  \A r \in requests : r.kind = "refused" =>
    r.body.seen.organisation # r.body.was.organisation \/ r.body.seen.author # r.body.was.author
=============================================================================
