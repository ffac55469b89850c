----------------------------- MODULE ProjectEntry -----------------------------
(***************************************************************************)
(* A user comes to a project, is offered what the page thinks that they    *)
(* may do, and asks the server for it (views/taskSelection.js,             *)
(* components/taskSelection: index.js, permissionErrorModal.js;            *)
(* hooks/UsePermissions.js; views/projectEdit.js).  The page decides from  *)
(* what it fetched when it was opened; meanwhile the user's level, teams   *)
(* and role and the project's settings may change.                         *)
(***************************************************************************)
EXTENDS ProjectPermissions, Naturals

CONSTANTS
  Users, Projects,            \* the users and the projects to begin with
  LaterUsers, LaterProjects   \* and what they may change to

ASSUME EntryAssumption ==
  /\ Users \subseteq UserOnProject /\ LaterUsers \subseteq UserOnProject
  /\ Projects \subseteq ProjectAccess /\ LaterProjects \subseteq ProjectAccess

VARIABLES me, access,  \* what the server has of the user and of the project
          visit        \* the page: what it fetched and what came of it

entryVars == <<me, access, visit>>

NewVisit(user, project) ==
  [open |-> FALSE, edit |-> FALSE, offer |-> "none", message |-> "none", answer |-> "none",
   seen |-> user, project |-> project]

EntryInit ==
  /\ me \in Users /\ access \in Projects
  /\ visit = NewVisit(me, access)

\* useEditProjectAllowed, for which a team that manages the project is enough.
useEditProjectAllowed(user) ==
  user.role = "ADMIN" \/ user.author \/ user.manages \/ "PROJECT_MANAGER" \in user.teams

\* SelectTask and TaskSelection: the project, my teams and my organisations are
\* fetched once, and the action for no task, or for the selected one, is shown.
SelectTask(taskStatus) ==
  /\ ~visit.open
  /\ LET offer == getTaskAction(me, access, taskStatus) IN
     visit' = [visit EXCEPT !.open = TRUE, !.seen = me, !.project = access, !.offer = offer,
                 !.edit = useEditProjectAllowed(me),
                 !.message = IF offer = "selectAnotherProject"
                             THEN getPermissionErrorMessage(access, me.level) ELSE "none"]
  /\ UNCHANGED <<me, access>>

\* Somebody edits the project, or the user's level, teams or role.
ChangeUser(user) == visit.open /\ me' = user /\ UNCHANGED <<access, visit>>
ChangeProject(project) == visit.open /\ access' = project /\ UNCHANGED <<me, visit>>

Ask(permitted) ==
  /\ visit' = [visit EXCEPT !.answer = IF permitted THEN "granted" ELSE "refused"]
  /\ UNCHANGED <<me, access>>

AskForLock ==
  /\ visit.open /\ visit.answer = "none"
  /\ \/ visit.offer \in MappingActions /\ Ask(is_user_permitted_to_map(me, access, FALSE))
     \/ visit.offer \in ValidationActions /\ Ask(is_user_permitted_to_validate(me, access, FALSE))

\* ProjectEdit saves what is edited.
AskToEdit ==
  /\ visit.open /\ visit.answer = "none" /\ visit.edit
  /\ visit' = [visit EXCEPT !.offer = "edit",
                 !.answer = IF is_user_action_permitted_on_project(me, access)
                            THEN "granted" ELSE "refused"]
  /\ UNCHANGED <<me, access>>

EntryNext ==
  \/ \E s \in {"none", "READY", "MAPPED", "VALIDATED", "LOCKED_FOR_MAPPING"} : SelectTask(s)
  \/ \E user \in LaterUsers : ChangeUser(user)
  \/ \E project \in LaterProjects : ChangeProject(project)
  \/ AskForLock \/ AskToEdit

EntrySpec == EntryInit /\ [][EntryNext]_entryVars

----------------------------------------------------------------------------
\* What the page offers the server grants, as long as neither the user nor the project
\* changed since the page was opened: the two implementations agree in this direction
\* on published, public projects that belong to an organisation.  (The page knows
\* nothing of drafts, of the level on private projects, nor that a managing team counts
\* only with an organisation.)
OffersAreGranted ==
  [][visit'.answer = "refused" /\ visit.answer = "none" =>
       \/ me # visit.seen \/ access # visit.project
       \/ access.private \/ access.draft \/ ~access.hasOrg]_entryVars

=============================================================================
