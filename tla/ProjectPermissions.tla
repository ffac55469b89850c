------------------------- MODULE ProjectPermissions -------------------------
(***************************************************************************)
(* Who may map and validate, decided twice: by the page, to choose what    *)
(* its button offers (utils/projectPermissions.js), and by the server when *)
(* the lock is asked for (project_service.py).                             *)
(*                                                                         *)
(* A user is seen as their relation to one project: "teams" holds the      *)
(* roles on the project of the teams the user is an active member of,      *)
(* "manages" says that the project has an organisation that the user       *)
(* manages, "author" that the user created it, "listed" that the user is   *)
(* on its list of allowed users.  The percentages are kept as whether they *)
(* have reached 100.                                                       *)
(***************************************************************************)
EXTENDS FiniteSets

TeamRoles == {"MAPPER", "VALIDATOR", "PROJECT_MANAGER"}
Levels == {"BEGINNER", "INTERMEDIATE", "ADVANCED"}
Permissions == {"ANY", "LEVEL", "TEAMS", "TEAMS_LEVEL"}

UserOnProject ==
  [role: {"READ_ONLY", "MAPPER", "ADMIN"}, level: Levels, author: BOOLEAN,
   manages: BOOLEAN, listed: BOOLEAN, teams: SUBSET TeamRoles]

ProjectAccess ==
  [private: BOOLEAN, draft: BOOLEAN, hasOrg: BOOLEAN, mappingPermission: Permissions,
   validationPermission: Permissions, allMapped: BOOLEAN, allValidated: BOOLEAN]

Experienced(user) == user.level \in {"INTERMEDIATE", "ADVANCED"}

----------------------------------------------------------------------------
(* The page. *)

Satisfies(user, permission, isMember) ==
  \/ permission = "ANY"
  \/ permission = "LEVEL" /\ Experienced(user)
  \/ permission = "TEAMS" /\ isMember
  \/ permission = "TEAMS_LEVEL" /\ isMember /\ Experienced(user)

MayOnPage(user, project, permission, roles) ==
  LET isMember == user.teams \cap roles # {} IN
  /\ user.role # "READ_ONLY"
  /\ \/ user.role = "ADMIN"
     \/ user.author
     \/ user.manages
     \/ project.private /\ (user.listed \/ isMember)
     \/ ~project.private /\ Satisfies(user, permission, isMember)

userCanMap(user, project) ==
  MayOnPage(user, project, project.mappingPermission, TeamRoles)

\* A plausible slip: a team of mappers is let through.
AnyTeamValidates(user, project) ==
  MayOnPage(user, project, project.validationPermission, TeamRoles)
userCanValidate(user, project) ==
  MayOnPage(user, project, project.validationPermission, {"VALIDATOR", "PROJECT_MANAGER"})

MappingActions == {"mapATask", "mapSelectedTask", "mapAnotherTask"}
ValidationActions == {"validateATask", "validateSelectedTask", "validateAnotherTask"}
ResumeActions == {"resumeMapping", "resumeValidation"}
NoMoreToDo == {"projectIsComplete", "mappingIsComplete", "selectAnotherProject"}

\* taskStatus is "none" when no task is selected.
getMessageOnMappingContext(taskStatus) ==
  CASE taskStatus = "none"                     -> "mapATask"
    [] taskStatus \in {"READY", "INVALIDATED"} -> "mapSelectedTask"
    [] OTHER                                   -> "mapAnotherTask"

getMessageOnValidationContext(mappingIsPossible, taskStatus) ==
  CASE taskStatus = "MAPPED"                                 -> "validateSelectedTask"
    [] taskStatus \in {"VALIDATED", "LOCKED_FOR_VALIDATION"} -> "validateAnotherTask"
    [] OTHER -> IF mappingIsPossible THEN getMessageOnMappingContext(taskStatus)
                ELSE "validateATask"

getTaskAction(user, project, taskStatus) ==
  LET mappingIsPossible == userCanMap(user, project) /\ ~project.allMapped IN
  CASE project.allValidated            -> "projectIsComplete"
    [] ~project.allValidated /\ userCanValidate(user, project) ->
         getMessageOnValidationContext(mappingIsPossible, taskStatus)
    [] OTHER -> IF mappingIsPossible THEN getMessageOnMappingContext(taskStatus)
                ELSE IF project.allMapped THEN "mappingIsComplete" ELSE "selectAnotherProject"

\* The two "if"s for one permission; the page has no message for the others.
LevelMissing(permission, level) ==
  permission = "LEVEL" \/ (permission = "TEAMS_LEVEL" /\ level = "BEGINNER")
TeamMissing(permission, level) ==
  permission = "TEAMS" \/ (permission = "TEAMS_LEVEL" /\ level # "BEGINNER")

getPermissionErrorMessage(project, level) ==
  LET mapping == project.mappingPermission
      validation == project.validationPermission IN
  IF ~project.allMapped /\ LevelMissing(mapping, level) THEN "userLevelToMap"
  ELSE IF ~project.allMapped /\ TeamMissing(mapping, level) THEN "userIsNotMappingTeamMember"
  ELSE IF ~project.allValidated /\ LevelMissing(validation, level) THEN "userLevelToValidate"
  ELSE IF ~project.allValidated /\ TeamMissing(validation, level)
       THEN "userIsNotValidationTeamMember"
  ELSE "none"

----------------------------------------------------------------------------
(* The server. *)

is_user_action_permitted_on_project(user, project) ==
  \/ user.role = "ADMIN"
  \/ user.author
  \/ user.manages
  \/ project.hasOrg /\ "PROJECT_MANAGER" \in user.teams

\* The restriction that evaluate_*_permission returns, as whether there is one.
evaluate_permission(user, permission, roles) ==
  \/ permission \in {"TEAMS", "TEAMS_LEVEL"} /\ user.teams \cap roles = {}
  \/ permission \in {"LEVEL", "TEAMS_LEVEL"} /\ ~Experienced(user)

is_user_permitted(user, project, permission, roles, hasLocks) ==
  LET manager == is_user_action_permitted_on_project(user, project) IN
  /\ user.role # "READ_ONLY"
  /\ project.draft => manager
  /\ ~hasLocks
  /\ \/ manager
     \/ project.private /\ user.listed
     \/ ~evaluate_permission(user, permission, roles)

is_user_permitted_to_map(user, project, hasLocks) ==
  is_user_permitted(user, project, project.mappingPermission, TeamRoles, hasLocks)

is_user_permitted_to_validate(user, project, hasLocks) ==
  is_user_permitted(user, project, project.validationPermission,
                    {"VALIDATOR", "PROJECT_MANAGER"}, hasLocks)
=============================================================================
