--------------------------- MODULE MCProjectPages ---------------------------
(***************************************************************************)
(* The pages of one project, model-checked side by side: its creation, its *)
(* editing, who is offered which work on it, the work on a task and the    *)
(* forms for its outcome.  They share no state; a behaviour shows one.     *)
(* The work on a task is shown twice: in one form with several renewals of *)
(* the lock under way ("work"), and, with one at a time and no request     *)
(* lost, with the form left and come back to ("tabs").                     *)
(***************************************************************************)
EXTENDS ProjectCreation, ProjectEditing, ProjectEntry, TaskEditing, TaskVerdicts

VARIABLE shown

MCGeometries ==
  {[id |-> "A", over |-> FALSE, parts |-> 1, feature |-> 0],
   [id |-> "B", over |-> FALSE, parts |-> 2, feature |-> 0],
   [id |-> "C", over |-> TRUE, parts |-> 1, feature |-> 0]}
MCManagers ==
  [o \in {"org1", "org2"} |-> IF o = "org1" THEN {"me", "boss"} ELSE {"boss", "aide"}]
MCCrews == [t \in {"T1", "T2"} |-> IF t = "T1" THEN {"me"} ELSE {}]
MCHistories ==
  {{"LOCKED"}, {"INVALIDATED", "COMMENT"}, {"BADIMAGERY", "Undo state from BADIMAGERY to READY"}}

Someone == [role |-> "MAPPER", level |-> "BEGINNER", author |-> FALSE, manages |-> FALSE,
            listed |-> FALSE, teams |-> {}]
Somewhere == [private |-> FALSE, draft |-> FALSE, hasOrg |-> TRUE, mappingPermission |-> "ANY",
              validationPermission |-> "ANY", allMapped |-> FALSE, allValidated |-> FALSE]
MCUsers ==
  {[Someone EXCEPT !.level = l, !.listed = b, !.teams = ts] :
     l \in Levels, b \in BOOLEAN, ts \in {{}} \cup {{r} : r \in TeamRoles}}
  \cup {[Someone EXCEPT !.author = TRUE], [Someone EXCEPT !.manages = TRUE]}
  \cup {[Someone EXCEPT !.role = r] : r \in {"ADMIN", "READ_ONLY"}}
MCProjects ==
  {[Somewhere EXCEPT !.mappingPermission = p, !.validationPermission = q,
                     !.allMapped = m, !.allValidated = v] :
     p \in Permissions, q \in Permissions, m \in BOOLEAN, v \in BOOLEAN}
  \cup {[Somewhere EXCEPT !.private = TRUE, !.mappingPermission = p] : p \in Permissions}
  \cup {[Somewhere EXCEPT !.draft = TRUE], [Somewhere EXCEPT !.hasOrg = FALSE]}
MCLaterUsers == {Someone}
MCLaterProjects ==
  {[Somewhere EXCEPT !.mappingPermission = "LEVEL", !.validationPermission = "TEAMS"]}

GalleryInit ==
  /\ shown \in {"creation", "editing", "entry", "work", "tabs", "verdicts"}
  /\ IF shown = "creation" THEN CreationInit
     ELSE page = <<>> /\ calls = {} /\ created = {} /\ moves = 0
  /\ IF shown = "editing" THEN EditingInit
     ELSE /\ project = Draft("org1") /\ editPage = [info |-> project, success |-> FALSE] /\ requests = {} /\ edits = 0
          /\ saves = 0 /\ others = FALSE
  /\ IF shown = "entry" THEN EntryInit
     ELSE me = Someone /\ access = Somewhere /\ visit = NewVisit(me, access)
  /\ EditInit
  /\ IF shown = "verdicts" THEN VerdictsInit ELSE form = <<>> /\ submitted = {}

Calm == losses = 0 /\ Cardinality({r \in sent : r.kind \in {"extend", "relock", "tasks"}}) <= 1
GalleryNext ==
  /\ UNCHANGED shown
  /\ \/ shown = "creation" /\ CreationNext /\ UNCHANGED <<editingVars, entryVars, editVars, verdictVars>>
     \/ shown = "editing" /\ EditingNext /\ UNCHANGED <<creationVars, entryVars, editVars, verdictVars>>
     \/ shown = "entry" /\ EntryNext /\ UNCHANGED <<creationVars, editingVars, editVars, verdictVars>>
     \/ shown = "work" /\ EditNext /\ work'.form = 0 /\ UNCHANGED <<creationVars, editingVars, entryVars, verdictVars>>
     \/ shown = "tabs" /\ EditNext /\ Calm' /\ UNCHANGED <<creationVars, editingVars, entryVars, verdictVars>>
     \/ shown = "verdicts" /\ VerdictsNext /\ UNCHANGED <<creationVars, editingVars, entryVars, editVars>>

GallerySpec ==
  GalleryInit /\ [][GalleryNext]_<<shown, creationVars, editingVars, entryVars, editVars, verdictVars>>
=============================================================================
