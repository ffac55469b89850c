--------------------------- MODULE MCPeoplePages ----------------------------
(***************************************************************************)
(* The pages around the projects, model-checked side by side: a team and   *)
(* its members, the catalogues of the administrators, the inbox, the lists *)
(* that a search finds, the session with its settings, and the directory   *)
(* of the users.  They share no state; a behaviour shows one of them.      *)
(***************************************************************************)
EXTENDS TeamMembership, Catalogue, Inbox, Browsing, Session, UserDirectory

VARIABLE shown

MCChosen == {[managers |-> {"boss", "ann"}, members |-> {}], [managers |-> {"boss"}, members |-> {"ann"}]}
MCResultPages ==
  [s \in Searches |-> IF s.text = 2 THEN 0 ELSE IF s.types # Nothing \/ s.action = 1 THEN 1 ELSE 2]

\* What is not shown stands still in one state of its own.
TeamAsleep == /\ team = [join |-> "ANY", rows |-> <<>>] /\ editor = <<>> /\ calls = {} /\ presses = 0
              /\ trail = [letIn |-> {}, asked |-> {}, lost |-> {}, wiped |-> {}, gone |-> {}]
CatalogueAsleep == /\ entries = {} /\ owner = 0 /\ view = Page("interests", "list")
                   /\ sent = {} /\ made = {} /\ steps = 0
InboxAsleep == box = <<>> /\ inbox = <<>> /\ bell = <<>> /\ asks = {} /\ clicks = 0
ListsAsleep ==
  /\ screen = "stats" /\ url = Blank /\ throttled = Blank /\ preference = Nothing /\ known = TRUE
  /\ options = "ready" /\ fetches = {} /\ layer = {} /\ astray = FALSE /\ changes = 0
  /\ list = [isLoading |-> FALSE, isError |-> TRUE, of |-> remapParamsToAPI(Blank, Nothing), pages |-> 0]
DirectoryAsleep == people = <<>> /\ directory = [error |-> TRUE] /\ queries = {} /\ used = [sent |-> 0, clicks |-> 0, missed |-> 0, untold |-> FALSE]

GalleryInit ==
  /\ shown \in {"team", "catalogue", "inbox", "lists", "session", "directory"}
  /\ IF shown = "team" THEN TeamInit ELSE TeamAsleep
  /\ IF shown = "catalogue" THEN CatalogueInit ELSE CatalogueAsleep
  /\ IF shown = "inbox" THEN InboxInit ELSE InboxAsleep
  /\ IF shown = "lists" THEN BrowsingInit ELSE ListsAsleep
  /\ SessionInit
  /\ IF shown = "directory" THEN DirectoryInit ELSE DirectoryAsleep

\* A request lost or a level risen is instead of the last click.
FewClicks == used.missed = 0 \/ used.clicks < MaxQueries
GalleryNext ==
  /\ UNCHANGED shown
  /\ \/ shown = "team" /\ TeamNext /\ UNCHANGED <<catalogueVars, inboxVars, browsingVars, sessionVars, directoryVars>>
     \/ shown = "catalogue" /\ CatalogueNext /\ UNCHANGED <<teamVars, inboxVars, browsingVars, sessionVars, directoryVars>>
     \/ shown = "inbox" /\ InboxNext /\ UNCHANGED <<teamVars, catalogueVars, browsingVars, sessionVars, directoryVars>>
     \/ shown = "lists" /\ BrowsingNext /\ UNCHANGED <<teamVars, catalogueVars, inboxVars, sessionVars, directoryVars>>
     \/ shown = "session" /\ SessionNext /\ UNCHANGED <<teamVars, catalogueVars, inboxVars, browsingVars, directoryVars>>
     \/ shown = "directory" /\ DirectoryNext /\ FewClicks'
        /\ UNCHANGED <<teamVars, catalogueVars, inboxVars, browsingVars, sessionVars>>

GallerySpec ==
  GalleryInit /\ [][GalleryNext]_<<shown, teamVars, catalogueVars, inboxVars, browsingVars, sessionVars, directoryVars>>
=============================================================================
