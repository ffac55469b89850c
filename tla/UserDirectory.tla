--------------------------- MODULE UserDirectory ---------------------------
(***************************************************************************)
(* The list of users for those who administer them (views/users.js,        *)
(* components/user/list.js): filters and pages, and behind each card but   *)
(* one's own a menu that sets the role or the level of its user.  Every    *)
(* change of a filter sends a request and cancels none, and so does every  *)
(* change of a user that went through.  The level of a user who maps also  *)
(* rises by itself, and no page is told.                                   *)
(***************************************************************************)
EXTENDS Integers, FiniteSets

CONSTANTS UserIds,      \* numbers of the users, in the order of their names; the first looks at the list
          Roles, Levels,
          PerPage,      \* users on a page
          MaxQueries,   \* bound: clicks
          MaxUntold     \* bound: requests lost and levels that rise by themselves

ASSUME DirectoryAssumption == /\ UserIds \subseteq Nat \ {0} /\ IsFiniteSet(UserIds)
                              /\ PerPage \in Nat \ {0} /\ {MaxQueries, MaxUntold} \subseteq Nat

VARIABLES people,       \* the server: role and level of each user
          directory,    \* the page: [filters, shown, pages, newest, loading, error, menu]
          queries,      \* requests under way
          used          \* [sent: lists asked for, clicks, missed: requests lost and levels risen, untold
                        \* (a history variable): since the newest list was made, a user was changed
                        \* and the page not told of it]

directoryVars == <<people, directory, queries, used>>

Me1 == CHOOSE u \in UserIds : \A v \in UserIds : u <= v
NoFilters == [username |-> 0, role |-> "ALL", level |-> "ALL", page |-> 1]

\* Which of the users some filters name, on how many pages, and those of the page that they name.
Matching(users, f) == {u \in UserIds : /\ f.username \in {0, u} /\ f.role \in {"ALL", users[u].role}
                                       /\ f.level \in {"ALL", users[u].level}}
PagesOf(users, f) == (Cardinality(Matching(users, f)) + PerPage - 1) \div PerPage
get_all_users(users, f) ==
  {[id |-> u, is |-> users[u]] : u \in {v \in Matching(users, f) :
     LET before == Cardinality({w \in Matching(users, f) : w < v})
     IN (f.page - 1) * PerPage <= before /\ before < f.page * PerPage}}

Query(op, n, f, user, to) ==
  [op |-> op, n |-> n, filters |-> f, user |-> user, to |-> to, phase |-> "sent", got |-> {}, pages |-> 0]

\* The effect of the table: it runs when the filters or the status change, whatever is under way.  The cards
\* are taken down until a list has come, and their menus with them.
fetchUsers(f, others) ==
  /\ directory' = [directory EXCEPT !.filters = f, !.loading = TRUE, !.menu = 0]
  /\ queries' = others \cup {Query("list", used.sent + 1, f, 0, "")}
ClickInTable == used.clicks < MaxQueries

DirectoryInit ==
  /\ \E role \in Roles : people = [u \in UserIds |-> [role |-> IF u = Me1 THEN role ELSE "MAPPER", level |-> "BEGINNER"]]
  /\ directory = [filters |-> NoFilters, shown |-> {}, pages |-> 0, newest |-> 0, loading |-> TRUE,
                  error |-> FALSE, menu |-> 0]
  /\ queries = {Query("list", 1, NoFilters, 0, "")} /\ used = [sent |-> 1, clicks |-> 0, missed |-> 0, untold |-> FALSE]

----------------------------------------------------------------------------
(* The server.  A page beyond the last is an error; only an administrator  *)
(* makes another one.                                                      *)

add_role_to_user(q) ==
  IF q.to = "ADMIN" /\ people[Me1].role # "ADMIN" THEN UNCHANGED people
  ELSE people' = [people EXCEPT ![q.user].role = q.to]
set_user_mapping_level(q) == people' = [people EXCEPT ![q.user].level = q.to]
Denied(q) ==
  \/ q.op = "list" /\ q.filters.page > 1 /\ get_all_users(people, q.filters) = {}
  \/ q.op = "role" /\ q.to = "ADMIN" /\ people[Me1].role # "ADMIN"
ServeQuery(q) ==
  /\ q \in queries /\ q.phase = "sent"
  /\ CASE q.op = "role" -> add_role_to_user(q)
       [] q.op = "level" -> set_user_mapping_level(q)
       [] q.op = "list" -> UNCHANGED people
  /\ queries' = (queries \ {q}) \cup
       {IF Denied(q) THEN [q EXCEPT !.phase = "failed"]
        ELSE IF q.op # "list" THEN [q EXCEPT !.phase = "done"]
        ELSE [q EXCEPT !.phase = "done", !.got = get_all_users(people, q.filters), !.pages = PagesOf(people, q.filters)]}
  /\ used' = [used EXCEPT !.untold = @ /\ ~(q.op = "list" /\ q.n = used.sent)]
  /\ UNCHANGED directory
\* A request may be lost before the server has it, and its answer after.
LoseQuery(q) ==
  /\ q \in queries /\ q.phase \in {"sent", "done"} /\ used.missed < MaxUntold
  /\ queries' = (queries \ {q}) \cup {[q EXCEPT !.phase = "failed"]}
  /\ used' = [used EXCEPT !.missed = @ + 1, !.untold = @ \/ (q.op # "list" /\ q.phase = "done")]
  /\ UNCHANGED <<people, directory>>
\* Mapping makes more of a beginner, by the number of changesets.
check_and_update_mapper_level(u) ==
  /\ \E level \in Levels \cap (IF people[u].level = "BEGINNER" THEN {"INTERMEDIATE", "ADVANCED"} ELSE {"ADVANCED"}) :
       people[u].level # level /\ people' = [people EXCEPT ![u].level = level]
  /\ used.missed < MaxUntold /\ used' = [used EXCEPT !.missed = @ + 1, !.untold = TRUE] /\ UNCHANGED <<directory, queries>>

----------------------------------------------------------------------------
(* The page.                                                               *)

Asked(clicked) == used' = [used EXCEPT !.sent = @ + 1, !.clicks = @ + clicked]

\* A filter leaves the page as it was.  Choosing what is chosen asks again; only typing needs another text.
updateFilters(field, value) ==
  /\ ClickInTable /\ (field = "username" => directory.filters.username # value)
  /\ fetchUsers([directory.filters EXCEPT ![field] = value], queries) /\ Asked(1) /\ UNCHANGED people
\* The link that clears them all is there when one is set.
clearFilters ==
  /\ ClickInTable /\ (\E field \in {"username", "role", "level"} : directory.filters[field] # NoFilters[field])
  /\ fetchUsers(NoFilters, queries) /\ Asked(1) /\ UNCHANGED people
\* The paginator offers the pages of the last list that came, and the second in any case when the page chosen
\* is beyond them; it stays while another list is loading.
listPageOptions == 1..directory.pages \cup IF directory.filters.page > directory.pages THEN {2} ELSE {}
PaginatorLine(page) ==
  /\ ClickInTable /\ directory.pages > 0 /\ page \in listPageOptions
  /\ fetchUsers([directory.filters EXCEPT !.page = page], queries) /\ Asked(1) /\ UNCHANGED people

\* Any list that comes is shown, and ends the loading.  A failure is never forgotten: no card is shown again.
UsersTable(q) ==
  /\ q \in queries /\ q.op = "list" /\ q.phase # "sent" /\ queries' = queries \ {q}
  /\ directory' = IF q.phase = "failed" THEN [directory EXCEPT !.error = TRUE]
                  ELSE [directory EXCEPT !.shown = q.got, !.pages = q.pages, !.newest = q.n, !.loading = FALSE,
                                         !.menu = IF \E x \in q.got : x.id = @ THEN @ ELSE 0]
  /\ UNCHANGED <<people, used>>

\* The menu of a card, which one's own card has not.
UserListCard(u) ==
  /\ ~directory.loading /\ ~directory.error /\ u # Me1 /\ u # directory.menu
  /\ \E x \in directory.shown : x.id = u
  /\ directory' = [directory EXCEPT !.menu = u] /\ UNCHANGED <<people, queries, used>>
\* (The same change twice at once counts as one.)
Set(op, to) ==
  /\ ClickInTable /\ directory.menu # 0 /\ (\A q \in queries : q.op = "list" \/ q.user # directory.menu \/ q.to # to)
  /\ queries' = queries \cup {Query(op, 0, NoFilters, directory.menu, to)}
  /\ used' = [used EXCEPT !.clicks = @ + 1] /\ UNCHANGED <<people, directory>>
updateRole(role) == Set("role", role)
updateMapperLevel(level) == Set("level", level)

\* A change that went through closes the menu and sets the status, on which the table loads the list again;
\* one that was refused, or whose answer is lost, says nothing, and leaves the list as it was.
StatusIgnored(q) == directory' = [directory EXCEPT !.menu = 0] /\ queries' = queries \ {q} /\ UNCHANGED used
setStatus(q) == fetchUsers(directory.filters, queries \ {q}) /\ Asked(0)
UserEditMenu(q) ==
  /\ q \in queries /\ q.op # "list" /\ q.phase # "sent" /\ UNCHANGED people
  /\ IF q.phase = "done" THEN setStatus(q) ELSE queries' = queries \ {q} /\ UNCHANGED <<directory, used>>

SearchNav ==
  \/ \E u \in UserIds \cup {0} : updateFilters("username", u)
  \/ \E role \in Roles \cup {"ALL"} : updateFilters("role", role)
  \/ \E level \in Levels \cup {"ALL"} : updateFilters("level", level)
  \/ clearFilters
UsersList ==
  \/ SearchNav \/ (\E page \in 1..Cardinality(UserIds) : PaginatorLine(page)) \/ (\E u \in UserIds : UserListCard(u))
  \/ (\E role \in Roles : updateRole(role)) \/ \E level \in Levels : updateMapperLevel(level)

DirectoryNext ==
  \/ UsersList
  \/ \E q \in queries : ServeQuery(q) \/ LoseQuery(q) \/ UsersTable(q) \/ UserEditMenu(q)
  \/ \E u \in UserIds : check_and_update_mapper_level(u)

DirectorySpec == DirectoryInit /\ [][DirectoryNext]_directoryVars

----------------------------------------------------------------------------
\* Once everything is answered, none of the lists failed and the newest came last, the list is what the
\* server has for the filters chosen: also after changes of several users, each of which may have put its
\* user in or out of the filters, and several requests answered in any order before.  Only a change that no
\* answer told of stays unseen until the next list is made: one whose answer was lost, for which the menu has
\* no catch (user/list.js:240-251), and a level that rose by itself.
ListFollowsChanges ==
  queries = {} /\ ~directory.error /\ directory.newest = used.sent /\ ~used.untold =>
    /\ ~directory.loading /\ directory.shown = get_all_users(people, directory.filters)
    /\ directory.pages = PagesOf(people, directory.filters)
=============================================================================
