------------------------------ MODULE Browsing ------------------------------
(***************************************************************************)
(* The pages that list what a search finds: all projects, one's own        *)
(* projects, one's tasks, and the statistics.  The search is the URL; the  *)
(* filters change it at once, a throttle hands it on later, and a hook     *)
(* fetches what the throttle let through.  The action ("projects to map")  *)
(* is kept in the store instead and reaches the hook without the throttle. *)
(***************************************************************************)
EXTENDS Integers

CONSTANTS Views,       \* the pages visited, of "explore", "mine", "tasks", "stats"
          ResultPages, \* how many pages of results there are for each of Searches
          MaxChanges   \* bound: what the user does on the page

Nothing == 0        \* a filter that is not set
Words == 0..2       \* of the search box, or the start date of the statistics
Tags == 0..1        \* of a select: a campaign, an organisation, a country, ...
Types == 0..2       \* of the mapping types: any, some, exactly some; among one's own projects: mapped, favourite, ...
Actions == 1..2     \* "map" and "any"
Searches == [text : Words, tag : Tags, types : Types, action : {Nothing} \cup Actions]

ASSUME BrowsingAssumption == /\ Views \subseteq {"explore", "mine", "tasks", "stats"}
                             /\ ResultPages \in [Searches -> Nat] /\ MaxChanges \in Nat

VARIABLES screen,    \* the page
          url,       \* the search in the URL, with its page
          throttled, \* the search the hook was given last
          preference,\* the action in the store
          known,     \* the user's details have arrived
          options,   \* the options of a select: "loading", "ready", "failed"
          list,      \* what the page shows: the results, of which search, and how many pages
          fetches,   \* requests under way, each heard or cancelled
          layer,     \* the search whose handler the markers on the map have: a set of at most one
          astray,    \* the page in the URL was not chosen among the pages of its search
          changes

browsingVars == <<screen, url, throttled, preference, known, options, list, fetches, layer, astray, changes>>

Blank == [text |-> 0, tag |-> 0, types |-> 0, action |-> 0, page |-> 0]
Search(q, pref) == [text |-> q.text, tag |-> q.tag, types |-> q.types,
                    action |-> IF q.action # Nothing THEN q.action ELSE pref]
\* A page that is not given is the first.
remapParamsToAPI(q, pref) == [search |-> Search(q, pref), page |-> IF q.page = Nothing THEN 1 ELSE q.page]
\* Variant: a new search keeps the page of the old.
KeepsThePage(q) == q
FirstPage(q) == [q EXCEPT !.page = Nothing]
Change == changes < MaxChanges /\ changes' = changes + 1

----------------------------------------------------------------------------
(* The hooks: a request for each search handed on; the older are cancelled.*)

\* Variant: the older requests are still listened to.
StillHeard(rs) == rs
Cancelled(rs) == {[r EXCEPT !.heard = FALSE] : r \in rs}
useProjectsQueryAPI(q, pref) == [asked |-> remapParamsToAPI(q, pref), heard |-> screen \in {"explore", "mine"}]
\* Without the user's id the request is made and its answer is not wanted.
useTaskContributionAPI(q, someone) == [asked |-> remapParamsToAPI(q, Nothing), heard |-> screen = "tasks" /\ someone]
useTasksStatsQueryAPI(q) == [asked |-> remapParamsToAPI(q, Nothing), heard |-> screen = "stats"]

RequestFor(q, pref, someone) ==
  CASE screen = "tasks" -> useTaskContributionAPI(q, someone)
    [] screen = "stats" -> useTasksStatsQueryAPI(q)
    [] OTHER -> useProjectsQueryAPI(q, pref)
Fetch(q, pref, someone) ==
  /\ fetches' = Cancelled(fetches) \cup {RequestFor(q, pref, someone)}
  /\ list' = [list EXCEPT !.isLoading = TRUE, !.isError = FALSE]

\* One's own projects are never all projects: the first rendering sets the
\* URL, yet the hook starts with the search it was rendered with.
RestrictedToMine(q) == IF q.types = Nothing THEN [q EXCEPT !.types = 1] ELSE q

BrowsingInit ==
  /\ screen \in Views /\ known \in (IF screen = "tasks" THEN BOOLEAN ELSE {TRUE})
  /\ throttled \in {Blank} \cup (IF screen = "explore" THEN {[Blank EXCEPT !.action = 2]} ELSE {})
  /\ url = IF screen = "mine" THEN RestrictedToMine(throttled) ELSE throttled
  /\ preference \in (IF screen = "stats" \/ screen = "tasks" THEN {Nothing} ELSE {Nothing, 1})
  /\ options = "loading" /\ layer = {} /\ astray = FALSE /\ changes = 0
  /\ fetches = {RequestFor(throttled, preference, known)}
  /\ list = [isLoading |-> TRUE, isError |-> FALSE, of |-> remapParamsToAPI(Blank, Nothing), pages |-> 0]

UseThrottle ==
  /\ throttled # url /\ throttled' = url /\ Fetch(url, preference, known)
  /\ UNCHANGED <<screen, url, preference, known, options, layer, astray, changes>>

retryFn ==
  /\ list.isError /\ Change /\ Fetch(throttled, preference, known)
  /\ UNCHANGED <<screen, url, throttled, preference, known, options, layer, astray>>

UserKnown ==
  /\ ~known /\ known' = TRUE /\ Fetch(throttled, preference, TRUE)
  /\ UNCHANGED <<screen, url, throttled, preference, options, layer, astray, changes>>

(* The server finds nothing: an empty answer.  It has no such page: 404.   *)
search_projects(asked) ==
  LET n == ResultPages[asked.search] IN
    IF screen = "stats" THEN "found" ELSE IF asked.page > n /\ asked.page > 1 THEN "missing" ELSE "found"
FetchSuccess(r) == [isLoading |-> FALSE, isError |-> FALSE, of |-> r.asked, pages |-> ResultPages[r.asked.search]]
FetchFailure == [list EXCEPT !.isLoading = FALSE, !.isError = TRUE]
\* The markers keep the handler of the search they were first drawn under.
mapboxLayerDefn(results) ==
  IF screen \in {"explore", "mine"} /\ results.pages > 0 /\ layer = {} THEN {FirstPage(url)} ELSE layer
Answer(r) ==
  /\ r \in fetches /\ fetches' = fetches \ {r}
  /\ \/ r.heard /\ search_projects(r.asked) = "found" /\ list' = FetchSuccess(r)
     \/ r.heard /\ list' = FetchFailure       \* 404, another error, or no answer
     \/ ~r.heard /\ UNCHANGED list
  /\ layer' = mapboxLayerDefn(list')
  /\ UNCHANGED <<screen, url, throttled, preference, known, options, astray, changes>>

useTagAPI ==
  /\ options = "loading" /\ options' \in {"ready", "failed"}
  /\ UNCHANGED <<screen, url, throttled, preference, known, list, fetches, layer, astray, changes>>

----------------------------------------------------------------------------
(* What changes the URL.                                                   *)

SetQuery(q) == url' = q /\ UNCHANGED <<screen, throttled, preference, known, options, list, fetches, layer>>

setQuerySearch(word) == SetQuery([FirstPage(url) EXCEPT !.text = word]) /\ astray' = FALSE
ProjectSearchBox == screen \in {"explore", "mine"} /\ Change /\ \E w \in Words : setQuerySearch(w)

\* The reset entry of a select, or its clear button, takes the filter away.
handleTagChange(tag) == SetQuery([FirstPage(url) EXCEPT !.tag = tag]) /\ astray' = FALSE
TagFilterPickerAutocomplete == options = "ready" /\ \E t \in Tags : handleTagChange(t)
ProjectFilterSelect == screen # "tasks" /\ options # "failed" /\ Change /\ TagFilterPickerAutocomplete
FilterButton == screen = "mine" /\ Change /\ SetQuery([FirstPage(url) EXCEPT !.types = 1]) /\ astray' = FALSE
MyProjectsDropdown == screen = "tasks" /\ options = "ready" /\ Change /\ handleTagChange(1)
DifficultyDropdown == screen = "explore" /\ Change /\ \E t \in Tags : handleTagChange(t)
OrderBySelector == screen \in {"explore", "mine"} /\ Change /\ SetQuery(FirstPage(url)) /\ astray' = FALSE
MyTasksOrderDropdown == screen = "tasks" /\ Change /\ SetQuery(FirstPage(url)) /\ astray' = FALSE

\* The mapping types are a parameter of their own: the page stays.
MappingTypeFilterPicker ==
  /\ screen = "explore" /\ Change
  /\ \E types \in IF url.types = Nothing THEN {1, 2} ELSE {Nothing} : SetQuery([url EXCEPT !.types = types])
  /\ astray' = (astray \/ url.page # Nothing)

\* So is the switch for the exact types, which is there when a type is chosen.
ExactTypesToggle ==
  /\ screen = "explore" /\ Change /\ url.types # Nothing /\ SetQuery([url EXCEPT !.types = 3 - url.types])
  /\ astray' = (astray \/ url.page # Nothing)

startDates == {1, 2}
DateRangeFilterSelect == screen = "stats" /\ Change /\ \E d \in startDates : setQuerySearch(d)
DateFilterPicker == screen = "stats" /\ Change /\ \E d \in startDates \cup {Nothing} : setQuerySearch(d)
\* Without a start date the page sets the first of January, and the hook's
\* argument changes with it: the search handed on last is fetched once more.
StartOfYear ==
  /\ screen = "stats" /\ url.text = Nothing /\ url' = [url EXCEPT !.text = 1]
  /\ Fetch(throttled, preference, known)
  /\ UNCHANGED <<screen, throttled, preference, known, options, layer, astray, changes>>

\* Links to the page without a search, or with another.
ClearFilters ==
  /\ screen \in {"explore", "mine", "tasks"} /\ Change /\ astray' = FALSE
  /\ SetQuery(IF screen = "mine" THEN [Blank EXCEPT !.types = 1, !.action = 2] ELSE Blank)
MyTasksLinks == screen = "tasks" /\ Change /\ astray' = FALSE /\ \E s \in Words : SetQuery([Blank EXCEPT !.text = s])

\* Of the pages of the results shown, which need not be of the search in the URL.
changeToPage(page) ==
  /\ SetQuery([url EXCEPT !.page = page])
  /\ astray' = (page > 1 /\ list.of.search # Search(url, preference))
ProjectCardPaginator ==
  /\ screen # "stats" /\ ~list.isLoading /\ ~list.isError /\ Change
  /\ \E p \in 1..list.pages : changeToPage(p)

\* The action goes to the store and to the hook at once.  The search in the
\* URL is written twice, the second time with the action it had before.
ProjectsActionFilter ==
  /\ screen = "explore" /\ Change /\ preference' \in Actions
  /\ url' = FirstPage(url) /\ astray' = FALSE
  /\ IF preference' # preference THEN Fetch(throttled, preference', known) ELSE UNCHANGED <<fetches, list>>
  /\ UNCHANGED <<screen, throttled, known, options, layer>>
SetAction ==
  /\ screen = "explore" /\ preference = Nothing /\ preference' \in Actions
  /\ Fetch(throttled, preference', known)
  /\ astray' = (astray \/ (url.page > 1 /\ url.action = Nothing))
  /\ UNCHANGED <<screen, url, throttled, known, options, layer, changes>>

clickOnProjectID(q) == SetQuery([q EXCEPT !.text = 2]) /\ astray' = FALSE
ProjectsMap == screen \in {"explore", "mine"} /\ list.pages > 0 /\ Change /\ \E q \in layer : clickOnProjectID(q)
\* Hidden and shown, the map is a new one.
ShowMapToggle ==
  /\ screen \in {"explore", "mine"} /\ Change /\ layer' = IF list.pages > 0 THEN {FirstPage(url)} ELSE {}
  /\ UNCHANGED <<screen, url, throttled, preference, known, options, list, fetches, astray>>

----------------------------------------------------------------------------
(* The pages, as their components are nested.                              *)

ProjectNav ==
  /\ screen = "explore"
  /\ DifficultyDropdown \/ ProjectsActionFilter \/ SetAction \/ OrderBySelector \/ ClearFilters
     \/ ProjectSearchBox \/ ShowMapToggle
MoreFiltersForm == screen = "explore" /\ (MappingTypeFilterPicker \/ ExactTypesToggle \/ ProjectFilterSelect)
MyProjectNav ==
  screen = "mine" /\ (ProjectSearchBox \/ FilterButton \/ ProjectFilterSelect \/ OrderBySelector
                       \/ ClearFilters \/ ShowMapToggle)
ProjectSearchResults == screen \in {"explore", "mine"} /\ retryFn
ProjectsPage == ProjectNav \/ MoreFiltersForm \/ ProjectSearchResults \/ ProjectCardPaginator \/ ProjectsMap
UserProjectsPage == MyProjectNav \/ ProjectSearchResults \/ ProjectCardPaginator \/ ProjectsMap
TaskResults == screen = "tasks" /\ retryFn
MyTasksNav == MyTasksLinks \/ MyProjectsDropdown \/ MyTasksOrderDropdown \/ (screen = "tasks" /\ ClearFilters)
ContributionsPage == MyTasksNav \/ TaskResults \/ ProjectCardPaginator
TasksStats == screen = "stats" /\ (ProjectFilterSelect \/ DateRangeFilterSelect \/ DateFilterPicker)
Stats == StartOfYear \/ TasksStats \/ (screen = "stats" /\ retryFn)

BrowsingNext ==
  \/ UseThrottle \/ UserKnown \/ useTagAPI \/ \E r \in fetches : Answer(r)
  \/ ProjectsPage \/ UserProjectsPage \/ ContributionsPage \/ Stats

BrowsingSpec == BrowsingInit /\ [][BrowsingNext]_browsingVars

----------------------------------------------------------------------------
\* A page that shows results, and no spinner and no error, shows the results
\* of the search it was given last and of the action in the store; as long
\* as it shows a spinner, an answer it listens to is under way, unless the
\* user is not known yet.  Searches overtake one another: only the hooks'
\* cancelling keeps an early answer that comes late from being shown.
ShownIsAsked ==
  /\ ~list.isLoading /\ ~list.isError =>
       list.of = RequestFor(throttled, preference, known).asked
  /\ list.isLoading /\ known =>
       \E r \in fetches : r.heard /\ r.asked = RequestFor(throttled, preference, known).asked

\* The page in the URL exists among the results of the search in the URL,
\* or it was carried over by the mapping types, or it was chosen among the
\* results of another search before the throttle let this one through.
PageWithinResults ==
  url.page > 1 /\ screen \in {"explore", "mine"} =>
    astray \/ url.page <= ResultPages[Search(url, preference)]
=============================================================================
