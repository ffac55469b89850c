--------------------------- MODULE TeamMembership ---------------------------
(***************************************************************************)
(* A team of people: its rows on the server, the page on which Boss        *)
(* manages it (views/teams.js with teamsAndOrgs/members.js), while Me      *)
(* joins and leaves.  The page shows lists of its own, saves them as       *)
(* differences from the team it last loaded, request by request, and       *)
(* reloads; any answer may come late.                                      *)
(***************************************************************************)
EXTENDS Integers

CONSTANTS Users, Boss, Me,
          OrgManagers,  \* managers of the team's organisation: they manage the team without a row
          JoinMethods,  \* the join methods the team may be created with or given
          Chosen,       \* the managers and the members a team may be created with
          MaxSaves,     \* bound: presses whose requests are under way at a time
          MaxPresses    \* bound: presses of buttons on the page, and requests of Me

ASSUME PeopleAssumption == {Boss, Me} \cup OrgManagers \subseteq Users /\ MaxPresses \in Nat /\ MaxSaves \in Nat \ {0}

VARIABLES team,    \* the server: [join, rows], a row of a user is [function, active, notify]
          editor,  \* the EditTeam (before: CreateTeam) page of Boss
          calls,   \* requests under way
          trail,   \* who was let in, who was asked to go, whom a list lost unasked, whose row the
           \*   switch of the notifications deleted, who lost an active row
          presses

teamVars == <<team, editor, calls, trail, presses>>

Functions == {"MANAGER", "MEMBER"}
Row(f, a) == [function |-> f, active |-> a, notify |-> FALSE]
Without(rows, gone) == [u \in DOMAIN rows \ gone |-> rows[u]]
With(rows, u, row) == [v \in DOMAIN rows \cup {u} |-> IF v = u THEN row ELSE rows[v]]

\* filterActiveManagers, filterActiveMembers and filterInactiveMembersAndManagers.
Active(rows, f) == {u \in DOMAIN rows : rows[u].active /\ rows[u].function = f}
Inactive(rows) == {u \in DOMAIN rows : ~rows[u].active}
Anybody(rows, f) == {u \in DOMAIN rows : rows[u].active}
AllAbsent(rows, shown, f) == Anybody(rows, f) \ shown
usersRemoved(rows, shown, f) == Active(rows, f) \ shown
getMembersDiff(rows, shown, f) ==
  [usersAdded |-> shown \ Active(rows, f), usersRemoved |-> usersRemoved(rows, shown, f)]

----------------------------------------------------------------------------
(* The server.  Each operation yields the rows it leaves and whether it    *)
(* was done; one that is refused leaves the rows alone.                    *)

is_user_team_manager(u) == u \in OrgManagers \cup Active(team.rows, "MANAGER")
Done(rows) == [ok |-> TRUE, rows |-> rows]
Refused == [ok |-> FALSE, rows |-> team.rows]

BecomesActive(u) == is_user_team_manager(u) \/ team.join = "ANY"
request_to_join_team(u) ==
  IF u \in DOMAIN team.rows \/ (~is_user_team_manager(u) /\ team.join = "BY_INVITE") THEN Refused
  ELSE Done(With(team.rows, u, Row("MEMBER", BecomesActive(u))))

add_user_to_team(by, u, role) ==
  IF ~is_user_team_manager(by) THEN Refused
  ELSE IF u \in DOMAIN team.rows
       THEN Done(With(team.rows, u, [team.rows[u] EXCEPT !.function = role, !.active = TRUE]))
       ELSE Done(With(team.rows, u, Row(role, TRUE)))

leave_team(by, u) ==
  IF (is_user_team_manager(by) \/ by = u) /\ u \in DOMAIN team.rows
  THEN Done(Without(team.rows, {u})) ELSE Refused

accept_reject_join_request(by, u, action) ==
  IF ~is_user_team_manager(by) \/ u \notin DOMAIN team.rows THEN Refused
  ELSE Done(IF action = "accept" THEN [team.rows EXCEPT ![u].active = TRUE]
            ELSE Without(team.rows, {u}))

\* Team.update: a list of members in the payload is the whole list, all other rows are deleted; one
\* who has no row gets an inactive one.  An empty list, that of a payload without members, is skipped.
update_team(by, members, notify) ==
  IF ~is_user_team_manager(by) THEN Refused
  ELSE IF members = {} THEN Done(team.rows)
  ELSE Done([u \in members |-> IF u \in DOMAIN team.rows
                               THEN [team.rows[u] EXCEPT !.notify = notify] ELSE Row("MANAGER", FALSE)])

Outcome(c) ==
  CASE c.kind = "load" -> Done(team.rows)
    [] c.kind = "join" -> request_to_join_team(c.by)
    [] c.kind = "add" -> add_user_to_team(c.by, c.user, c.arg)
    [] c.kind = "leave" -> leave_team(c.by, c.user)
    [] c.kind = "answer" -> accept_reject_join_request(c.by, c.user, c.arg)
    [] c.kind = "update" -> update_team(c.by, {}, FALSE)
    [] c.kind = "notify" -> update_team(c.by, {c.user}, c.arg = "on")

\* A request is served, or never arrives.  Only the answers the page waits for come back.
Serve(c) ==
  /\ c \in calls /\ c.phase = "sent"
  /\ \E o \in IF c.kind = "load" THEN {Outcome(c)} ELSE {Outcome(c), Refused} :
       /\ team' = [join |-> IF c.kind = "update" /\ o.ok THEN c.arg ELSE team.join, rows |-> o.rows]
       /\ calls' = (calls \ {c}) \cup
            (IF c.awaited THEN {[c EXCEPT !.phase = IF o.ok THEN "done" ELSE "failed",
                                          !.got = IF c.kind = "load" THEN team ELSE {}]}
             ELSE {})
       /\ trail' = [trail EXCEPT
            !.gone = @ \cup (Anybody(team.rows, "MEMBER") \ Anybody(o.rows, "MEMBER")),
            !.letIn = @ \cup IF c.kind = "join" /\ (team.join = "ANY" \/ is_user_team_manager(c.by))
                             THEN {c.by} ELSE {},
            !.wiped = @ \cup IF c.kind = "notify" THEN DOMAIN team.rows \ DOMAIN o.rows ELSE {}]
  /\ UNCHANGED <<editor, presses>>

----------------------------------------------------------------------------
(* EditTeam, the page of Boss.  The requests of one save share a number.   *)

Numbers == 1..MaxSaves
Free == {n \in Numbers : \A c \in calls : c.n # n}
Call(kind, by, user, arg, n, awaited) ==
  [kind |-> kind, by |-> by, user |-> user, arg |-> arg, n |-> n, awaited |-> awaited,
   of |-> {}, phase |-> "sent", got |-> {}]
Load(n) == Call("load", Boss, Boss, "", n, TRUE)
Numbered(Requests(_)) ==
  \E n \in Free : (\A k \in Free : n <= k) /\ calls' = calls \cup Requests(n)
Press == presses < MaxPresses /\ presses' = presses + 1

Loaded == editor.seen # {}
Rows == IF Loaded THEN (CHOOSE t \in editor.seen : TRUE).rows ELSE <<>>
SeenJoin == IF Loaded THEN (CHOOSE t \in editor.seen : TRUE).join ELSE "unknown"

TeamInit ==
  /\ \E j \in JoinMethods : team = [join |-> j, rows |-> <<>>]
  /\ editor = [new |-> TRUE, seen |-> {}, shown |-> [f \in Functions |-> {}],
               editMode |-> [f \in Functions |-> FALSE], backup |-> [f \in Functions |-> {}],
               requests |-> {}, cut |-> [f \in Functions |-> {}]]
  /\ calls = {}
  /\ trail = [letIn |-> {}, asked |-> {}, lost |-> {}, wiped |-> {}, gone |-> {}]
  /\ presses = 0

\* CreateTeam: the creator becomes a manager, everybody else chosen is asked for by a request of his
\* own that nobody awaits, and the page goes on to EditTeam, which loads the team.
createTeam(managers, members) ==
  /\ editor.new /\ editor' = [editor EXCEPT !.new = FALSE]
  /\ team' = [team EXCEPT !.rows = [u \in {Boss} |-> Row("MANAGER", TRUE)]]
  /\ calls' = {Call("add", Boss, u, "MANAGER", 1, FALSE) : u \in managers \ {Boss}}
              \cup {Call("add", Boss, u, "MEMBER", 1, FALSE) : u \in members}
              \cup {Load(1)}
  /\ trail' = [trail EXCEPT !.letIn = managers \cup members \cup {Boss}]
  /\ UNCHANGED <<presses>>

\* Edit, then add and remove people: removing needs two in the list.  The backup is taken by the first Edit.
EditModeControl(f) ==
  /\ Press /\ ~editor.new /\ ~editor.editMode[f]
  /\ editor' = [editor EXCEPT !.editMode[f] = TRUE,
                              !.backup[f] = IF @ = {} THEN {editor.shown[f]} ELSE @]
  /\ UNCHANGED <<team, calls, trail>>

addMembers(f, u) ==
  /\ Press /\ editor.editMode[f] /\ u \notin editor.shown[f]
  /\ editor' = [editor EXCEPT !.shown[f] = @ \cup {u}, !.cut[f] = @ \ {u}]
  /\ trail' = [trail EXCEPT !.letIn = @ \cup {u}]
  /\ UNCHANGED <<team, calls>>

removeMembers(f, u) ==
  /\ Press /\ editor.editMode[f] /\ u \in editor.shown[f] /\ editor.shown[f] # {u}
  /\ editor' = [editor EXCEPT !.shown[f] = @ \ {u}, !.cut[f] = @ \cup {u}]
  /\ UNCHANGED <<team, calls, trail>>

\* Cancel puts the backup back, however old it is.
Cancel(f) ==
  /\ Press /\ editor.editMode[f]
  /\ LET restored == UNION editor.backup[f] IN
       /\ editor' = [editor EXCEPT !.editMode[f] = FALSE, !.shown[f] = restored, !.cut[f] = {}]
       /\ trail' = [trail EXCEPT !.lost = @ \cup (Active(Rows, f) \ restored)]
  /\ UNCHANGED <<team, calls>>

\* submitMembers with updateManagers or updateMembers: one request per difference.  The managers'
\* requests are not awaited, their list of promises being nested, and the team is loaded at once.
submitMembers(f) ==
  /\ Press /\ editor.editMode[f] /\ Loaded
  /\ editor' = [editor EXCEPT !.editMode[f] = FALSE, !.backup[f] = {editor.shown[f]}, !.cut[f] = {}]
  /\ trail' = [trail EXCEPT !.asked = @ \cup editor.cut[f]]
  /\ LET diff == getMembersDiff(Rows, editor.shown[f], f)
         Requests(n) == {Call("add", Boss, u, f, n, f = "MEMBER") : u \in diff.usersAdded}
                        \cup {Call("leave", Boss, u, f, n, f = "MEMBER") : u \in diff.usersRemoved}
     IN Numbered(LAMBDA n : Requests(n) \cup IF f = "MANAGER" \/ Requests(n) = {}
                                             THEN {Load(n)} ELSE {})
  /\ UNCHANGED <<team>>

\* The answers to the members' requests: a refused addition leaves the list again; when all have
\* come, the team is loaded, unless a removal was refused.
MemberAnswer(c) ==
  /\ c \in calls /\ c.by = Boss /\ c.kind = "add" /\ c.phase \in {"done", "failed"}
  /\ calls' = (calls \ {c}) \cup {[c EXCEPT !.phase = "settled"]}
  /\ IF c.phase = "done" THEN UNCHANGED <<editor, trail>>
     ELSE /\ editor' = [editor EXCEPT !.shown["MEMBER"] = @ \ {c.user}]
          /\ trail' = [trail EXCEPT !.lost = @ \cup ({c.user} \cap Active(Rows, "MEMBER"))]
  /\ UNCHANGED <<team, presses>>

MembersSaved(n) ==
  LET batch == {c \in calls : c.n = n /\ c.by = Boss /\ c.kind \in {"add", "leave"} /\ c.awaited} IN
  /\ batch # {}
  /\ \A c \in batch : c.phase = "settled" \/ (c.kind = "leave" /\ c.phase # "sent")
  /\ calls' = (calls \ batch) \cup
              (IF \E c \in batch : c.phase = "failed" THEN {} ELSE {Load(n)})
  /\ UNCHANGED <<team, editor, trail, presses>>

\* The two effects on the team: the lists follow whatever was loaded, the requests only the first time.
TeamLoaded(c) ==
  /\ c \in calls /\ c.kind = "load" /\ c.phase = "done" /\ calls' = calls \ {c}
  /\ editor' = [editor EXCEPT !.seen = {c.got},
                              !.shown = [f \in Functions |-> Active(c.got.rows, f)],
                              !.requests = IF Loaded THEN @ ELSE Inactive(c.got.rows)]
  /\ UNCHANGED <<team, trail, presses>>

\* updateTeam sends the form, or the switch of the notifications, and loads the team at once.
updateTeam(kind, arg) ==
  /\ Press /\ ~editor.new
  /\ Numbered(LAMBDA n : {Call(kind, Boss, Boss, arg, n, FALSE), Load(n)})
  /\ UNCHANGED <<team, editor, trail>>
TeamForm(j) == Loaded /\ j # SeenJoin /\ updateTeam("update", j)
handleJoinRequestNotificationsChange ==
  /\ SeenJoin = "BY_REQUEST" /\ Boss \in editor.shown["MANAGER"]
  /\ \E checked \in {"on", "off"} : updateTeam("notify", checked)

\* Accept or reject a request; the answer keeps the requests known when it was pressed, without this one.
acceptRejectRequest(u, action) ==
  /\ Press /\ u \in editor.requests
  /\ Numbered(LAMBDA n : {[Call("answer", Boss, u, action, n, TRUE) EXCEPT !.of = editor.requests]})
  /\ trail' = [trail EXCEPT !.letIn = @ \cup IF action = "accept" THEN {u} ELSE {},
                            !.asked = @ \cup IF action = "reject" THEN {u} ELSE {}]
  /\ UNCHANGED <<team, editor>>
RequestAnswered(c) ==
  /\ c \in calls /\ c.kind = "answer" /\ c.phase \in {"done", "failed"} /\ calls' = calls \ {c}
  /\ editor' = IF c.phase = "failed" THEN editor
               ELSE [editor EXCEPT !.requests = c.of \ {c.user},
                                   !.shown["MEMBER"] = IF c.arg = "accept" THEN @ \cup {c.user} ELSE @]
  /\ UNCHANGED <<team, trail, presses>>

----------------------------------------------------------------------------
(* Me.  TeamDetail, the page on which to join and leave, never shows: it   *)
(* reads the token by state.auth.get, which the store does not have, and   *)
(* the whole application goes over to its fallback.  What Me asks for is   *)
(* asked for through the API.                                              *)

ApiCall(kind) == Press /\ ~editor.new /\ Numbered(LAMBDA n : {Call(kind, Me, Me, "", n, FALSE)})
JoinTeam == ApiCall("join") /\ UNCHANGED <<team, editor, trail>>
LeaveTeam ==
  /\ ApiCall("leave") /\ trail' = [trail EXCEPT !.asked = @ \cup {Me}]
  /\ UNCHANGED <<team, editor>>

Members(f) ==
  \/ EditModeControl(f) \/ Cancel(f) \/ submitMembers(f)
  \/ \E u \in Users : addMembers(f, u) \/ removeMembers(f, u)
JoinRequests ==
  \/ handleJoinRequestNotificationsChange
  \/ \E u \in Users, a \in {"accept", "reject"} : acceptRejectRequest(u, a)
EditTeam ==
  \/ \E f \in Functions : Members(f)
  \/ \E j \in JoinMethods : TeamForm(j)
  \/ JoinRequests
  \/ \E n \in Numbers : MembersSaved(n)
  \/ \E c \in calls : MemberAnswer(c) \/ TeamLoaded(c) \/ RequestAnswered(c)

TeamNext ==
  \/ \E c \in Chosen : createTeam(c.managers, c.members)
  \/ EditTeam \/ JoinTeam \/ LeaveTeam
  \/ \E c \in calls : Serve(c)

TeamSpec == TeamInit /\ [][TeamNext]_teamVars

----------------------------------------------------------------------------
\* Nobody loses an active place in the team unless he left it or was removed or rejected by name: a
\* save of one list, computed from a team loaded earlier, takes nobody of the other list along, nor
\* somebody who came meanwhile.  Two ways in which it happens all the same are named: the switch of
\* the notifications deletes the rows of others (wiped), and a list put back from an old backup, or
\* shortened by the late refusal of an addition, lacks people the team has (lost).  And whoever is an
\* active member was chosen by the manager, accepted by the manager, or joined a team that anybody may
\* join: in whatever order requests, withdrawals and answers are served, a request alone opens nothing.
NobodyLeavesUnasked == trail.gone \subseteq trail.asked \cup trail.lost \cup trail.wiped
EveryMemberWasLetIn == Anybody(team.rows, "MEMBER") \subseteq trail.letIn
MembershipIsAgreed == NobodyLeavesUnasked /\ EveryMemberWasLetIn

\* What a comment of team.py says of the switch: it concerns the notifications, nobody's membership.
SwitchKeepsMembers == trail.wiped = {}
=============================================================================
