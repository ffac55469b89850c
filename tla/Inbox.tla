------------------------------- MODULE Inbox --------------------------------
(***************************************************************************)
(* The messages of one user: the page that lists them, the dialog that     *)
(* shows one (components/notifications, views/notifications.js), and the   *)
(* bell of the header with its badge and its short list of the unread.     *)
(* Messages keep arriving; any answer may come late, and an answer is      *)
(* shown whatever is asked for by then.                                    *)
(***************************************************************************)
EXTENDS Integers, FiniteSets

CONSTANTS PageSize,     \* messages on a page of the list
          MaxMessages,  \* bound: messages that ever arrive
          MaxClicks     \* bound: clicks of the user and counts of the bell

ASSUME InboxAssumption == PageSize \in Nat \ {0} /\ MaxMessages \in Nat /\ MaxClicks \in Nat

VARIABLES box,    \* the server: [arrived, kept, read, checked, cache], messages numbered as they arrive
          inbox,  \* the page and its dialog
          bell,   \* the bell: badge, count, short list
          asks,   \* requests under way
          clicks

inboxVars == <<box, inbox, bell, asks, clicks>>

Messages == 1..MaxMessages
Click == clicks < MaxClicks /\ clicks' = clicks + 1

\* The list of the server, newest first, cut into pages; a page beyond the last is an error.
PageOf(q) ==
  {m \in box.kept : LET newer == Cardinality({x \in box.kept : x > m})
                    IN (q - 1) * PageSize <= newer /\ newer < q * PageSize}
Unread == box.kept \ box.read
\* What is new are the messages since the bell was last rung, read or not.
NewCount == Cardinality({m \in box.kept : m > box.checked})

\* A request keeps what was shown when it was sent; n tells two of a kind apart.
Send(op, ids, q) ==
  \E n \in 1..2 : /\ \A a \in asks : ~(a.op = op /\ a.n = n)
                  /\ \A k \in 1..(n - 1) : \E a \in asks : a.op = op /\ a.n = k
                  /\ asks' = asks \cup {[op |-> op, n |-> n, ids |-> ids, q |-> q, shown |-> inbox.shown,
                                         mixed |-> inbox.mixed, phase |-> "sent", got |-> {}]}
Answered(a, phase, got) == asks' = (asks \ {a}) \cup {[a EXCEPT !.phase = phase, !.got = got]}

InboxInit ==
  /\ \E n \in Messages : box = [arrived |-> n, kept |-> 1..n, read |-> {}, checked |-> 0, cache |-> {}]
  /\ inbox = [q |-> 1, shown |-> {}, loading |-> TRUE, error |-> FALSE, selected |-> {}, open |-> 0, mixed |-> FALSE]
  /\ bell = [badge |-> FALSE, count |-> 0, mini |-> {}, out |-> FALSE]
  /\ asks = {[op |-> "list", n |-> 1, ids |-> {}, q |-> 1, shown |-> {}, mixed |-> FALSE, phase |-> "sent", got |-> {}]}
  /\ clicks = 0

----------------------------------------------------------------------------
(* The server.                                                             *)

Arrive ==
  /\ box.arrived < MaxMessages
  /\ box' = [box EXCEPT !.arrived = @ + 1, !.kept = @ \cup {box.arrived + 1}]
  /\ UNCHANGED <<inbox, bell, asks, clicks>>
\* The count of the new messages is kept for thirty seconds.
CacheExpires ==
  /\ box.cache # {} /\ box' = [box EXCEPT !.cache = {}]
  /\ UNCHANGED <<inbox, bell, asks, clicks>>
has_user_new_messages == IF box.cache # {} THEN box.cache ELSE {NewCount}

\* Reading a message marks it; a message that is gone is an error.
ServeInbox(a) ==
  /\ a \in asks /\ a.phase = "sent"
  /\ CASE a.op = "list" -> /\ Answered(a, IF a.q > 1 /\ PageOf(a.q) = {} THEN "failed" ELSE "done", PageOf(a.q))
                           /\ UNCHANGED box
       [] a.op = "read" /\ a.ids \subseteq box.kept ->
            box' = [box EXCEPT !.read = @ \cup a.ids] /\ Answered(a, "done", {})
       [] a.op \in {"read", "delete"} /\ ~(a.ids \subseteq box.kept) ->
            UNCHANGED box /\ Answered(a, "failed", {})
       [] a.op = "delete" /\ a.ids \subseteq box.kept ->
            box' = [box EXCEPT !.kept = @ \ a.ids] /\ Answered(a, "done", {})
       [] a.op = "bulk" -> box' = [box EXCEPT !.kept = @ \ a.ids] /\ Answered(a, "done", {})
       [] a.op = "count" -> box' = [box EXCEPT !.cache = has_user_new_messages] /\ Answered(a, "done", has_user_new_messages)
       [] a.op = "mini" -> UNCHANGED box /\ Answered(a, "done", Unread)
       [] a.op = "ring" -> box' = [box EXCEPT !.checked = box.arrived] /\ asks' = asks \ {a}
  /\ UNCHANGED <<inbox, bell, clicks>>

----------------------------------------------------------------------------
(* The page of messages.                                                   *)

\* The cards are taken down while a list is loading, and what is ticked goes with them.
KeepTicked(ticked) == ticked
WhileLoading(ticked) == {}
LoadPage(q) ==
  /\ inbox' = [inbox EXCEPT !.q = q, !.loading = TRUE, !.selected = WhileLoading(@), !.mixed = FALSE]
  /\ Send("list", {}, q)

\* A filter, an order, another page, the button to retry.
changeQuery(q) ==
  /\ Click /\ inbox.open = 0 /\ (q # inbox.q \/ inbox.error \/ inbox.shown = {}) /\ LoadPage(q)
  /\ UNCHANGED <<box, bell>>

\* Any answer ends the loading.  One that comes after that replaces the cards without taking them down:
\* the ticks of the list before it stay (mixed).  An error, once shown, stays.
ListLoaded(a) ==
  /\ a \in asks /\ a.op = "list" /\ a.phase # "sent" /\ asks' = asks \ {a}
  /\ inbox' = IF a.phase = "failed" THEN [inbox EXCEPT !.loading = FALSE, !.error = TRUE]
              ELSE [inbox EXCEPT !.loading = FALSE, !.shown = a.got,
                                 !.mixed = @ \/ (~inbox.loading /\ inbox.selected # {})]
  /\ UNCHANGED <<box, bell, clicks>>

Cards == inbox.open = 0 /\ ~inbox.loading
CheckBox(m) ==
  /\ Click /\ Cards /\ m \in inbox.shown
  /\ inbox' = [inbox EXCEPT !.selected = IF m \in @ THEN @ \ {m} ELSE @ \cup {m}]
  /\ UNCHANGED <<box, bell, asks>>
SelectAll ==
  /\ Click /\ Cards /\ inbox.shown # {}
  /\ inbox' = [inbox EXCEPT !.selected = IF Cardinality(@) = Cardinality(inbox.shown) THEN {} ELSE inbox.shown]
  /\ UNCHANGED <<box, bell, asks>>
DeleteNotificationsButton ==
  /\ Click /\ Cards /\ inbox.selected # {} /\ Send("bulk", inbox.selected, 0)
  /\ UNCHANGED <<box, inbox, bell>>

\* One card: mark it as read, open it (which marks it, too), or delete it.
setMessageAsRead(m) ==
  /\ Click /\ Cards /\ m \in inbox.shown /\ Send("read", {m}, 0)
  /\ UNCHANGED <<box, inbox, bell>>
openMessage(m) ==
  /\ Click /\ Cards /\ m \in inbox.shown /\ inbox' = [inbox EXCEPT !.open = m] /\ Send("read", {m}, 0)
  /\ UNCHANGED <<box, bell>>
deleteNotification(m) ==
  /\ Click /\ Cards /\ m \in inbox.shown /\ Send("delete", {m}, 0)
  /\ UNCHANGED <<box, inbox, bell>>
\* Each of them loads the list again once it succeeded; after a deletion the ticks lose what was deleted.
CardAnswered(a) ==
  /\ a \in asks /\ a.op \in {"read", "delete", "bulk"} /\ a.q = 0 /\ a.phase # "sent"
  /\ IF a.phase = "failed" THEN asks' = asks \ {a} /\ UNCHANGED inbox
     ELSE \E n \in 1..2 :
            /\ \A b \in asks : ~(b.op = "list" /\ b.n = n)
            /\ \A k \in 1..(n - 1) : \E b \in asks : b.op = "list" /\ b.n = k
            /\ asks' = (asks \ {a}) \cup {[op |-> "list", n |-> n, ids |-> {}, q |-> inbox.q, shown |-> inbox.shown,
                                           mixed |-> FALSE, phase |-> "sent", got |-> {}]}
            /\ inbox' = [inbox EXCEPT !.loading = TRUE, !.selected = WhileLoading(@), !.mixed = FALSE]
  /\ UNCHANGED <<box, bell, clicks>>

\* The dialog loads its message; deleting there closes it and leaves the list behind it as it was.
deleteInDialog ==
  /\ Click /\ inbox.open # 0 /\ Send("delete", {inbox.open}, 1)
  /\ UNCHANGED <<box, inbox, bell>>
DialogAnswered(a) ==
  /\ a \in asks /\ a.op = "delete" /\ a.q = 1 /\ a.phase # "sent" /\ asks' = asks \ {a}
  /\ inbox' = IF a.phase = "done" THEN [inbox EXCEPT !.open = 0] ELSE inbox
  /\ UNCHANGED <<box, bell, clicks>>
CloseDialog ==
  /\ Click /\ inbox.open # 0 /\ inbox' = [inbox EXCEPT !.open = 0]
  /\ UNCHANGED <<box, bell, asks>>

----------------------------------------------------------------------------
(* The bell: the new messages are counted every thirty seconds; a click    *)
(* with the badge on loads the short list, tells the server, and takes     *)
(* the badge off.                                                          *)

PollCount ==
  /\ Click /\ (\A a \in asks : a.op # "count") /\ Send("count", {}, 0)
  /\ UNCHANGED <<box, inbox, bell>>
Counted(a) ==
  /\ a \in asks /\ a.op = "count" /\ a.phase = "done" /\ asks' = asks \ {a}
  /\ bell' = LET n == CHOOSE x \in a.got : TRUE IN
             [bell EXCEPT !.count = n, !.badge = n > 0]
  /\ UNCHANGED <<box, inbox, clicks>>
\* A new request for the short list cancels the one before.
SendFromBell(ops) ==
  asks' = {a \in asks : ~(a.op = "mini" /\ "mini" \in ops)}
          \cup {[op |-> op, n |-> 1, ids |-> {}, q |-> 0, shown |-> {}, mixed |-> FALSE,
                 phase |-> "sent", got |-> {}] : op \in ops}
handleBellClick ==
  /\ Click /\ bell' = [bell EXCEPT !.out = ~@, !.badge = FALSE]
  /\ SendFromBell(IF bell.badge THEN {"mini", "ring"} ELSE {})
  /\ UNCHANGED <<box, inbox>>
MiniLoaded(a) ==
  /\ a \in asks /\ a.op = "mini" /\ a.phase = "done" /\ asks' = asks \ {a}
  /\ bell' = [bell EXCEPT !.mini = a.got]
  /\ UNCHANGED <<box, inbox, clicks>>
RefreshMini ==
  /\ Click /\ bell.out /\ bell.count # Cardinality(bell.mini) /\ SendFromBell({"mini"})
  /\ UNCHANGED <<box, inbox, bell>>

NotificationCard == \E m \in Messages : CheckBox(m) \/ setMessageAsRead(m) \/ openMessage(m) \/ deleteNotification(m)
NotificationResults ==
  \/ NotificationCard \/ SelectAll \/ DeleteNotificationsButton
  \/ \E a \in asks : ListLoaded(a) \/ CardAnswered(a)
NotificationBodyCard == deleteInDialog \/ CloseDialog \/ \E a \in asks : DialogAnswered(a)
NotificationBell == PollCount \/ handleBellClick \/ RefreshMini \/ \E a \in asks : Counted(a) \/ MiniLoaded(a)

InboxNext ==
  \/ Arrive \/ CacheExpires \/ (\E q \in 1..2 : changeQuery(q)) \/ NotificationResults \/ NotificationBodyCard \/ NotificationBell
  \/ \E a \in asks : ServeInbox(a)

InboxSpec == InboxInit /\ [][InboxNext]_inboxVars

----------------------------------------------------------------------------
\* The button that deletes the ticked messages deletes messages the user sees: what was ticked on a page
\* goes when the page does, by a change of query, a retry or the deletion of another card, however
\* late the answers.  The exception is a list that replaced another without loading being shown.
DeletesWhatIsShown == \A a \in asks : a.op = "bulk" => a.ids \subseteq a.shown \/ a.mixed
=============================================================================
