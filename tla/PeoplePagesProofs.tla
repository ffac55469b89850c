-------------------------- MODULE PeoplePagesProofs --------------------------
(***************************************************************************)
(* The pages around the projects, each for any of its parameters and any   *)
(* number of clicks, loads and late answers: the inbox, the session and    *)
(* its settings, the directory of the users, the catalogues of the         *)
(* administrators, the lists that a search finds and the members of a team. *)
(***************************************************************************)
EXTENDS TeamMembership, Catalogue, Inbox, Browsing, Session, UserDirectory, TLAPS, FiniteSetTheorems

----------------------------------------------------------------------------
(***************************************************************************)
(* The inbox: the button under the list of messages deletes messages that  *)
(* are shown.                                                              *)
(***************************************************************************)

InboxOperations == {"list", "read", "delete", "bulk", "count", "mini", "ring"}

\* What the state consists of, as far as the proof looks into it.
InboxShape ==
  /\ DOMAIN inbox = {"q", "shown", "loading", "error", "selected", "open", "mixed"}
  /\ inbox.loading \in BOOLEAN /\ inbox.mixed \in BOOLEAN
  /\ \A a \in asks : /\ DOMAIN a = {"op", "n", "ids", "q", "shown", "mixed", "phase", "got"}
                      /\ a.op \in InboxOperations

\* What is ticked is shown, or marked as left over from another list; while a list is loading nothing is.
Ticks == /\ inbox.selected \subseteq inbox.shown \/ inbox.mixed
         /\ inbox.loading => inbox.selected = {}

InboxInv == InboxShape /\ Ticks /\ DeletesWhatIsShown

\* A request under way, seen by the proof: it has the fields of one, and deletes what was shown to be ticked.
Sound(a) == /\ DOMAIN a = {"op", "n", "ids", "q", "shown", "mixed", "phase", "got"}
            /\ a.op \in InboxOperations
            /\ a.op = "bulk" => a.ids \subseteq a.shown \/ a.mixed

----------------------------------------------------------------------------
\* The requests are sound one by one.
LEMMA SoundAsks == (InboxShape /\ DeletesWhatIsShown) <=>
  /\ DOMAIN inbox = {"q", "shown", "loading", "error", "selected", "open", "mixed"}
  /\ inbox.loading \in BOOLEAN /\ inbox.mixed \in BOOLEAN
  /\ \A a \in asks : Sound(a)
  BY DEF InboxShape, DeletesWhatIsShown, Sound

\* A step after which every request is an old one or sound, on a page that keeps its ticks in order, is safe.
LEMMA InboxStepKeeps ==
  ASSUME InboxInv, \A a \in asks' : a \in asks \/ Sound(a),
         DOMAIN inbox' = DOMAIN inbox, inbox'.loading \in BOOLEAN, inbox'.mixed \in BOOLEAN, Ticks'
  PROVE  InboxInv'
  BY SoundAsks DEF InboxInv, InboxShape, DeletesWhatIsShown, Sound

\* An answer changes neither what a request asks for nor what was shown.
LEMMA AnswerIsSound ==
  ASSUME InboxInv, NEW a \in asks, NEW phase, NEW got, Answered(a, phase, got)
  PROVE  \A b \in asks' : b \in asks \/ Sound(b)
<1> DEFINE r == [a EXCEPT !.phase = phase, !.got = got]
<1>1. Sound(a)
  BY SoundAsks DEF InboxInv
<1>2. DOMAIN r = DOMAIN a /\ r.op = a.op /\ r.ids = a.ids /\ r.shown = a.shown /\ r.mixed = a.mixed
  BY <1>1 DEF Sound
<1>3. asks' = (asks \ {a}) \cup {r}
  BY DEF Answered
<1> HIDE DEF r
<1>4. Sound(r)
  BY <1>1, <1>2 DEF Sound
<1> QED BY <1>3, <1>4

\* A request other than a deletion of what is ticked is sound, and so is that of what is.
LEMMA SendIsSound ==
  ASSUME NEW op \in InboxOperations, NEW ids, NEW q, Send(op, ids, q),
         op = "bulk" => ids \subseteq inbox.shown \/ inbox.mixed
  PROVE  \A b \in asks' : b \in asks \/ Sound(b)
<1>1. PICK n \in 1..2 : asks' = asks \cup {[op |-> op, n |-> n, ids |-> ids, q |-> q, shown |-> inbox.shown,
                                           mixed |-> inbox.mixed, phase |-> "sent", got |-> {}]}
  BY DEF Send
<1> DEFINE r == [op |-> op, n |-> n, ids |-> ids, q |-> q, shown |-> inbox.shown,
                 mixed |-> inbox.mixed, phase |-> "sent", got |-> {}]
<1>2. Sound(r)
  BY DEF Sound
<1> QED BY <1>1, <1>2

\* The page starts with one list asked for and nothing ticked.
LEMMA InboxStarts == ASSUME InboxInit PROVE InboxInv
<1>1. \A a \in asks : a.op = "list" /\ DOMAIN a = {"op", "n", "ids", "q", "shown", "mixed", "phase", "got"}
  BY DEF InboxInit
<1>2. /\ DOMAIN inbox = {"q", "shown", "loading", "error", "selected", "open", "mixed"}
      /\ inbox.loading = TRUE /\ inbox.mixed = FALSE /\ inbox.selected = {}
  BY DEF InboxInit
<1> QED BY <1>1, <1>2 DEF InboxInv, InboxShape, Ticks, DeletesWhatIsShown, InboxOperations

----------------------------------------------------------------------------
\* A page that is not touched keeps its ticks.
LEMMA PageUntouched == ASSUME InboxInv, inbox' = inbox, \A a \in asks' : a \in asks \/ Sound(a) PROVE InboxInv'
<1>1. /\ DOMAIN inbox' = DOMAIN inbox /\ inbox'.loading \in BOOLEAN /\ inbox'.mixed \in BOOLEAN /\ Ticks'
  BY DEF InboxInv, InboxShape, Ticks
<1> QED BY <1>1, InboxStepKeeps

\* The server answers; it never sends anything by itself.
LEMMA InboxServeKeeps == ASSUME InboxInv, NEW a \in asks, ServeInbox(a) PROVE InboxInv'
<1>1. inbox' = inbox
  BY DEF ServeInbox
<1>2. CASE a.op = "ring"
  BY <1>1, <1>2, PageUntouched DEF ServeInbox
<1>3. CASE a.op # "ring"
  <2>1. a.op \in InboxOperations
    BY DEF InboxInv, InboxShape
  <2>2. \E phase, got : Answered(a, phase, got)
    BY <1>3, <2>1 DEF ServeInbox, InboxOperations
  <2> QED BY <1>1, <2>2, AnswerIsSound, PageUntouched
<1> QED BY <1>2, <1>3

\* A new query takes the ticks off with the cards.
LEMMA QueryKeeps == ASSUME InboxInv, NEW q, changeQuery(q) PROVE InboxInv'
<1>1. /\ inbox' = [inbox EXCEPT !.q = q, !.loading = TRUE, !.selected = {}, !.mixed = FALSE]
      /\ Send("list", {}, q)
  BY DEF changeQuery, LoadPage, WhileLoading
<1>2. /\ DOMAIN inbox' = DOMAIN inbox /\ inbox'.loading = TRUE /\ inbox'.mixed = FALSE /\ inbox'.selected = {}
  BY <1>1 DEF InboxInv, InboxShape
<1>3. Ticks'
  BY <1>2 DEF Ticks
<1>4. \A b \in asks' : b \in asks \/ Sound(b)
  BY <1>1, SendIsSound DEF InboxOperations
<1> QED BY <1>2, <1>3, <1>4, InboxStepKeeps

\* A list that comes while none is loading leaves the ticks and marks them.
LEMMA ListKeeps == ASSUME InboxInv, NEW a \in asks, ListLoaded(a) PROVE InboxInv'
<1>1. asks' = asks \ {a}
  BY DEF ListLoaded
<1>2. CASE a.phase = "failed"
  <2>1. inbox' = [inbox EXCEPT !.loading = FALSE, !.error = TRUE]
    BY <1>2 DEF ListLoaded
  <2>2. /\ DOMAIN inbox' = DOMAIN inbox /\ inbox'.loading = FALSE /\ inbox'.mixed = inbox.mixed
        /\ inbox'.selected = inbox.selected /\ inbox'.shown = inbox.shown
    BY <2>1 DEF InboxInv, InboxShape
  <2>3. Ticks' /\ inbox'.mixed \in BOOLEAN
    BY <2>2 DEF InboxInv, Ticks, InboxShape
  <2> QED BY <1>1, <2>2, <2>3, InboxStepKeeps
<1>3. CASE a.phase # "failed"
  <2> DEFINE over == inbox.mixed \/ (~inbox.loading /\ inbox.selected # {})
  <2>1. inbox' = [inbox EXCEPT !.loading = FALSE, !.shown = a.got, !.mixed = over]
    BY <1>3 DEF ListLoaded
  <2>2. over \in BOOLEAN
    BY DEF InboxInv, InboxShape
  <2>3. ~over => inbox.selected = {} \/ inbox.loading
    OBVIOUS
  <2> HIDE DEF over
  <2>4. /\ DOMAIN inbox' = DOMAIN inbox /\ inbox'.loading = FALSE /\ inbox'.mixed = over
        /\ inbox'.selected = inbox.selected
    BY <2>1 DEF InboxInv, InboxShape
  <2>5. Ticks'
    BY <2>2, <2>3, <2>4 DEF InboxInv, Ticks
  <2> QED BY <1>1, <2>2, <2>4, <2>5, InboxStepKeeps
<1> QED BY <1>2, <1>3

\* Boxes are ticked on cards that are shown.
LEMMA TickKeeps ==
  ASSUME InboxInv, NEW ticked, inbox' = [inbox EXCEPT !.selected = ticked], ~inbox.loading, asks' = asks,
         ticked \subseteq inbox.selected \cup inbox.shown
  PROVE  InboxInv'
<1>1. /\ DOMAIN inbox' = DOMAIN inbox /\ inbox'.loading = inbox.loading /\ inbox'.mixed = inbox.mixed
      /\ inbox'.selected = ticked /\ inbox'.shown = inbox.shown
  BY DEF InboxInv, InboxShape
<1>2. Ticks'
  BY <1>1 DEF InboxInv, Ticks
<1>3. inbox'.loading \in BOOLEAN /\ inbox'.mixed \in BOOLEAN
  BY <1>1 DEF InboxInv, InboxShape
<1> QED BY <1>1, <1>2, <1>3, InboxStepKeeps

\* The dialog opens and closes over the list and leaves it alone.
LEMMA OpenKeeps ==
  ASSUME InboxInv, NEW m, inbox' = [inbox EXCEPT !.open = m], \A a \in asks' : a \in asks \/ Sound(a)
  PROVE  InboxInv'
<1>1. /\ DOMAIN inbox' = DOMAIN inbox /\ inbox'.loading = inbox.loading /\ inbox'.mixed = inbox.mixed
      /\ inbox'.selected = inbox.selected /\ inbox'.shown = inbox.shown
  BY DEF InboxInv, InboxShape
<1>2. Ticks' /\ inbox'.loading \in BOOLEAN /\ inbox'.mixed \in BOOLEAN
  BY <1>1 DEF InboxInv, Ticks, InboxShape
<1> QED BY <1>1, <1>2, InboxStepKeeps

\* What a card or the button did, once done, loads the list again and takes the ticks off.
LEMMA CardKeeps == ASSUME InboxInv, NEW a \in asks, CardAnswered(a) PROVE InboxInv'
<1>1. CASE a.phase = "failed"
  BY <1>1, PageUntouched DEF CardAnswered
<1>2. CASE a.phase # "failed"
  <2>1. PICK n \in 1..2 :
          asks' = (asks \ {a}) \cup {[op |-> "list", n |-> n, ids |-> {}, q |-> inbox.q, shown |-> inbox.shown,
                                      mixed |-> FALSE, phase |-> "sent", got |-> {}]}
    BY <1>2 DEF CardAnswered
  <2> DEFINE r == [op |-> "list", n |-> n, ids |-> {}, q |-> inbox.q, shown |-> inbox.shown,
                   mixed |-> FALSE, phase |-> "sent", got |-> {}]
  <2>2. Sound(r)
    BY DEF Sound, InboxOperations
  <2>3. \A b \in asks' : b \in asks \/ Sound(b)
    BY <2>1, <2>2
  <2>4. inbox' = [inbox EXCEPT !.loading = TRUE, !.selected = {}, !.mixed = FALSE]
    BY <1>2 DEF CardAnswered, WhileLoading
  <2>5. /\ DOMAIN inbox' = DOMAIN inbox /\ inbox'.loading = TRUE /\ inbox'.mixed = FALSE /\ inbox'.selected = {}
    BY <2>4 DEF InboxInv, InboxShape
  <2>6. Ticks'
    BY <2>5 DEF Ticks
  <2> QED BY <2>3, <2>5, <2>6, InboxStepKeeps
<1> QED BY <1>1, <1>2

\* The page of messages.
LEMMA ResultsKeep == ASSUME InboxInv, NotificationResults PROVE InboxInv'
<1>1. ASSUME NEW m, CheckBox(m) PROVE InboxInv'
  <2>1. PICK ticked \in {inbox.selected \ {m}, inbox.selected \cup {m}} : inbox' = [inbox EXCEPT !.selected = ticked]
    BY <1>1 DEF CheckBox
  <2> QED BY <1>1, <2>1, TickKeeps DEF CheckBox, Cards
<1>2. CASE SelectAll
  <2>1. PICK ticked \in {{}, inbox.shown} : inbox' = [inbox EXCEPT !.selected = ticked]
    BY <1>2 DEF SelectAll
  <2> QED BY <1>2, <2>1, TickKeeps DEF SelectAll, Cards
<1>3. CASE DeleteNotificationsButton
  <2>1. Send("bulk", inbox.selected, 0) /\ inbox' = inbox
    BY <1>3 DEF DeleteNotificationsButton
  <2>2. inbox.selected \subseteq inbox.shown \/ inbox.mixed
    BY DEF InboxInv, Ticks
  <2> QED BY <2>1, <2>2, SendIsSound, PageUntouched DEF InboxOperations
<1>4. ASSUME NEW m, setMessageAsRead(m) \/ deleteNotification(m) PROVE InboxInv'
  BY <1>4, SendIsSound, PageUntouched DEF setMessageAsRead, deleteNotification, InboxOperations
<1>5. ASSUME NEW m, openMessage(m) PROVE InboxInv'
  BY <1>5, SendIsSound, OpenKeeps DEF openMessage, InboxOperations
<1> QED BY <1>1, <1>2, <1>3, <1>4, <1>5, ListKeeps, CardKeeps DEF NotificationResults, NotificationCard

\* The dialog.
LEMMA DialogKeeps == ASSUME InboxInv, NotificationBodyCard PROVE InboxInv'
<1>1. CASE deleteInDialog
  BY <1>1, SendIsSound, PageUntouched DEF deleteInDialog, InboxOperations
<1>2. CASE CloseDialog
  BY <1>2, OpenKeeps DEF CloseDialog
<1>3. ASSUME NEW a \in asks, DialogAnswered(a) PROVE InboxInv'
  BY <1>3, OpenKeeps, PageUntouched DEF DialogAnswered
<1> QED BY <1>1, <1>2, <1>3 DEF NotificationBodyCard

\* The bell sends what deletes nothing.
LEMMA BellKeeps == ASSUME InboxInv, NotificationBell PROVE InboxInv'
<1>1. ASSUME NEW ops \in SUBSET {"mini", "ring"}, SendFromBell(ops) PROVE \A b \in asks' : b \in asks \/ Sound(b)
  BY <1>1 DEF SendFromBell, Sound, InboxOperations
<1>2. CASE PollCount
  BY <1>2, SendIsSound, PageUntouched DEF PollCount, InboxOperations
<1>3. CASE handleBellClick
  <2>1. PICK ops \in {{"mini", "ring"}, {}} : SendFromBell(ops)
    BY <1>3 DEF handleBellClick
  <2> QED BY <1>1, <1>3, <2>1, PageUntouched DEF handleBellClick
<1>4. CASE RefreshMini
  BY <1>1, <1>4, PageUntouched DEF RefreshMini
<1>5. ASSUME NEW a \in asks, Counted(a) \/ MiniLoaded(a) PROVE InboxInv'
  BY <1>5, PageUntouched DEF Counted, MiniLoaded
<1> QED BY <1>2, <1>3, <1>4, <1>5 DEF NotificationBell

\* The button that deletes the ticked messages deletes what was shown when it was pressed, unless a list had
\* replaced another without the loading being shown.
THEOREM DeletionCorrect == InboxSpec => []DeletesWhatIsShown
<1>1. InboxInit => InboxInv
  BY InboxStarts
<1>2. InboxInv /\ [InboxNext]_inboxVars => InboxInv'
  <2> SUFFICES ASSUME InboxInv, [InboxNext]_inboxVars PROVE InboxInv'
    OBVIOUS
  <2>1. CASE Arrive \/ CacheExpires \/ UNCHANGED inboxVars
    BY <2>1, PageUntouched DEF Arrive, CacheExpires, inboxVars
  <2> QED BY <2>1, InboxServeKeeps, QueryKeeps, ResultsKeep, DialogKeeps, BellKeeps DEF InboxNext
<1>3. InboxInv => DeletesWhatIsShown
  BY DEF InboxInv
<1> QED BY <1>1, <1>2, <1>3, PTL DEF InboxSpec

----------------------------------------------------------------------------
(***************************************************************************)
(* The session: the preloader never hides the pages for nothing, and       *)
(* whoever is logged in sees his own details.                              *)
(***************************************************************************)

SessionShape == /\ late \in BOOLEAN /\ stranded \in BOOLEAN
         /\ \A r \in loads : DOMAIN r = {"kind", "user", "token", "value", "phase"}

\* The loader has a request that will end it; and App, when it is about to look whether to make one, either
\* will, or finds one, or has been stranded.
Loader == LoaderHasRequest /\ (effect /\ loader /\ details.of = "" => stranded \/ Pending("details") # {})

\* Details without a token are known to be late, and so are those behind a login window and those that
\* somebody coming back from it finds in the store.
Leftover == (token = "" \/ popup \/ arriving # "") => details.of = "" \/ late

\* Somebody who comes back finds the settings closed and nothing under way that could belong to anybody.
Return == arriving # "" => /\ switch = Closed
                           /\ \A r \in loads : r.kind # "save" /\ (r.kind = "details" => late)

\* Whose details a request asks for is its token's, and what is saved is saved for who is logged in.
Asks(r) == /\ r.kind = "details" => late \/ r.user \in {"", r.token}
           /\ r.kind = "save" => token \in {"", r.token}
Requests == \A r \in loads : Asks(r)

\* Details of somebody else are there only after details asked for with another token came in when that had been
\* given up, or any came in while a login window was open.
DetailsOfToken == token # "" /\ details.of # "" => details.of = token \/ late

SessionInv == SessionShape /\ Loader /\ Leftover /\ Return /\ Requests /\ DetailsOfToken

----------------------------------------------------------------------------
\* What is sent together for the details of a user.
LEMMA SetUserDetailsFields ==
  ASSUME NEW user, NEW tok
  PROVE  \A r \in setUserDetails(user, tok) :
           /\ DOMAIN r = {"kind", "user", "token", "value", "phase"} /\ r.kind \in {"details", "osm"}
           /\ r.kind = "details" => r.user = user /\ r.token = tok
<1>1. /\ DOMAIN Fetching(user, tok) = {"kind", "user", "token", "value", "phase"}
      /\ Fetching(user, tok).kind = "details" /\ Fetching(user, tok).user = user /\ Fetching(user, tok).token = tok
  BY DEF Fetching
<1>2. /\ DOMAIN Osm(user, tok) = {"kind", "user", "token", "value", "phase"} /\ Osm(user, tok).kind = "osm"
  BY DEF Osm
<1> QED BY <1>1, <1>2 DEF setUserDetails

\* Among them is a request for the details.
LEMMA SetUserDetailsAsks ==
  ASSUME NEW user, NEW tok PROVE \E r \in setUserDetails(user, tok) : r.kind = "details"
<1>1. Fetching(user, tok) \in setUserDetails(user, tok)
  BY DEF setUserDetails
<1>2. Fetching(user, tok).kind = "details"
  BY DEF Fetching
<1> QED BY <1>1, <1>2

\* An answered request is still the same request.
LEMMA AnsweredFields ==
  ASSUME NEW r, DOMAIN r = {"kind", "user", "token", "value", "phase"}, NEW phase, NEW value
  PROVE  LET s == [r EXCEPT !.phase = phase, !.value = value]
             t == [r EXCEPT !.phase = phase]
         IN /\ DOMAIN s = DOMAIN r /\ s.kind = r.kind /\ s.user = r.user /\ s.token = r.token
            /\ DOMAIN t = DOMAIN r /\ t.kind = r.kind /\ t.user = r.user /\ t.token = r.token
  OBVIOUS

\* Nobody is logged in at first and nothing is under way.
LEMMA SessionStarts == ASSUME SessionInit PROVE SessionInv
  BY DEF SessionInit, SessionInv, SessionShape, Loader, Leftover, Return, Requests, DetailsOfToken, LoaderHasRequest, Nobody

----------------------------------------------------------------------------
(* The answers.                                                            *)

\* Details that come in are those of the token, or late.
LEMMA ArriveKeeps == ASSUME SessionInv, NEW r \in loads, DetailsArrive(r) PROVE SessionInv'
<1>1. /\ r.kind = "details" /\ loads' = loads \ {r} /\ loader' = FALSE
      /\ details' = [of |-> r.user, expert |-> r.value] /\ switch' = TakenOnce(r.value)
      /\ late' = (late \/ r.token # token \/ popup)
      /\ token' = token /\ popup' = popup /\ arriving' = arriving /\ stranded' = stranded
  BY DEF DetailsArrive, Pending, authorizationReducer, loginVars
<1>2. details'.of = r.user
  BY <1>1
<1>3. Asks(r)
  BY DEF SessionInv, Requests
<1>4. SessionShape' /\ Loader'
  BY <1>1 DEF SessionInv, SessionShape, Loader, LoaderHasRequest
<1>5. Leftover' /\ DetailsOfToken'
  BY <1>1, <1>2, <1>3 DEF SessionInv, Asks, Leftover, Return, DetailsOfToken
<1>6. Return'
  <2>1. switch = Closed => switch' = Closed
    BY <1>1 DEF TakenOnce, Closed, Unset
  <2>2. late => late'
    BY <1>1
  <2> QED BY <1>1, <2>1, <2>2 DEF SessionInv, Return
<1>7. Requests'
  BY <1>1 DEF SessionInv, Requests, Asks
<1> QED BY <1>4, <1>5, <1>6, <1>7 DEF SessionInv

\* A token that is no longer valid ends the session, and whatever was saved is saved for nobody.
LEMMA InvalidKeeps == ASSUME SessionInv, NEW r \in loads, InvalidToken(r) PROVE SessionInv'
<1>1. /\ loads' = loads \ {r} /\ loader' = FALSE /\ token' = "" /\ details' = Nobody
      /\ switch' \in {switch, Closed} /\ late' = late
      /\ popup' = popup /\ arriving' = arriving /\ stranded' = stranded
  BY DEF InvalidToken, logout, ClearedDetails, AfterFailure, loginVars
<1>2. details'.of = ""
  BY <1>1 DEF Nobody
<1>3. SessionShape' /\ Loader' /\ Leftover' /\ DetailsOfToken'
  BY <1>1, <1>2 DEF SessionInv, SessionShape, Loader, LoaderHasRequest, Leftover, DetailsOfToken
<1>4. Return' /\ Requests'
  BY <1>1 DEF SessionInv, Return, Requests, Asks
<1> QED BY <1>3, <1>4 DEF SessionInv

\* An answer that changes no details, and a request dropped, leave the loader its request or end it.
LEMMA DropKeeps ==
  ASSUME SessionInv, NEW r \in loads, loads' = loads \ {r}, UNCHANGED <<token, details, loginVars, late>>,
         loader' = FALSE \/ (loader' = loader /\ r.kind # "details"), switch' = switch
  PROVE  SessionInv'
<1>1. CASE loader' = FALSE
  BY <1>1 DEF SessionInv, SessionShape, Loader, LoaderHasRequest, Leftover, Return, Requests, Asks, DetailsOfToken, loginVars
<1>2. CASE loader' = loader /\ r.kind # "details"
  <2>1. Pending("details")' = Pending("details")
    BY <1>2 DEF Pending
  <2>2. Loader'
    BY <1>2, <2>1 DEF SessionInv, Loader, LoaderHasRequest, loginVars
  <2> QED BY <2>2 DEF SessionInv, SessionShape, Leftover, Return, Requests, Asks, DetailsOfToken, loginVars
<1> QED BY <1>1, <1>2

\* The server answers a request and the page has not heard of it yet.
LEMMA SessionAnswerKeeps ==
  ASSUME SessionInv, NEW r \in loads, NEW s, loads' = (loads \ {r}) \cup {s},
         DOMAIN s = DOMAIN r, s.kind = r.kind, s.user = r.user, s.token = r.token,
         UNCHANGED <<storeVars, settingsVars, loginVars, late>>
  PROVE  SessionInv'
<1>1. Pending("details") # {} => Pending("details")' # {}
  BY DEF Pending
<1>2. Loader'
  BY <1>1 DEF SessionInv, Loader, LoaderHasRequest, loginVars, storeVars
<1> QED BY <1>2 DEF SessionInv, SessionShape, Leftover, Return, Requests, Asks, DetailsOfToken, loginVars, storeVars, settingsVars

LEMMA SessionServeKeeps ==
  ASSUME SessionInv, NEW r \in loads, get_user_dto_by_username(r) \/ update_user_details(r) PROVE SessionInv'
<1>1. DOMAIN r = {"kind", "user", "token", "value", "phase"}
  BY DEF SessionInv, SessionShape
<1>2. UNCHANGED <<storeVars, settingsVars, loginVars, late>>
  BY DEF get_user_dto_by_username, update_user_details
<1>3. PICK s : /\ loads' = (loads \ {r}) \cup {s}
               /\ DOMAIN s = DOMAIN r /\ s.kind = r.kind /\ s.user = r.user /\ s.token = r.token
  <2>1. \/ loads' = (loads \ {r}) \cup {[r EXCEPT !.phase = "done", !.value = saved[r.user]]}
        \/ \E phase : loads' = (loads \ {r}) \cup {[r EXCEPT !.phase = phase]}
    BY DEF get_user_dto_by_username, update_user_details
  <2>2. CASE loads' = (loads \ {r}) \cup {[r EXCEPT !.phase = "done", !.value = saved[r.user]]}
    <3> DEFINE s == [r EXCEPT !.phase = "done", !.value = saved[r.user]]
    <3>1. DOMAIN s = DOMAIN r /\ s.kind = r.kind /\ s.user = r.user /\ s.token = r.token
      BY <1>1, AnsweredFields
    <3> QED BY <2>2, <3>1
  <2>3. ASSUME NEW phase, loads' = (loads \ {r}) \cup {[r EXCEPT !.phase = phase]}
        PROVE  \E s : /\ loads' = (loads \ {r}) \cup {s}
                      /\ DOMAIN s = DOMAIN r /\ s.kind = r.kind /\ s.user = r.user /\ s.token = r.token
    <3> DEFINE s == [r EXCEPT !.phase = phase]
    <3>1. DOMAIN s = DOMAIN r /\ s.kind = r.kind /\ s.user = r.user /\ s.token = r.token
      BY <1>1, AnsweredFields
    <3> QED BY <2>3, <3>1
  <2> QED BY <2>1, <2>2, <2>3
<1> QED BY <1>2, <1>3, SessionAnswerKeeps

\* What was saved is fetched again, for who is logged in by then.
LEMMA PushKeeps == ASSUME SessionInv, NEW r \in loads, pushUserDetails(r) PROVE SessionInv'
<1>1. /\ r.kind = "save" /\ loads' = (loads \ {r}) \cup setUserDetails(token, r.token)
      /\ UNCHANGED <<storeVars, loginVars, late>> /\ switch' = switch
  BY DEF pushUserDetails, Pending
<1>2. token \in {"", r.token} /\ arriving = ""
  BY <1>1 DEF SessionInv, Requests, Asks, Return
<1>3. Pending("details") # {} => Pending("details")' # {}
  BY <1>1 DEF Pending
<1>4. Loader'
  BY <1>1, <1>3 DEF SessionInv, Loader, LoaderHasRequest, loginVars, storeVars
<1>5. /\ \A q \in setUserDetails(token, r.token) :
           /\ DOMAIN q = {"kind", "user", "token", "value", "phase"} /\ q.kind \in {"details", "osm"}
           /\ q.kind = "details" => q.user = token /\ q.token = r.token
      /\ token' = token /\ late' = late /\ stranded' = stranded
  BY <1>1, SetUserDetailsFields DEF loginVars, storeVars
<1>6. SessionShape'
  BY <1>1, <1>5 DEF SessionInv, SessionShape
<1>7. Requests'
  <2>1. ASSUME NEW q \in setUserDetails(token, r.token) PROVE Asks(q)'
    <3>1. q.kind # "save" /\ (q.kind = "details" => q.user \in {"", q.token})
      BY <1>2, <1>5
    <3> QED BY <3>1 DEF Asks
  <2>2. ASSUME NEW q \in loads PROVE Asks(q)'
    BY <1>5 DEF SessionInv, Requests, Asks
  <2> QED BY <1>1, <2>1, <2>2 DEF Requests
<1> QED BY <1>1, <1>2, <1>4, <1>6, <1>7 DEF SessionInv, Leftover, Return, DetailsOfToken, loginVars, storeVars

LEMMA AnswersKeep ==
  ASSUME SessionInv, NEW r \in loads,
         \/ DetailsArrive(r) \/ InvalidToken(r) \/ DetailsFail(r) \/ OsmArrives(r)
         \/ get_user_dto_by_username(r) \/ update_user_details(r) \/ pushUserDetails(r) \/ SaveFails(r)
  PROVE  SessionInv'
<1>1. CASE DetailsFail(r)
  BY <1>1, DropKeeps DEF DetailsFail, AfterFailure
<1>2. CASE OsmArrives(r)
  BY <1>2, DropKeeps DEF OsmArrives, Pending, settingsVars
<1>3. CASE SaveFails(r)
  BY <1>3, DropKeeps DEF SaveFails, Pending, storeVars
<1> QED BY <1>1, <1>2, <1>3, ArriveKeeps, InvalidKeeps, SessionServeKeeps, PushKeeps

----------------------------------------------------------------------------
(* What the user does, and App.                                            *)

\* A load of the page loses what was under way.
LEMMA LoadKeeps ==
  ASSUME SessionInv, NEW user, PageLoad(user), user = "" \/ details.of = "" \/ late
  PROVE  SessionInv'
<1>1. /\ popup' = FALSE /\ loads' = {} /\ effect' = TRUE /\ arriving' = user /\ switch' = Closed
      /\ stranded' = (stranded \/ (loader /\ details.of = ""))
      /\ token' = token /\ details' = details /\ loader' = loader /\ late' = late
  BY DEF PageLoad, storeVars
<1>2. SessionShape' /\ Loader'
  BY <1>1 DEF SessionInv, SessionShape, Loader, LoaderHasRequest
<1> QED BY <1>1, <1>2 DEF SessionInv, Leftover, Return, Requests, DetailsOfToken

\* Who comes back from the login window finds no details in the store, or late ones.
LEMMA AuthorizedKeeps == ASSUME SessionInv, AuthorizedView PROVE SessionInv'
<1>1. /\ arriving # "" /\ token' = arriving /\ arriving' = "" /\ loader' = TRUE
      /\ loads' = loads \cup setUserDetails(arriving, arriving)
      /\ UNCHANGED <<details, popup, effect, stranded, late>>
  BY DEF AuthorizedView, Shows
<1>2. Pending("details")' # {}
  BY <1>1, SetUserDetailsAsks DEF Pending
<1>3. SessionShape' /\ Loader'
  BY <1>1, <1>2, SetUserDetailsFields DEF SessionInv, SessionShape, Loader, LoaderHasRequest
<1>4. \A q \in setUserDetails(arriving, arriving) :
         q.kind # "save" /\ (q.kind = "details" => q.user = arriving /\ q.token = arriving)
  BY SetUserDetailsFields
<1>5. \A q \in loads : q.kind # "save"
  BY <1>1 DEF SessionInv, Return
<1>6. Requests'
  BY <1>1, <1>4, <1>5 DEF SessionInv, Requests, Asks
<1> QED BY <1>1, <1>3, <1>6 DEF SessionInv, Leftover, Return, DetailsOfToken

\* App looks once after each load, and asks for the details of whom the store names.
LEMMA AppKeeps == ASSUME SessionInv, getUserDetails PROVE SessionInv'
<1>1. effect' = FALSE /\ UNCHANGED <<token, details, popup, arriving, stranded, late>>
  BY DEF getUserDetails
<1>2. CASE details.of = ""
  <2>1. UNCHANGED <<loads, loader, switch>>
    BY <1>2 DEF getUserDetails
  <2>2. Pending("details")' = Pending("details")
    BY <2>1 DEF Pending
  <2>3. Loader'
    BY <1>1, <1>2, <2>1, <2>2 DEF SessionInv, Loader, LoaderHasRequest
  <2> QED BY <1>1, <2>1, <2>3 DEF SessionInv, SessionShape, Leftover, Return, Requests, Asks, DetailsOfToken
<1>3. CASE details.of # ""
  <2>1. loader' = TRUE /\ switch' = Closed /\ loads' = loads \cup setUserDetails(details.of, token)
    BY <1>3 DEF getUserDetails, Shows
  <2>2. Pending("details")' # {}
    BY <2>1, SetUserDetailsAsks DEF Pending
  <2>3. late \/ (details.of = token /\ arriving = "")
    BY <1>3 DEF SessionInv, Leftover, DetailsOfToken
  <2>4. SessionShape' /\ Loader'
    <3>1. SessionShape'
      BY <1>1, <2>1, SetUserDetailsFields DEF SessionInv, SessionShape
    <3> QED BY <1>1, <2>2, <3>1 DEF Loader, LoaderHasRequest
  <2>5. Requests' /\ Return'
    BY <1>1, <2>1, <2>3, SetUserDetailsFields DEF SessionInv, Requests, Asks, Return
  <2> QED BY <1>1, <2>4, <2>5 DEF SessionInv, Leftover, DetailsOfToken
<1> QED BY <1>2, <1>3

\* A login is offered to whom the page does not know.
LEMMA WindowKeeps ==
  ASSUME SessionInv, createLoginWindow \/ authComplete \/ LoginGivenUp \/ Reload \/ Logout PROVE SessionInv'
<1>1. ASSUME UNCHANGED <<storeVars, switch, arriving, effect, stranded, loads, late>>,
             popup' => details.of = "" \/ late
      PROVE  SessionInv'
  <2>1. Pending("details")' = Pending("details")
    BY <1>1 DEF Pending
  <2>2. Loader'
    BY <1>1, <2>1 DEF SessionInv, Loader, LoaderHasRequest, storeVars
  <2> QED BY <1>1, <2>2 DEF SessionInv, SessionShape, Leftover, Return, Requests, Asks, DetailsOfToken, storeVars
<1>2. CASE createLoginWindow
  <2>1. details.of = "" \/ late
    BY <1>2 DEF createLoginWindow, SessionInv, Leftover
  <2> QED BY <1>1, <1>2, <2>1 DEF createLoginWindow, settingsVars
<1>3. CASE authComplete
  BY <1>3, LoadKeeps DEF authComplete, SessionInv, Leftover
<1>4. CASE LoginGivenUp
  BY <1>1, <1>4 DEF LoginGivenUp, settingsVars
<1>5. CASE Reload
  BY <1>5, LoadKeeps DEF Reload, SessionInv, Leftover
<1>6. CASE Logout
  <2>1. /\ token' = "" /\ details' = Nobody /\ switch' = Closed /\ ~loader /\ loader' = loader
        /\ UNCHANGED <<loads, popup, arriving, effect, stranded, late>>
    BY <1>6 DEF Logout, logout, ClearedDetails, loginVars
  <2>2. details'.of = ""
    BY <2>1 DEF Nobody
  <2> QED BY <2>1, <2>2 DEF SessionInv, SessionShape, Loader, LoaderHasRequest, Leftover, Return, Requests, Asks, DetailsOfToken
<1> QED BY <1>2, <1>3, <1>4, <1>5, <1>6

\* The settings open for whom is logged in, and save for him.
LEMMA SettingsKeep ==
  ASSUME SessionInv, Settings \/ onSwitchChange \/ BlindSwitchChange \/ PersonalInformationForm PROVE SessionInv'
<1>1. UNCHANGED <<token, details, loader, popup, arriving, effect, stranded, late>>
  BY DEF Settings, onSwitchChange, BlindSwitchChange, PersonalInformationForm, storeVars, loginVars
<1>2. CASE Settings \/ BlindSwitchChange \/ PersonalInformationForm
  <2>1. loads' = loads /\ (arriving = "" \/ switch' = switch)
    <3>1. BlindSwitchChange => arriving = ""
      <4>1. arriving # "" => switch = 3
        BY DEF SessionInv, Return, Closed
      <4>2. BlindSwitchChange => switch \in {2}
        BY DEF BlindSwitchChange, Unset
      <4>3. switch \in {2} => switch # 3
        OBVIOUS
      <4> QED BY <4>1, <4>2, <4>3
    <3> QED BY <1>2, <3>1 DEF Settings, BlindSwitchChange, PersonalInformationForm
  <2>2. Pending("details")' = Pending("details")
    BY <2>1 DEF Pending
  <2>3. Loader'
    BY <1>1, <2>1, <2>2 DEF SessionInv, Loader, LoaderHasRequest
  <2> QED BY <1>1, <2>1, <2>3 DEF SessionInv, SessionShape, Leftover, Return, Requests, Asks, DetailsOfToken
<1>3. CASE onSwitchChange
  <2> DEFINE s == Saving(token, Toggled(switch))
  <2>1. /\ DOMAIN s = {"kind", "user", "token", "value", "phase"} /\ s.kind = "save" /\ s.token = token
    BY DEF Saving
  <2>2. loads' = loads \cup {s} /\ switch \in {0, 1}
    BY <1>3 DEF onSwitchChange
  <2> HIDE DEF s
  <2>3. arriving = ""
    <3>1. arriving # "" => switch = 3
      BY DEF SessionInv, Return, Closed
    <3>2. switch # 3
      BY <2>2
    <3> QED BY <3>1, <3>2
  <2>4. Pending("details") # {} => Pending("details")' # {}
    BY <2>2 DEF Pending
  <2>5. Loader'
    BY <1>1, <2>4 DEF SessionInv, Loader, LoaderHasRequest
  <2>6. SessionShape' /\ Requests'
    BY <1>1, <2>1, <2>2 DEF SessionInv, SessionShape, Requests, Asks
  <2> QED BY <1>1, <2>3, <2>5, <2>6 DEF SessionInv, Leftover, Return, DetailsOfToken
<1> QED BY <1>2, <1>3

LEMMA SessionStep == ASSUME SessionInv, [SessionNext]_sessionVars PROVE SessionInv'
<1>1. CASE UNCHANGED sessionVars
  BY <1>1 DEF sessionVars, storeVars, settingsVars, loginVars, SessionInv, SessionShape, Loader, LoaderHasRequest, Pending,
              Leftover, Return, Requests, Asks, DetailsOfToken
<1> QED BY <1>1, AuthorizedKeeps, AppKeeps, AnswersKeep, WindowKeeps, SettingsKeep DEF SessionNext

----------------------------------------------------------------------------
\* The preloader hides the pages only while a request for details is under way or App is about to make
\* one, unless the page was loaded in the middle of a first login.
THEOREM LoaderCorrect == SessionSpec => []LoaderHasRequest
<1>1. SessionInv => LoaderHasRequest
  BY DEF SessionInv, Loader
<1> QED BY <1>1, SessionStarts, SessionStep, PTL DEF SessionSpec

----------------------------------------------------------------------------
(***************************************************************************)
(* The settings: a switch shows what the server has.                       *)
(***************************************************************************)

\* Settings are saved only by somebody with an account, and on a page that has asked for the details.
Savers ==
  /\ DOMAIN saved = Accounts /\ token \in Accounts \cup {""} /\ arriving \in Accounts \cup {""} /\ unsure \in BOOLEAN
  /\ \A r \in Pending("save") : r.token \in Accounts
  /\ effect => Pending("save") = {}

\* A save under way is of the value that the switch shows, and so is what the server has once it is done.
Sure == ~unsure /\ token # ""
SavesInHand ==
  Sure => \A r \in Pending("save") :
            switch \in {0, 1} /\ r.token = token /\ r.value = switch /\ (r.phase = "done" => saved[token] = switch)

\* With nothing to save, what the page was told, is about to be told and shows is what the server has.
ToldWhatIsSaved ==
  Sure /\ ~late /\ Pending("save") = {} =>
    /\ \A r \in Pending("details") : r.phase = "done" /\ r.token = token => r.value = saved[token]
    /\ details.of # "" /\ Pending("details") = {} /\ ~effect => details.expert = saved[token]
    /\ switch \in {0, 1} => switch = saved[token]

SwitchInv == Savers /\ SavesInHand /\ ToldWhatIsSaved

----------------------------------------------------------------------------
LEMMA SwitchStarts == ASSUME SessionInit PROVE SwitchInv
  BY DEF SessionInit, SwitchInv, Savers, SavesInHand, ToldWhatIsSaved, Sure, Pending, Nobody

\* Requests without a save that leave the saves alone.
LEMMA PendingWithout ==
  ASSUME NEW r \in loads, NEW s, loads' = (loads \ {r}) \cup s, r.kind # "save", \A q \in s : q.kind # "save"
  PROVE  Pending("save")' = Pending("save")
  BY DEF Pending

\* A page without a switch, without a save under way and with the details still to come tells nothing itself.
LEMMA TellsNothing ==
  ASSUME Savers', Pending("save")' = {}, switch' = Closed,
         effect' \/ Pending("details")' # {},
         Sure' /\ ~late' => \A r \in Pending("details")' : r.phase = "done" /\ r.token = token' => r.value = saved'[token']
  PROVE  SwitchInv'
<1>1. SavesInHand'
  BY DEF SavesInHand
<1>2. switch' \notin {0, 1}
  BY DEF Closed
<1>3. ToldWhatIsSaved'
  BY <1>2 DEF ToldWhatIsSaved
<1> QED BY <1>1, <1>3 DEF SwitchInv

\* Details come in: the switch takes what the server has, unless it shows it already.
LEMMA ArriveTells == ASSUME SessionInv, SwitchInv, NEW r \in loads, DetailsArrive(r) PROVE SwitchInv'
<1>1. /\ r.kind = "details" /\ r.phase = "done" /\ r \in Pending("details") /\ loads' = loads \ {r}
      /\ details' = [of |-> r.user, expert |-> r.value] /\ switch' = IF switch = Unset THEN r.value ELSE switch
      /\ token' = token /\ arriving' = arriving /\ effect' = effect /\ unsure' = unsure /\ saved' = saved
  BY DEF DetailsArrive, Pending, authorizationReducer, loginVars, TakenOnce
<1>2. details'.expert = r.value
  BY <1>1
<1>3. Pending("save")' = Pending("save") /\ Pending("details")' = Pending("details") \ {r}
  BY <1>1 DEF Pending
<1>5. Savers'
  BY <1>1, <1>3 DEF SwitchInv, Savers
<1>6. SavesInHand'
  <2>1. Sure' => Sure
    BY <1>1 DEF Sure
  <2> QED BY <1>1, <1>3, <2>1 DEF SwitchInv, SavesInHand, Unset
<1>7. ToldWhatIsSaved'
  <2>1. ASSUME ~late' PROVE ~late /\ r.token = token
    BY <2>1 DEF DetailsArrive, authorizationReducer
  <2> QED BY <1>1, <1>2, <1>3, <2>1 DEF SwitchInv, ToldWhatIsSaved, Sure, Unset
<1> QED BY <1>5, <1>6, <1>7 DEF SwitchInv

\* The server answers with the details of the one who asks; what it has does not change.
LEMMA ServeTells ==
  ASSUME SessionInv, SwitchInv, NEW r \in loads, get_user_dto_by_username(r) PROVE SwitchInv'
<1>1. /\ r.kind = "details" /\ r.phase = "sent" /\ r \in Pending("details")
      /\ UNCHANGED <<token, details, switch, unsure, arriving, effect, saved, late>>
  BY DEF get_user_dto_by_username, Pending, storeVars, settingsVars, loginVars
<1>2. DOMAIN r = {"kind", "user", "token", "value", "phase"} /\ (late \/ r.user \in {"", r.token})
  BY <1>1 DEF SessionInv, SessionShape, Requests, Asks
<1>3. PICK s : /\ loads' = (loads \ {r}) \cup {s} /\ s.kind = "details" /\ s.token = r.token
               /\ s.phase = "done" => r.user # "" /\ s.value = saved[r.user]
  <2>1. CASE r.user # "" /\ loads' = (loads \ {r}) \cup {[r EXCEPT !.phase = "done", !.value = saved[r.user]]}
    <3> DEFINE s == [r EXCEPT !.phase = "done", !.value = saved[r.user]]
    <3>1. s.kind = "details" /\ s.token = r.token /\ s.value = saved[r.user]
      BY <1>1, <1>2
    <3> QED BY <2>1, <3>1
  <2>2. CASE loads' = (loads \ {r}) \cup {[r EXCEPT !.phase = "invalid"]}
    <3> DEFINE s == [r EXCEPT !.phase = "invalid"]
    <3>1. s.kind = "details" /\ s.token = r.token /\ s.phase = "invalid"
      BY <1>1, <1>2
    <3> QED BY <2>2, <3>1
  <2> QED BY <2>1, <2>2 DEF get_user_dto_by_username
<1>4. Pending("save")' = Pending("save") /\ Pending("details")' = (Pending("details") \ {r}) \cup {s}
  BY <1>1, <1>3 DEF Pending
<1>5. Savers' /\ SavesInHand'
  BY <1>1, <1>4 DEF SwitchInv, Savers, SavesInHand, Sure
<1>6. ToldWhatIsSaved'
  BY <1>1, <1>2, <1>3, <1>4 DEF SwitchInv, ToldWhatIsSaved, Sure
<1> QED BY <1>5, <1>6 DEF SwitchInv

\* The server saves what the switch shows.
LEMMA SaveTells == ASSUME SessionInv, SwitchInv, NEW r \in loads, update_user_details(r) PROVE SwitchInv'
<1>1. /\ r.kind = "save" /\ r.phase = "sent" /\ r \in Pending("save") /\ saved' = [saved EXCEPT ![r.token] = r.value]
      /\ loads' = (loads \ {r}) \cup {[r EXCEPT !.phase = "done"]}
      /\ UNCHANGED <<token, details, switch, unsure, arriving, effect, late>>
  BY DEF update_user_details, Pending, storeVars, settingsVars, loginVars
<1> DEFINE s == [r EXCEPT !.phase = "done"]
<1>2. s.kind = "save" /\ s.token = r.token /\ s.value = r.value
  BY <1>1 DEF SessionInv, SessionShape
<1>3. loads' = (loads \ {r}) \cup {s}
  BY <1>1
<1> HIDE DEF s
<1>4. Pending("save")' = (Pending("save") \ {r}) \cup {s}
  BY <1>1, <1>2, <1>3 DEF Pending
<1>5. r.token \in Accounts /\ DOMAIN saved' = Accounts /\ saved'[r.token] = r.value
  BY <1>1 DEF SwitchInv, Savers
<1>6. Savers'
  BY <1>1, <1>2, <1>4, <1>5 DEF SwitchInv, Savers
<1>7. SavesInHand'
  <2> SUFFICES ASSUME Sure', NEW q \in Pending("save")'
               PROVE  switch \in {0, 1} /\ q.token = token /\ q.value = switch /\ saved'[token] = switch
    BY <1>1 DEF SavesInHand
  <2>1. Sure /\ r.token = token /\ r.value = switch /\ switch \in {0, 1}
    BY <1>1 DEF SwitchInv, SavesInHand, Sure
  <2> QED BY <1>2, <1>4, <1>5, <2>1 DEF SwitchInv, SavesInHand
<1>8. ToldWhatIsSaved'
  BY <1>4 DEF ToldWhatIsSaved
<1> QED BY <1>6, <1>7, <1>8 DEF SwitchInv

\* A save that was done hands over to the fetch that follows it.
LEMMA PushTells == ASSUME SessionInv, SwitchInv, NEW r \in loads, pushUserDetails(r) PROVE SwitchInv'
<1>1. /\ r.kind = "save" /\ r.phase = "done" /\ r \in Pending("save")
      /\ loads' = (loads \ {r}) \cup setUserDetails(token, r.token)
      /\ unsure' = (unsure \/ Pending("details") # {})
      /\ UNCHANGED <<token, details, switch, arriving, effect, late, saved>>
  BY DEF pushUserDetails, Pending, storeVars, loginVars
<1> DEFINE new == setUserDetails(token, r.token)
<1>2. \A q \in new : q.kind \in {"details", "osm"} /\ (q.kind = "details" => q.phase = "sent")
  BY DEF setUserDetails, Fetching, Osm
<1>3. \E q \in new : q.kind = "details"
  BY SetUserDetailsAsks
<1>4. loads' = (loads \ {r}) \cup new
  BY <1>1
<1> HIDE DEF new
<1>5. /\ Pending("save")' = Pending("save") \ {r}
      /\ Pending("details")' # {} /\ \A q \in Pending("details")' : q \in Pending("details") \/ q.phase = "sent"
  BY <1>1, <1>2, <1>3, <1>4 DEF Pending
<1>6. Savers'
  BY <1>1, <1>5 DEF SwitchInv, Savers
<1>7. ~unsure' => ~unsure /\ Pending("details") = {}
  BY <1>1
<1>8. SavesInHand'
  BY <1>1, <1>5, <1>7 DEF SwitchInv, SavesInHand, Sure
<1>9. ToldWhatIsSaved'
  BY <1>1, <1>5, <1>7 DEF SwitchInv, SavesInHand, ToldWhatIsSaved, Sure
<1> QED BY <1>6, <1>8, <1>9 DEF SwitchInv

\* A request that fails, a token that is no longer valid, and the names of OpenStreetMap.
LEMMA FailuresTell ==
  ASSUME SessionInv, SwitchInv, NEW r \in loads, DetailsFail(r) \/ SaveFails(r) \/ InvalidToken(r) \/ OsmArrives(r)
  PROVE  SwitchInv'
<1>1. loads' = loads \ {r} /\ UNCHANGED <<saved, late, effect, arriving>> /\ token' \in {token, ""} /\ unsure' \in {unsure, TRUE}
  BY DEF DetailsFail, SaveFails, InvalidToken, OsmArrives, loginVars, storeVars, settingsVars, logout
<1>2. Savers'
  BY <1>1 DEF SwitchInv, Savers, Pending
<1>3. CASE DetailsFail(r) \/ SaveFails(r) \/ InvalidToken(r)
  <2>1. ~Sure'
    BY <1>3 DEF DetailsFail, SaveFails, InvalidToken, logout, Sure
  <2> QED BY <1>2, <2>1 DEF SwitchInv, SavesInHand, ToldWhatIsSaved
<1>4. CASE OsmArrives(r)
  <2>1. UNCHANGED <<token, details, switch, unsure>> /\ r.kind = "osm"
    BY <1>4 DEF OsmArrives, settingsVars, Pending
  <2>2. Pending("save")' = Pending("save") /\ Pending("details")' = Pending("details")
    BY <1>1, <2>1 DEF Pending
  <2> QED BY <1>1, <1>2, <2>1, <2>2 DEF SwitchInv, SavesInHand, ToldWhatIsSaved, Sure
<1> QED BY <1>3, <1>4

----------------------------------------------------------------------------
\* The page is loaded, or hidden while the details are asked for: no switch is shown and nothing is being saved.
LEMMA LoadTells == ASSUME SessionInv, SwitchInv, authComplete \/ Reload PROVE SwitchInv'
<1>1. PICK u \in Accounts \cup {""} : PageLoad(u)
  BY DEF authComplete, Reload, SwitchInv, Savers
<1>2. loads' = {} /\ effect' = TRUE /\ switch' = Closed /\ UNCHANGED <<token, details, saved, late>>
  BY <1>1 DEF PageLoad, storeVars
<1>8. arriving' = u
  BY <1>1 DEF PageLoad
<1>3. Pending("save")' = {} /\ Pending("details")' = {}
  BY <1>2 DEF Pending
<1>4. unsure' \in BOOLEAN
  BY <1>1 DEF PageLoad
<1>5. Savers'
  BY <1>2, <1>3, <1>4, <1>8 DEF SwitchInv, Savers
<1> QED BY <1>2, <1>3, <1>5, TellsNothing

LEMMA HiddenTells == ASSUME SessionInv, SwitchInv, AuthorizedView \/ getUserDetails PROVE SwitchInv'
<1>1. CASE AuthorizedView
  <2> DEFINE new == setUserDetails(arriving, arriving)
  <2>1. /\ arriving # "" /\ token' = arriving /\ arriving' = "" /\ switch' = Closed /\ loads' = loads \cup new
        /\ UNCHANGED <<details, effect, saved, late, unsure>>
    BY <1>1 DEF AuthorizedView, Shows
  <2>2. /\ \A q \in new : q.kind \in {"details", "osm"} /\ (q.kind = "details" => q.phase = "sent")
        /\ \E q \in new : q.kind = "details"
    BY SetUserDetailsAsks DEF setUserDetails, Fetching, Osm
  <2> HIDE DEF new
  <2>3. (\A q \in loads : q.kind # "save" /\ (q.kind = "details" => late))
    BY <2>1 DEF SessionInv, Return
  <2>4. Pending("save")' = {} /\ Pending("details")' # {} /\ \A q \in Pending("details")' : late \/ q.phase = "sent"
    BY <2>1, <2>2, <2>3 DEF Pending
  <2>5. Savers'
    BY <2>1, <2>4 DEF SwitchInv, Savers
  <2> QED BY <2>1, <2>4, <2>5, TellsNothing
<1>2. CASE getUserDetails
  <2>1. effect /\ effect' = FALSE /\ UNCHANGED <<token, details, arriving, saved, late, unsure>>
    BY <1>2 DEF getUserDetails
  <2>2. Pending("save") = {}
    BY <2>1 DEF SwitchInv, Savers
  <2>3. CASE details.of = ""
    <3>1. UNCHANGED <<loads, switch>>
      BY <1>2, <2>3 DEF getUserDetails
    <3>2. Pending("save")' = {} /\ Pending("details")' = Pending("details")
      BY <2>2, <3>1 DEF Pending
    <3> QED BY <2>1, <2>2, <2>3, <3>1, <3>2 DEF SwitchInv, Savers, SavesInHand, ToldWhatIsSaved, Sure
  <2>4. CASE details.of # ""
    <3> DEFINE new == setUserDetails(details.of, token)
    <3>1. switch' = Closed /\ loads' = loads \cup new
      BY <1>2, <2>4 DEF getUserDetails, Shows
    <3>2. /\ \A q \in new : q.kind \in {"details", "osm"} /\ (q.kind = "details" => q.phase = "sent")
          /\ \E q \in new : q.kind = "details"
      BY SetUserDetailsAsks DEF setUserDetails, Fetching, Osm
    <3> HIDE DEF new
    <3>3. /\ Pending("save")' = {} /\ Pending("details")' # {}
          /\ \A q \in Pending("details")' : q \in Pending("details") \/ q.phase = "sent"
      BY <2>2, <3>1, <3>2 DEF Pending
    <3>4. Savers'
      BY <2>1, <3>3 DEF SwitchInv, Savers
    <3>5. Sure' => Sure
      BY <2>1 DEF Sure
    <3>6. Sure' /\ ~late' => \A r \in Pending("details")' : r.phase = "done" /\ r.token = token => r.value = saved[token]
      BY <2>1, <2>2, <3>3, <3>5 DEF SwitchInv, ToldWhatIsSaved
    <3> QED BY <2>1, <3>1, <3>3, <3>4, <3>6, TellsNothing
  <2> QED BY <2>3, <2>4
<1> QED BY <1>1, <1>2

\* The windows of the login, and the end of the session.
LEMMA WindowsTell == ASSUME SwitchInv, createLoginWindow \/ LoginGivenUp \/ Logout \/ PersonalInformationForm PROVE SwitchInv'
<1>1. UNCHANGED <<arriving, effect, saved, late, unsure, loads>>
  BY DEF createLoginWindow, LoginGivenUp, Logout, PersonalInformationForm, loginVars, settingsVars
<1>2. \A k : Pending(k)' = Pending(k)
  BY <1>1 DEF Pending
<1>3. CASE Logout
  <2>1. token' = ""
    BY <1>3 DEF Logout, logout
  <2> QED BY <1>1, <1>2, <2>1 DEF SwitchInv, Savers, SavesInHand, ToldWhatIsSaved, Sure
<1>4. CASE createLoginWindow \/ LoginGivenUp \/ PersonalInformationForm
  <2>1. UNCHANGED <<token, details, switch>>
    BY <1>4 DEF createLoginWindow, LoginGivenUp, PersonalInformationForm, storeVars, settingsVars
  <2> QED BY <1>1, <1>2, <2>1 DEF SwitchInv, Savers, SavesInHand, ToldWhatIsSaved, Sure
<1> QED BY <1>3, <1>4

\* The settings are opened with what the page was told, and a click sends what the switch shows from then on.
LEMMA SettingsTell == ASSUME SessionInv, SwitchInv, ~effect, Settings \/ onSwitchChange \/ BlindSwitchChange PROVE SwitchInv'
<1>1. UNCHANGED <<token, details, arriving, effect, saved, late>> /\ token # ""
  BY DEF Settings, onSwitchChange, BlindSwitchChange, storeVars, loginVars
<1>4. CASE BlindSwitchChange
  <2>1. loads' = loads /\ unsure' = TRUE
    BY <1>4 DEF BlindSwitchChange
  <2>2. Pending("save")' = Pending("save")
    BY <2>1 DEF Pending
  <2> QED BY <1>1, <2>1, <2>2 DEF SwitchInv, Savers, SavesInHand, ToldWhatIsSaved, Sure
<1>2. CASE Settings
  <2>1. /\ loads' = loads
        /\ switch' = (IF switch # Closed THEN Closed ELSE IF details.of = "" THEN Unset ELSE details.expert)
    BY <1>2 DEF Settings
  <2>2. \A k : Pending(k)' = Pending(k)
    BY <2>1 DEF Pending
  <2>3. ~unsure' => ~unsure /\ Pending("save") = {} /\ Pending("details") = {}
    BY <1>2 DEF Settings
  <2>4. unsure' \in BOOLEAN
    BY <1>2 DEF Settings
  <2>5. Savers'
    BY <1>1, <2>2, <2>4 DEF SwitchInv, Savers
  <2>8. Sure' => Sure /\ Pending("save") = {} /\ Pending("details") = {}
    BY <1>1, <2>3 DEF Sure
  <2>6. SavesInHand'
    BY <2>2, <2>8 DEF SavesInHand
  <2>9. switch' \in {0, 1} => details.of # "" /\ switch' = details.expert
    <3>1. switch' = Closed \/ switch' = Unset \/ (details.of # "" /\ switch' = details.expert)
      BY <2>1, Zenon
    <3> DEFINE found == details.of # "" /\ switch' = details.expert
    <3> HIDE DEF found
    <3>2. switch' = Closed \/ switch' = Unset \/ found
      BY <3>1 DEF found
    <3>3. switch' \in {0, 1} => found
      BY <3>2 DEF Closed, Unset
    <3> QED BY <3>3 DEF found
  <2>7. ToldWhatIsSaved'
    BY <1>1, <2>2, <2>8, <2>9 DEF SwitchInv, ToldWhatIsSaved
  <2> QED BY <2>5, <2>6, <2>7 DEF SwitchInv
<1>3. CASE onSwitchChange
  <2> DEFINE new == Saving(token, 1 - switch)
  <2>1. /\ switch \in {0, 1} /\ switch' = 1 - switch /\ loads' = loads \cup {new}
    BY <1>3 DEF onSwitchChange, Toggled
  <2>2. new.kind = "save" /\ new.token = token /\ new.value = 1 - switch /\ new.phase = "sent"
    BY DEF Saving
  <2> HIDE DEF new
  <2>3. Pending("save")' = Pending("save") \cup {new}
    BY <2>1, <2>2 DEF Pending
  <2>4. unsure' \in BOOLEAN /\ (~unsure' => ~unsure /\ Pending("save") = {})
    BY <1>3 DEF onSwitchChange
  <2>5. Savers'
    BY <1>1, <2>2, <2>3, <2>4 DEF SwitchInv, Savers
  <2>6. SavesInHand'
    <3>1. Sure' => Pending("save") = {}
      BY <2>4 DEF Sure
    <3>2. 1 - switch \in {0, 1}
      BY <2>1
    <3>3. Sure' => Pending("save")' = {new}
      BY <2>3, <3>1
    <3>4. switch' = new.value /\ switch' \in {0, 1} /\ token' = token
      BY <1>1, <2>1, <2>2, <3>2
    <3> QED BY <2>2, <3>3, <3>4 DEF SavesInHand
  <2>7. ToldWhatIsSaved'
    BY <2>3 DEF ToldWhatIsSaved
  <2> QED BY <2>5, <2>6, <2>7 DEF SwitchInv
<1> QED BY <1>2, <1>3, <1>4

LEMMA SwitchStep == ASSUME SessionInv, SwitchInv, [SessionNext]_sessionVars PROVE SwitchInv'
<1>1. CASE UNCHANGED sessionVars
  BY <1>1 DEF sessionVars, storeVars, settingsVars, loginVars, SwitchInv, Savers, SavesInHand, ToldWhatIsSaved, Sure, Pending
<1> QED BY <1>1, ArriveTells, ServeTells, SaveTells, PushTells, FailuresTell, LoadTells, HiddenTells, WindowsTell,
     SettingsTell DEF SessionNext

\* A switch of the settings shows what the server has, whatever is saved and fetched meanwhile (onSwitchChange,
\* pushUserDetails, authorizationReducer), unless requests overlapped or failed or details came late.
THEOREM SwitchCorrect == SessionSpec => []SwitchIsSaved
<1>1. SessionSpec => [](SessionInv /\ SwitchInv)
  BY SessionStarts, SessionStep, SwitchStarts, SwitchStep, PTL DEF SessionSpec
<1>2. SessionInv /\ SwitchInv => SwitchIsSaved
  BY DEF SessionInv, SessionShape, SwitchInv, Savers, ToldWhatIsSaved, Sure, SwitchIsSaved
<1> QED BY <1>1, <1>2, PTL

----------------------------------------------------------------------------
(***************************************************************************)
(* The directory of the users: the list follows the changes made in it.    *)
(***************************************************************************)

\* What the state consists of, as far as the proof looks into it.
UsedType == [sent : Nat, clicks : Nat, missed : Nat, untold : BOOLEAN]
DirectoryShape ==
  /\ DOMAIN directory = {"filters", "shown", "pages", "newest", "loading", "error", "menu"}
  /\ used \in UsedType
  /\ \A q \in queries :
       /\ DOMAIN q = {"op", "n", "filters", "user", "to", "phase", "got", "pages"}
       /\ q.op \in {"list", "role", "level"} /\ q.phase \in {"sent", "done", "failed"}

\* Lists are numbered as they are asked for; the newest is asked for the filters chosen, and on the page or
\* under way.
Numbering ==
  /\ directory.newest \in Nat /\ directory.newest <= used.sent
  /\ directory.newest = used.sent => ~directory.loading
  /\ \A q \in queries : q.op = "list" =>
       /\ q.n \in Nat /\ q.n <= used.sent
       /\ q.n = used.sent => /\ q.filters = directory.filters /\ directory.newest # used.sent
                            /\ \A r \in queries : r.op = "list" /\ r.n = used.sent => r = q

\* A user was changed and the page has not been told yet.
ChangeAhead == \E q \in queries : q.op # "list" /\ q.phase = "done"

\* Otherwise the newest list is what the server has, under way and on the page, unless something changed that
\* no answer will tell of.
Current ==
  ~ChangeAhead /\ ~used.untold =>
    /\ \A q \in queries : q.op = "list" /\ q.n = used.sent /\ q.phase = "done" =>
         q.got = get_all_users(people, q.filters) /\ q.pages = PagesOf(people, q.filters)
    /\ directory.newest = used.sent =>
         /\ directory.shown = get_all_users(people, directory.filters)
         /\ directory.pages = PagesOf(people, directory.filters)

DirectoryInv == DirectoryShape /\ Numbering /\ Current

----------------------------------------------------------------------------
\* The page starts with one list asked for and none shown.
LEMMA DirectoryStarts == ASSUME DirectoryInit PROVE DirectoryInv
<1>1. directory.newest = 0 /\ directory.filters = NoFilters /\ used = [sent |-> 1, clicks |-> 0, missed |-> 0, untold |-> FALSE]
  BY DEF DirectoryInit
<1>2. DOMAIN directory = {"filters", "shown", "pages", "newest", "loading", "error", "menu"}
  BY DEF DirectoryInit
<1> DEFINE first == Query("list", 1, NoFilters, 0, "")
<1>3. queries = {first}
  BY DEF DirectoryInit
<1>4. /\ DOMAIN first = {"op", "n", "filters", "user", "to", "phase", "got", "pages"}
      /\ first.op = "list" /\ first.n = 1 /\ first.filters = NoFilters /\ first.phase = "sent"
  BY DEF Query
<1>5. used \in UsedType /\ used.sent = 1
  BY <1>1 DEF UsedType
<1> HIDE DEF first
<1>6. DirectoryShape
  BY <1>2, <1>3, <1>4, <1>5 DEF DirectoryShape
<1>7. Numbering
  BY <1>1, <1>3, <1>4, <1>5 DEF Numbering
<1>8. Current
  BY <1>1, <1>3, <1>4, <1>5 DEF Current
<1> QED BY <1>6, <1>7, <1>8 DEF DirectoryInv

\* Asking for a list makes all others old.
LEMMA FetchKeeps ==
  ASSUME DirectoryInv, NEW f, NEW others \in SUBSET queries, NEW c \in Nat,
         fetchUsers(f, others), Asked(c), people' = people
  PROVE  DirectoryInv'
<1> USE DEF DirectoryInv
<1> DEFINE new == Query("list", used.sent + 1, f, 0, "")
<1>1. /\ queries' = others \cup {new}
      /\ directory' = [directory EXCEPT !.filters = f, !.loading = TRUE, !.menu = 0]
      /\ used' = [used EXCEPT !.sent = @ + 1, !.clicks = @ + c]
  BY DEF fetchUsers, Asked
<1>2. /\ DOMAIN new = {"op", "n", "filters", "user", "to", "phase", "got", "pages"}
      /\ new.op = "list" /\ new.n = used.sent + 1 /\ new.filters = f /\ new.phase = "sent"
  BY DEF Query
<1> HIDE DEF new
<1>3. /\ directory'.newest = directory.newest /\ directory'.filters = f
      /\ DOMAIN directory' = DOMAIN directory
      /\ used.sent \in Nat /\ used'.sent = used.sent + 1 /\ used' \in UsedType
  <2>1. /\ used.sent \in Nat /\ used.clicks \in Nat /\ used.missed \in Nat /\ used.untold \in BOOLEAN
        /\ used = [sent |-> used.sent, clicks |-> used.clicks, missed |-> used.missed, untold |-> used.untold]
    BY DEF DirectoryShape, UsedType
  <2>2. used' = [sent |-> used.sent + 1, clicks |-> used.clicks + c, missed |-> used.missed, untold |-> used.untold]
    BY <1>1, <2>1
  <2>3. used' \in UsedType
    BY <2>1, <2>2 DEF UsedType
  <2> QED BY <1>1, <2>1, <2>2, <2>3 DEF DirectoryShape
<1>4. DirectoryShape'
  BY <1>1, <1>2, <1>3 DEF DirectoryShape
<1>5. directory'.newest # used'.sent
  BY <1>3 DEF Numbering
<1>6. Numbering'
  <2>1. ASSUME NEW q \in queries', q.op = "list"
        PROVE  q.n \in Nat /\ q.n <= used'.sent /\ (q.n = used'.sent => q = new)
    <3>1. CASE q = new
      BY <1>2, <1>3, <3>1
    <3>2. CASE q \in others
      BY <1>3, <2>1, <3>2 DEF Numbering
    <3> QED BY <1>1, <3>1, <3>2
  <2>2. directory'.newest \in Nat /\ directory'.newest <= used'.sent
    BY <1>3 DEF Numbering
  <2> QED BY <1>2, <1>3, <1>5, <2>1, <2>2 DEF Numbering
<1>7. Current'
  <2>1. \A q \in queries' : q.op = "list" /\ q.n = used'.sent => q.phase = "sent"
    <3>1. ASSUME NEW q \in others, q.op = "list" PROVE q.n # used'.sent
      BY <1>3, <3>1 DEF Numbering
    <3> QED BY <1>1, <1>2, <3>1
  <2> QED BY <1>5, <2>1 DEF Current
<1> QED BY <1>4, <1>6, <1>7

\* The server answers: a list says what it has; a change makes the lists on the way old.
LEMMA DirectoryServeKeeps == ASSUME DirectoryInv, NEW q \in queries, ServeQuery(q) PROVE DirectoryInv'
<1> USE DEF DirectoryInv
<1> DEFINE r == IF Denied(q) THEN [q EXCEPT !.phase = "failed"]
                ELSE IF q.op # "list" THEN [q EXCEPT !.phase = "done"]
                ELSE [q EXCEPT !.phase = "done", !.got = get_all_users(people, q.filters),
                               !.pages = PagesOf(people, q.filters)]
<1>1. queries' = (queries \ {q}) \cup {r} /\ directory' = directory /\ q.phase = "sent"
  BY DEF ServeQuery
<1>7. /\ used' \in UsedType /\ used'.sent = used.sent
      /\ used'.untold <=> used.untold /\ ~(q.op = "list" /\ q.n = used.sent)
  BY DEF ServeQuery, DirectoryShape, UsedType
<1>2. /\ DOMAIN q = {"op", "n", "filters", "user", "to", "phase", "got", "pages"}
      /\ q.op \in {"list", "role", "level"}
  BY DEF DirectoryShape
<1>3. /\ DOMAIN r = DOMAIN q /\ r.op = q.op /\ r.n = q.n /\ r.filters = q.filters
      /\ r.phase = IF Denied(q) THEN "failed" ELSE "done"
      /\ q.op = "list" /\ ~Denied(q) =>
           r.got = get_all_users(people, q.filters) /\ r.pages = PagesOf(people, q.filters)
  BY <1>2
<1> HIDE DEF r
<1>4. DirectoryShape'
  BY <1>1, <1>2, <1>3, <1>7 DEF DirectoryShape
<1>5. Numbering'
  BY <1>1, <1>3, <1>7 DEF Numbering
<1>6. Current'
  <2>1. CASE q.op # "list" /\ ~Denied(q)
    BY <1>1, <1>3, <2>1 DEF Current, ChangeAhead
  <2>2. CASE q.op = "list" \/ Denied(q)
    <3>1. people' = people
      BY <1>2, <2>2 DEF ServeQuery, Denied, add_role_to_user
    <3>2. ChangeAhead' => ChangeAhead
      BY <1>1, <1>3, <2>2 DEF ChangeAhead
    <3>3. ChangeAhead => ChangeAhead'
      BY <1>1 DEF ChangeAhead
    <3>4. CASE used'.untold <=> used.untold
      BY <1>1, <1>3, <1>7, <2>2, <3>1, <3>2, <3>3, <3>4 DEF Current
    <3>5. CASE q.op = "list" /\ q.n = used.sent
      <4>1. directory.newest # used.sent
        BY <3>5 DEF Numbering
      <4>2. \A x \in queries' : x.op = "list" /\ x.n = used.sent => x = r
        BY <1>1, <3>5 DEF Numbering
      <4> QED BY <1>1, <1>3, <1>7, <3>1, <3>5, <4>1, <4>2 DEF Current
    <3> QED BY <1>7, <3>4, <3>5
  <2> QED BY <2>1, <2>2
<1> QED BY <1>4, <1>5, <1>6

\* What is counted when something happens that no page is told of.
LEMMA UsedMissed ==
  ASSUME used \in UsedType, NEW b \in BOOLEAN, used' = [used EXCEPT !.missed = @ + 1, !.untold = b]
  PROVE  used' \in UsedType /\ used'.sent = used.sent /\ used'.untold = b
<1>1. /\ used.sent \in Nat /\ used.clicks \in Nat /\ used.missed \in Nat
      /\ used = [sent |-> used.sent, clicks |-> used.clicks, missed |-> used.missed, untold |-> used.untold]
  BY DEF UsedType
<1>2. used' = [sent |-> used.sent, clicks |-> used.clicks, missed |-> used.missed + 1, untold |-> b]
  BY <1>1
<1>3. used' \in UsedType
  BY <1>1, <1>2 DEF UsedType
<1> QED BY <1>2, <1>3

\* A request or an answer is lost: what was changed and is not told of is known to be so.
LEMMA LoseKeeps == ASSUME DirectoryInv, NEW q \in queries, LoseQuery(q) PROVE DirectoryInv'
<1> USE DEF DirectoryInv
<1> DEFINE r == [q EXCEPT !.phase = "failed"]
<1>1. /\ queries' = (queries \ {q}) \cup {r} /\ directory' = directory /\ people' = people
      /\ used' = [used EXCEPT !.missed = @ + 1, !.untold = @ \/ (q.op # "list" /\ q.phase = "done")]
  BY DEF LoseQuery
<1>2. /\ DOMAIN q = {"op", "n", "filters", "user", "to", "phase", "got", "pages"}
      /\ q.op \in {"list", "role", "level"}
  BY DEF DirectoryShape
<1>3. DOMAIN r = DOMAIN q /\ r.op = q.op /\ r.n = q.n /\ r.filters = q.filters /\ r.phase = "failed"
  BY <1>2
<1>4. /\ used' \in UsedType /\ used'.sent = used.sent
      /\ used'.untold <=> used.untold \/ (q.op # "list" /\ q.phase = "done")
  BY <1>1, UsedMissed DEF DirectoryShape
<1> HIDE DEF r
<1>5. DirectoryShape'
  BY <1>1, <1>2, <1>3, <1>4 DEF DirectoryShape
<1>6. Numbering'
  BY <1>1, <1>3, <1>4 DEF Numbering
<1>7. Current'
  <2>1. ~used'.untold /\ ChangeAhead => ChangeAhead'
    BY <1>1, <1>4 DEF ChangeAhead
  <2> QED BY <1>1, <1>3, <1>4, <2>1 DEF Current
<1> QED BY <1>5, <1>6, <1>7

\* A level rises, and no page is told.
LEMMA LevelKeeps == ASSUME DirectoryInv, NEW u, check_and_update_mapper_level(u) PROVE DirectoryInv'
<1>1. /\ queries' = queries /\ directory' = directory
      /\ used' = [used EXCEPT !.missed = @ + 1, !.untold = TRUE]
  BY DEF check_and_update_mapper_level
<1>2. used' \in UsedType /\ used'.sent = used.sent /\ used'.untold
  BY <1>1, UsedMissed DEF DirectoryInv, DirectoryShape
<1> QED BY <1>1, <1>2 DEF DirectoryInv, DirectoryShape, Numbering, Current

\* The newest list, once shown, is current; an older one is shown and known to be old.
LEMMA TableKeeps == ASSUME DirectoryInv, NEW q \in queries, UsersTable(q) PROVE DirectoryInv'
<1> USE DEF DirectoryInv
<1>1. /\ q.op = "list" /\ q.phase # "sent" /\ queries' = queries \ {q} /\ people' = people /\ used' = used
  BY DEF UsersTable
<1>2. ChangeAhead' <=> ChangeAhead
  BY <1>1 DEF ChangeAhead
<1>3. CASE q.phase = "failed"
  <2>1. directory' = [directory EXCEPT !.error = TRUE]
    BY <1>3 DEF UsersTable
  <2>2. /\ directory'.newest = directory.newest /\ directory'.loading = directory.loading
        /\ directory'.filters = directory.filters
        /\ directory'.shown = directory.shown /\ directory'.pages = directory.pages
    BY <2>1 DEF DirectoryShape
  <2>3. DirectoryShape'
    BY <1>1, <2>1 DEF DirectoryShape
  <2>4. Numbering'
    BY <1>1, <2>2 DEF Numbering
  <2>5. Current'
    BY <1>1, <1>2, <2>2 DEF Current
  <2> QED BY <2>3, <2>4, <2>5
<1>4. CASE q.phase = "done"
  <2> DEFINE m == IF \E x \in q.got : x.id = directory.menu THEN directory.menu ELSE 0
  <2>1. directory' = [directory EXCEPT !.shown = q.got, !.pages = q.pages, !.newest = q.n, !.loading = FALSE,
                                       !.menu = m]
    BY <1>4 DEF UsersTable
  <2> HIDE DEF m
  <2>2. /\ directory'.newest = q.n /\ directory'.loading = FALSE /\ directory'.filters = directory.filters
        /\ directory'.shown = q.got /\ directory'.pages = q.pages
    BY <2>1 DEF DirectoryShape
  <2>3. DirectoryShape'
    BY <1>1, <2>1 DEF DirectoryShape
  <2>4. Numbering'
    BY <1>1, <2>2 DEF Numbering
  <2>5. Current'
    BY <1>1, <1>2, <1>4, <2>2 DEF Current, Numbering
  <2> QED BY <2>3, <2>4, <2>5
<1> QED BY <1>1, <1>3, <1>4 DEF DirectoryShape

\* An answered change that went through asks for a list; one refused has changed nothing.
LEMMA MenuKeeps == ASSUME DirectoryInv, NEW q \in queries, UserEditMenu(q) PROVE DirectoryInv'
<1>1. CASE q.phase = "done"
  <2>1. fetchUsers(directory.filters, queries \ {q}) /\ Asked(0) /\ people' = people
    BY <1>1 DEF UserEditMenu, setStatus
  <2> QED BY <2>1, FetchKeeps
<1>2. CASE q.phase # "done"
  <2>1. /\ queries' = queries \ {q} /\ directory' = directory /\ used' = used /\ people' = people
    BY <1>2 DEF UserEditMenu
  <2>2. ChangeAhead' <=> ChangeAhead
    BY <1>2, <2>1 DEF ChangeAhead
  <2> QED BY <2>1, <2>2 DEF DirectoryInv, DirectoryShape, Numbering, Current
<1> QED BY <1>1, <1>2

\* What the user clicks: filters and pages ask for a list, the menu opens, or a change is sent.
LEMMA ClicksKeep == ASSUME DirectoryInv, UsersList PROVE DirectoryInv'
<1>1. ASSUME NEW f, fetchUsers(f, queries), Asked(1), people' = people PROVE DirectoryInv'
  BY <1>1, FetchKeeps
<1>2. CASE SearchNav
  BY <1>1, <1>2 DEF SearchNav, updateFilters, clearFilters
<1>3. ASSUME NEW page, PaginatorLine(page) PROVE DirectoryInv'
  BY <1>1, <1>3 DEF PaginatorLine
<1>4. ASSUME NEW u, UserListCard(u) PROVE DirectoryInv'
  <2>1. directory' = [directory EXCEPT !.menu = u] /\ people' = people /\ queries' = queries /\ used' = used
    BY <1>4 DEF UserListCard
  <2>2. /\ directory'.newest = directory.newest /\ directory'.loading = directory.loading
        /\ directory'.filters = directory.filters /\ DOMAIN directory' = DOMAIN directory
        /\ directory'.shown = directory.shown /\ directory'.pages = directory.pages
    BY <2>1 DEF DirectoryInv, DirectoryShape
  <2> QED BY <2>1, <2>2 DEF DirectoryInv, DirectoryShape, Numbering, Current, ChangeAhead
<1>5. ASSUME NEW op \in {"role", "level"}, NEW to, Set(op, to) PROVE DirectoryInv'
  <2>1. /\ queries' = queries \cup {Query(op, 0, NoFilters, directory.menu, to)}
        /\ used' = [used EXCEPT !.clicks = @ + 1] /\ directory' = directory /\ people' = people
    BY <1>5 DEF Set
  <2>2. used' \in UsedType /\ used'.sent = used.sent /\ used'.untold = used.untold
    BY <2>1 DEF DirectoryInv, DirectoryShape, UsedType
  <2>3. ChangeAhead' <=> ChangeAhead
    BY <2>1 DEF ChangeAhead, Query
  <2>4. DirectoryShape' /\ Numbering'
    BY <2>1, <2>2 DEF DirectoryInv, DirectoryShape, Numbering, Query
  <2>5. Current'
    BY <2>1, <2>2, <2>3 DEF DirectoryInv, Current, Query
  <2> QED BY <2>4, <2>5 DEF DirectoryInv
<1> QED BY <1>2, <1>3, <1>4, <1>5 DEF UsersList, updateRole, updateMapperLevel

LEMMA DirectoryStutters == ASSUME DirectoryInv, UNCHANGED directoryVars PROVE DirectoryInv'
  BY DEF directoryVars, DirectoryInv, DirectoryShape, Numbering, Current, ChangeAhead

\* With everything answered no change is ahead, so the newest list is current.
LEMMA CurrentIsShown == DirectoryInv => ListFollowsChanges
  BY DEF DirectoryInv, Numbering, Current, ChangeAhead, ListFollowsChanges

\* The list of users, once everything is answered and the newest list came last, is what the server has for
\* the filters chosen, whatever was changed and in whatever order it was answered before; unless, since that
\* list was made, a change was made whose answer was lost (user/list.js:240-251) or a level rose by itself.
THEOREM ListCorrect == DirectorySpec => []ListFollowsChanges
<1>1. DirectoryInit => DirectoryInv
  BY DirectoryStarts
<1>2. DirectoryInv /\ [DirectoryNext]_directoryVars => DirectoryInv'
  BY DirectoryServeKeeps, LoseKeeps, LevelKeeps, TableKeeps, MenuKeeps, ClicksKeep, DirectoryStutters
  DEF DirectoryNext
<1>3. DirectoryInv => ListFollowsChanges
  BY CurrentIsShown
<1> QED BY <1>1, <1>2, <1>3, PTL DEF DirectorySpec

----------------------------------------------------------------------------
(***************************************************************************)
(* The catalogues: one visit of a page makes one campaign at most, and a   *)
(* project keeps its organisation.                                         *)
(***************************************************************************)

RealIds == Nat \ {0}
EntryOperations == {"list", "load", "create", "update", "delete"}

\* What the page shows: entries have ids from 1, and a visit of the page that creates has a number of its own.
ViewOk ==
  /\ DOMAIN view = {"kind", "at", "id", "mine", "listed", "loaded", "typed", "submitted", "since", "pending",
                    "error", "modal"}
  /\ view.at \in {"list", "create", "edit"} /\ view.pending \in BOOLEAN /\ view.listed \subseteq RealIds
  /\ view.at = "edit" => view.id \in RealIds
  /\ view.modal # "closed" => view.at = "edit"
  /\ view.at = "create" => view.id \in Nat /\ view.id < steps

\* A request names an entry by a real id; a deletion that passed the check found no project.
RequestOk(r, kind) ==
  /\ DOMAIN r = {"kind", "op", "id", "name", "phase", "got"} /\ r.op \in EntryOperations
  /\ r.op \in {"delete", "update"} => r.id \in RealIds
  /\ r.op \in {"list", "create"} => r.got \subseteq RealIds
  /\ r.op = "delete" => r.kind = kind /\ (r.phase = "checked" => r.got = {})

\* Names are unique, and the organisation of the project of others exists.
EntriesOk ==
  /\ \A e \in entries : DOMAIN e = {"id", "name"} /\ e.id \in RealIds
  /\ \A e, f \in entries : e.name = f.name => e = f
  /\ view.kind # "organisations" => owner = 0
  /\ owner # 0 => \E e \in entries : e.id = owner

\* A visit of the page has one request to create a campaign at a time and none after it has made one; while
\* the page still shows it, the button is disabled.
Creations == {r \in sent : r.op = "create"}
VisitsOk ==
  /\ \A r, s \in Creations : r.id = s.id => r = s
  /\ \A r \in Creations :
       /\ r.id \in Nat /\ r.id < steps /\ (view.at = "create" /\ view.id = r.id => view.pending)
       /\ \A a \in made : a.visit = r.id => r.phase = "done"
  /\ \A a \in made : a.visit \in Nat /\ a.visit < steps /\ (view.at = "create" /\ view.id = a.visit => view.pending)
  /\ \A a, b \in made : a.visit = b.visit => a = b

CatalogueInv ==
  /\ steps \in Nat /\ IsFiniteSet(made)
  /\ ViewOk /\ EntriesOk /\ (\A r \in sent : RequestOk(r, view.kind)) /\ (view.kind = "campaigns" => VisitsOk)

----------------------------------------------------------------------------
\* What a page and a request consist of.
LEMMA ViewFields ==
  ASSUME NEW kind, NEW at
  PROVE  LET p == Page(kind, at) IN
           /\ DOMAIN p = {"kind", "at", "id", "mine", "listed", "loaded", "typed", "submitted", "since", "pending",
                          "error", "modal"}
           /\ p.kind = kind /\ p.at = at /\ p.listed = {} /\ p.pending \in BOOLEAN /\ p.modal = "closed"
  BY DEF Page

LEMMA EntryRequestFields ==
  ASSUME NEW kind, NEW op, NEW id, NEW name
  PROVE  LET r == Request(kind, op, id, name) IN
           /\ DOMAIN r = {"kind", "op", "id", "name", "phase", "got"}
           /\ r.kind = kind /\ r.op = op /\ r.id = id /\ r.phase = "sent" /\ r.got = {}
  BY DEF Request

LEMMA NewEntryRequest ==
  ASSUME NEW kind, NEW op \in EntryOperations, NEW id, NEW name, op \in {"delete", "update"} => id \in RealIds
  PROVE  RequestOk(Request(kind, op, id, name), kind)
  BY EntryRequestFields DEF RequestOk

\* A request that the server settles is the same request with an answer.
LEMMA SettledFields ==
  ASSUME NEW kind, NEW r, RequestOk(r, kind), NEW phase, NEW got
  PROVE  LET s == [r EXCEPT !.phase = phase, !.got = got] IN
           /\ DOMAIN s = {"kind", "op", "id", "name", "phase", "got"}
           /\ s.kind = r.kind /\ s.op = r.op /\ s.id = r.id /\ s.phase = phase /\ s.got = got
  BY DEF RequestOk

LEMMA SettleIsOk ==
  ASSUME NEW r \in sent, NEW phase, NEW got, Settle(r, phase, got), \A q \in sent : RequestOk(q, view.kind),
         r.op \in {"list", "create"} => got \subseteq RealIds,
         r.op = "delete" /\ phase = "checked" => got = {}
  PROVE  /\ \A q \in sent' : RequestOk(q, view.kind)
         /\ \A q \in Creations' : q \in Creations \/ (r \in Creations /\ q.id = r.id /\ q.phase = phase)
         /\ r.op # "create" => Creations' = Creations
<1> DEFINE s == [r EXCEPT !.phase = phase, !.got = got]
<1>1. sent' = (sent \ {r}) \cup {s}
  BY DEF Settle
<1>2. /\ DOMAIN s = {"kind", "op", "id", "name", "phase", "got"}
      /\ s.kind = r.kind /\ s.op = r.op /\ s.id = r.id /\ s.phase = phase /\ s.got = got
  BY SettledFields
<1> HIDE DEF s
<1>3. RequestOk(s, view.kind)
  BY <1>2 DEF RequestOk
<1> QED BY <1>1, <1>2, <1>3 DEF Creations

\* Two settled creations with one visit are one: what is settled took the place of its request.
LEMMA SettledCreations ==
  ASSUME NEW r \in Creations, NEW phase, NEW got, Settle(r, phase, got), RequestOk(r, view.kind),
         \A q, s \in Creations : q.id = s.id => q = s
  PROVE  /\ \A q, s \in Creations' : q.id = s.id => q = s
         /\ \A q \in Creations' : q.id = r.id => q.phase = phase
         /\ \A q \in Creations' : q.id = r.id \/ q \in Creations
<1> DEFINE t == [r EXCEPT !.phase = phase, !.got = got]
<1>1. sent' = (sent \ {r}) \cup {t}
  BY DEF Settle
<1>2. t.op = r.op /\ t.id = r.id /\ t.phase = phase
  BY SettledFields
<1> HIDE DEF t
<1>3. Creations' = (Creations \ {r}) \cup {t}
  BY <1>1, <1>2 DEF Creations
<1> QED BY <1>2, <1>3

\* What moves no visit on leaves the visits as they are.
LEMMA VisitsStay ==
  ASSUME VisitsOk, steps \in Nat, made' = made, Creations' \subseteq Creations, steps' \in Nat, steps <= steps',
         view'.at = "create" => \/ view.at = "create" /\ view'.id = view.id /\ view'.pending = view.pending
                                \/ view'.id = steps
  PROVE  VisitsOk'
<1>1. \A r, s \in Creations' : r.id = s.id => r = s
  BY DEF VisitsOk
<1>2. ASSUME NEW r \in Creations'
      PROVE  /\ r.id \in Nat /\ r.id < steps' /\ (view'.at = "create" /\ view'.id = r.id => view'.pending)
             /\ \A a \in made' : a.visit = r.id => r.phase = "done"
  BY <1>2 DEF VisitsOk
<1>3. ASSUME NEW a \in made'
      PROVE  a.visit \in Nat /\ a.visit < steps' /\ (view'.at = "create" /\ view'.id = a.visit => view'.pending)
  BY <1>3 DEF VisitsOk
<1> QED BY <1>1, <1>2, <1>3 DEF VisitsOk

----------------------------------------------------------------------------
LEMMA CatalogueStarts == ASSUME CatalogueInit PROVE CatalogueInv
<1>1. PICK k \in Kinds, n \in Names : /\ view = Page(k, "list") /\ entries = {[id |-> 1, name |-> n]}
                                      /\ sent = {Request(k, "list", 0, "all")}
  BY DEF CatalogueInit
<1>2. owner = 0 /\ made = {} /\ steps = 0
  BY DEF CatalogueInit
<1>3. ViewOk /\ view.kind = k
  BY <1>1, <1>2 DEF ViewOk, Page
<1>4. EntriesOk
  BY <1>1, <1>2 DEF EntriesOk, RealIds
<1>5. \A r \in sent : RequestOk(r, view.kind)
  BY <1>1, <1>3, NewEntryRequest DEF EntryOperations
<1>6. VisitsOk
  BY <1>1, <1>2, EntryRequestFields DEF VisitsOk, Creations
<1> QED BY <1>2, <1>3, <1>4, <1>5, <1>6, FS_EmptySet DEF CatalogueInv

\* Where the server has the entries as before, or others than the owner's, the page's part stands.
LEMMA ServerKeeps ==
  ASSUME CatalogueInv, view' = view, steps' = steps, IsFiniteSet(made'), EntriesOk',
         \A q \in sent' : RequestOk(q, view.kind), view.kind = "campaigns" => VisitsOk'
  PROVE  CatalogueInv'
  BY DEF CatalogueInv, ViewOk

LEMMA CreateIsOk == ASSUME CatalogueInv, NEW r \in sent, Create(r) PROVE CatalogueInv'
<1>1. r.op = "create" /\ r.phase = "sent" /\ view' = view /\ steps' = steps /\ owner' = owner /\ r \in Creations
  BY DEF Create, Creations
<1>2. RequestOk(r, view.kind) /\ \A q \in sent : RequestOk(q, view.kind)
  BY DEF CatalogueInv
<1>3. CASE Unused(r.name) /\ Cardinality(made) < MaxEntries - 1
  <2> DEFINE new == Cardinality(made) + 2
             m == [visit |-> r.id, id |-> new]
  <2>1. new \in RealIds
    BY FS_CardinalityType DEF CatalogueInv, RealIds
  <2> HIDE DEF new
  <2>2. entries' = entries \cup {[id |-> new, name |-> r.name]} /\ made' = made \cup {m} /\ Settle(r, "done", {new})
    BY <1>3 DEF Create, new
  <2>3. m.visit = r.id
    OBVIOUS
  <2> HIDE DEF m
  <2>4. IsFiniteSet(made')
    BY <2>2, FS_AddElement DEF CatalogueInv
  <2>5. EntriesOk'
    <3>1. \A e \in entries : e.name # r.name
      BY <1>3 DEF Unused, NamesTaken
    <3> QED BY <1>1, <2>1, <2>2, <3>1 DEF CatalogueInv, EntriesOk
  <2>6. \A q \in sent' : RequestOk(q, view.kind)
    BY <1>1, <1>2, <2>1, <2>2, SettleIsOk
  <2>7. ASSUME VisitsOk PROVE VisitsOk'
    <3>1. /\ \A q, s \in Creations' : q.id = s.id => q = s
          /\ \A q \in Creations' : q.id = r.id => q.phase = "done"
          /\ \A q \in Creations' : q.id = r.id \/ q \in Creations
      BY <1>1, <1>2, <2>2, <2>7, SettledCreations DEF VisitsOk
    <3>2. \A a \in made : a.visit # r.id
      BY <1>1, <2>7 DEF VisitsOk
    <3>3. r.id \in Nat /\ r.id < steps /\ (view.at = "create" /\ view.id = r.id => view.pending)
      BY <1>1, <2>7 DEF VisitsOk
    <3>4. ASSUME NEW q \in Creations'
          PROVE  /\ q.id \in Nat /\ q.id < steps' /\ (view'.at = "create" /\ view'.id = q.id => view'.pending)
                 /\ \A a \in made' : a.visit = q.id => q.phase = "done"
      BY <1>1, <2>2, <2>3, <2>7, <3>1, <3>3, <3>4 DEF VisitsOk
    <3>5. ASSUME NEW a \in made'
          PROVE  a.visit \in Nat /\ a.visit < steps' /\ (view'.at = "create" /\ view'.id = a.visit => view'.pending)
      BY <1>1, <2>2, <2>3, <2>7, <3>3 DEF VisitsOk
    <3>6. \A a, b \in made' : a.visit = b.visit => a = b
      BY <2>2, <2>3, <2>7, <3>2 DEF VisitsOk
    <3> QED BY <3>1, <3>4, <3>5, <3>6 DEF VisitsOk
  <2> QED BY <1>1, <2>4, <2>5, <2>6, <2>7, ServerKeeps DEF CatalogueInv
<1>4. CASE ~(Unused(r.name) /\ Cardinality(made) < MaxEntries - 1)
  <2>1. UNCHANGED <<entries, made>> /\ Settle(r, "refused", {})
    BY <1>4 DEF Create
  <2>2. EntriesOk' /\ IsFiniteSet(made')
    BY <1>1, <2>1 DEF CatalogueInv, EntriesOk
  <2>3. \A q \in sent' : RequestOk(q, view.kind)
    BY <1>1, <1>2, <2>1, SettleIsOk
  <2>4. ASSUME VisitsOk PROVE VisitsOk'
    <3>1. /\ \A q, s \in Creations' : q.id = s.id => q = s
          /\ \A q \in Creations' : q.id = r.id \/ q \in Creations
      BY <1>1, <1>2, <2>1, <2>4, SettledCreations DEF VisitsOk
    <3>2. (\A a \in made : a.visit # r.id) /\ r.id \in Nat /\ r.id < steps
          /\ (view.at = "create" /\ view.id = r.id => view.pending)
      BY <1>1, <2>4 DEF VisitsOk
    <3>3. ASSUME NEW q \in Creations'
          PROVE  /\ q.id \in Nat /\ q.id < steps' /\ (view'.at = "create" /\ view'.id = q.id => view'.pending)
                 /\ \A a \in made' : a.visit = q.id => q.phase = "done"
      BY <1>1, <2>1, <2>4, <3>1, <3>2, <3>3 DEF VisitsOk
    <3> QED BY <1>1, <2>1, <2>4, <3>1, <3>3 DEF VisitsOk
  <2> QED BY <1>1, <2>2, <2>3, <2>4, ServerKeeps DEF CatalogueInv
<1> QED BY <1>3, <1>4

\* The other answers of the server touch no creation.
LEMMA AnswerIsOk ==
  ASSUME CatalogueInv, NEW r \in sent, Update(r) \/ Read(r) \/ DeleteChecked(r) \/ DeleteCommits(r)
  PROVE  CatalogueInv'
<1>1. r.op # "create" /\ view' = view /\ steps' = steps /\ made' = made
  BY DEF Update, Read, DeleteChecked, DeleteCommits
<1>2. RequestOk(r, view.kind) /\ (\A q \in sent : RequestOk(q, view.kind)) /\ EntriesOk
  BY DEF CatalogueInv
<1>3. ASSUME NEW phase, NEW got, Settle(r, phase, got), r.op = "list" => got \subseteq RealIds,
             r.op = "delete" /\ phase = "checked" => got = {}, EntriesOk'
      PROVE  CatalogueInv'
  <2>1. (\A q \in sent' : RequestOk(q, view.kind)) /\ Creations' = Creations
    BY <1>1, <1>2, <1>3, SettleIsOk
  <2>2. VisitsOk => VisitsOk'
    BY <1>1, <2>1, VisitsStay DEF CatalogueInv
  <2> QED BY <1>1, <1>3, <2>1, <2>2, ServerKeeps DEF CatalogueInv
<1>4. CASE Update(r)
  <2>1. CASE Exists(r.id) /\ (Unused(r.name) \/ Entry(r.id).name = r.name)
    <3>1. entries' = (entries \ {Entry(r.id)}) \cup {[id |-> r.id, name |-> r.name]} /\ Settle(r, "done", {}) /\ owner' = owner
      BY <1>4, <2>1 DEF Update
    <3>2. Entry(r.id) \in entries /\ Entry(r.id).id = r.id
      BY <2>1 DEF Exists, Entry
    <3>3. r.id \in RealIds
      BY <1>2, <1>4 DEF Update, RequestOk
    <3>4. \A e \in entries : e # Entry(r.id) => e.name # r.name
      BY <1>2, <2>1, <3>2 DEF EntriesOk, Unused, NamesTaken
    <3> DEFINE n == [id |-> r.id, name |-> r.name]
               o == Entry(r.id)
    <3>5. n.id = r.id /\ n.name = r.name /\ DOMAIN n = {"id", "name"}
      OBVIOUS
    <3>6. entries' = (entries \ {o}) \cup {n} /\ o \in entries /\ o.id = r.id /\ \A e \in entries : e # o => e.name # r.name
      BY <3>1, <3>2, <3>4
    <3> HIDE DEF n, o
    <3>7. \A e \in entries' : DOMAIN e = {"id", "name"} /\ e.id \in RealIds
      BY <1>2, <3>3, <3>5, <3>6 DEF EntriesOk
    <3>8. \A e, f \in entries' : e.name = f.name => e = f
      BY <1>2, <3>5, <3>6 DEF EntriesOk
    <3>9. owner # 0 => \E e \in entries' : e.id = owner
      BY <1>2, <3>5, <3>6 DEF EntriesOk
    <3>10. EntriesOk'
      BY <1>1, <1>2, <3>1, <3>7, <3>8, <3>9 DEF EntriesOk
    <3> QED BY <1>3, <3>1, <3>10
  <2>2. CASE ~(Exists(r.id) /\ (Unused(r.name) \/ Entry(r.id).name = r.name))
    <3>1. UNCHANGED <<entries, owner>> /\ Settle(r, "refused", {})
      BY <1>4, <2>2 DEF Update
    <3> QED BY <1>1, <1>2, <1>3, <3>1 DEF EntriesOk
  <2> QED BY <2>1, <2>2
<1>5. CASE Read(r)
  <2>1. EntriesOk'
    BY <1>2, <1>5 DEF Read, EntriesOk
  <2>2. {e.id : e \in entries} \subseteq RealIds
    BY <1>2 DEF EntriesOk
  <2>3. CASE r.op = "list"
    <3>1. Settle(r, "done", IF r.name = "all" THEN {e.id : e \in entries} ELSE {1} \cap {e.id : e \in entries})
      BY <1>5, <2>3 DEF Read
    <3> QED BY <1>3, <2>1, <2>2, <2>3, <3>1
  <2>4. CASE r.op = "load"
    <3>1. Settle(r, "done", {Entry(r.id).name}) \/ Settle(r, "refused", {})
      BY <1>5, <2>4 DEF Read
    <3> QED BY <1>3, <2>1, <2>4, <3>1
  <2> QED BY <1>5, <2>3, <2>4 DEF Read
<1>6. CASE DeleteChecked(r)
  <2>1. EntriesOk' /\ r.op = "delete" /\ r.kind = view.kind /\ r.id \in RealIds
    BY <1>2, <1>6 DEF DeleteChecked, EntriesOk, RequestOk
  <2>2. CASE ~Exists(r.id) \/ (r.kind = "organisations" /\ ~can_be_deleted(r.id))
    BY <1>3, <1>6, <2>1, <2>2 DEF DeleteChecked
  <2>3. CASE ~(~Exists(r.id) \/ (r.kind = "organisations" /\ ~can_be_deleted(r.id)))
    <3>1. owner # r.id
      BY <1>2, <2>1, <2>3 DEF can_be_deleted, EntriesOk, RealIds
    <3>2. Settle(r, "checked", {owner} \cap {r.id}) /\ {owner} \cap {r.id} = {}
      BY <1>6, <2>3, <3>1 DEF DeleteChecked
    <3> QED BY <1>3, <2>1, <3>2
  <2> QED BY <2>2, <2>3
<1>7. CASE DeleteCommits(r)
  <2>1. r.op = "delete" /\ r.kind = view.kind /\ r.id \in RealIds /\ r.got = {}
    BY <1>2, <1>7 DEF DeleteCommits, RequestOk
  <2>2. CASE ~Exists(r.id) \/ (r.kind = "organisations" /\ owner = r.id /\ r.got = {})
    <3>1. UNCHANGED <<entries, owner>> /\ Settle(r, "refused", {})
      BY <1>7, <2>2 DEF DeleteCommits
    <3> QED BY <1>1, <1>2, <1>3, <3>1 DEF EntriesOk
  <2>3. CASE ~(~Exists(r.id) \/ (r.kind = "organisations" /\ owner = r.id /\ r.got = {}))
    <3>1. entries' = {e \in entries : e.id # r.id} /\ owner' = owner /\ Settle(r, "done", {})
      BY <1>7, <2>1, <2>3 DEF DeleteCommits
    <3>2. owner # r.id
      BY <1>2, <2>1, <2>3 DEF EntriesOk, RealIds
    <3>3. EntriesOk'
      BY <1>1, <1>2, <3>1, <3>2 DEF EntriesOk
    <3> QED BY <1>3, <3>1, <3>3
  <2> QED BY <2>2, <2>3
<1> QED BY <1>4, <1>5, <1>6, <1>7

\* Others rename an entry, or take it for their project.
LEMMA OthersAreOk == ASSUME CatalogueInv, Others PROVE CatalogueInv'
<1>1. view' = view /\ sent' = sent /\ made' = made /\ steps' = steps + 1 /\ steps \in Nat
  BY DEF Others, Step, CatalogueInv
<1>2. EntriesOk'
  <2>1. CASE /\ \E e \in entries, n \in Names : Unused(n) /\ entries' = (entries \ {e}) \cup {[e EXCEPT !.name = n]}
             /\ UNCHANGED owner
    <3>1. PICK o \in entries, n \in Names : Unused(n) /\ entries' = (entries \ {o}) \cup {[o EXCEPT !.name = n]}
      BY <2>1
    <3> DEFINE f == [o EXCEPT !.name = n]
    <3>2. f.id = o.id /\ f.name = n /\ DOMAIN f = {"id", "name"}
      BY DEF CatalogueInv, EntriesOk
    <3>3. \A e \in entries : e.name # n
      BY <3>1 DEF Unused, NamesTaken
    <3>4. entries' = (entries \ {o}) \cup {f}
      BY <3>1
    <3> HIDE DEF f
    <3> QED BY <1>1, <2>1, <3>2, <3>3, <3>4 DEF CatalogueInv, EntriesOk
  <2>2. CASE view.kind = "organisations" /\ (\E e \in entries : owner' = e.id) /\ UNCHANGED entries
    BY <1>1, <2>2 DEF CatalogueInv, EntriesOk
  <2> QED BY <2>1, <2>2 DEF Others
<1>3. ViewOk'
  BY <1>1 DEF CatalogueInv, ViewOk
<1>4. VisitsOk => VisitsOk'
  BY <1>1, VisitsStay DEF Creations
<1> QED BY <1>1, <1>2, <1>3, <1>4 DEF CatalogueInv

----------------------------------------------------------------------------
\* What happens on the page and creates nothing.
LEMMA PageKeeps ==
  ASSUME CatalogueInv, UNCHANGED <<entries, owner, made>>, ViewOk', view'.kind = view.kind,
         steps' \in {steps, steps + 1}, \A q \in sent' : RequestOk(q, view.kind), Creations' \subseteq Creations,
         view'.at = "create" => \/ view.at = "create" /\ view'.id = view.id /\ view'.pending = view.pending
                                \/ view'.id = steps
  PROVE  CatalogueInv'
<1>1. VisitsOk => VisitsOk'
  BY VisitsStay DEF CatalogueInv
<1> QED BY <1>1 DEF CatalogueInv, EntriesOk

\* The requests when one is taken away, or one is added that creates nothing.
LEMMA RequestDropped ==
  ASSUME CatalogueInv, NEW r, sent' = sent \ {r}
  PROVE  (\A q \in sent' : RequestOk(q, view.kind)) /\ Creations' \subseteq Creations
  BY DEF CatalogueInv, Creations
LEMMA RequestAdded ==
  ASSUME CatalogueInv, NEW op \in {"list", "load", "update", "delete"}, NEW id, NEW name,
         op \in {"delete", "update"} => id \in RealIds,
         sent' \subseteq sent \cup {Request(view.kind, op, id, name)}
  PROVE  (\A q \in sent' : RequestOk(q, view.kind)) /\ Creations' \subseteq Creations
<1>1. RequestOk(Request(view.kind, op, id, name), view.kind) /\ Request(view.kind, op, id, name).op = op
  BY NewEntryRequest, EntryRequestFields DEF EntryOperations
<1> QED BY <1>1 DEF CatalogueInv, Creations

\* The list.
LEMMA EntriesListKeeps ==
  ASSUME CatalogueInv, (\E mine \in BOOLEAN : ListOrganisations(mine)) \/ (\E r \in sent : Listed(r)) \/ Management
  PROVE  CatalogueInv'
<1>0. ViewOk /\ steps \in Nat
  BY DEF CatalogueInv
<1>1. ASSUME NEW mine \in BOOLEAN, ListOrganisations(mine) PROVE CatalogueInv'
  <2>1. view' = [view EXCEPT !.mine = mine] /\ steps' = steps + 1 /\ UNCHANGED <<entries, owner, made>> /\ view.at = "list"
        /\ sent' = sent \cup {Request(view.kind, "list", 0, IF mine THEN "mine" ELSE "all")}
    BY <1>1 DEF ListOrganisations, Step
  <2>2. ViewOk' /\ view'.kind = view.kind /\ view'.at = "list"
    BY <1>0, <2>1 DEF ViewOk
  <2>3. (\A q \in sent' : RequestOk(q, view.kind)) /\ Creations' \subseteq Creations
    BY <2>1, RequestAdded
  <2> QED BY <2>1, <2>2, <2>3, PageKeeps
<1>2. ASSUME NEW r \in sent, Listed(r) PROVE CatalogueInv'
  <2>1. /\ view' = IF view.at = "list" THEN [view EXCEPT !.listed = r.got] ELSE view
        /\ UNCHANGED <<entries, owner, made, steps>> /\ sent' = sent \ {r} /\ r.op = "list"
    BY <1>2 DEF Listed
  <2>2. r.got \subseteq RealIds
    BY <2>1 DEF CatalogueInv, RequestOk
  <2>3. ViewOk' /\ view'.kind = view.kind /\ view'.at = view.at /\ view'.id = view.id /\ view'.pending = view.pending
    BY <1>0, <2>1, <2>2 DEF ViewOk
  <2> QED BY <2>1, <2>3, RequestDropped, PageKeeps
<1>3. CASE NewEntry
  <2>1. view' = [Page(view.kind, "create") EXCEPT !.id = steps] /\ steps' = steps + 1 /\ sent' = sent
        /\ UNCHANGED <<entries, owner, made>>
    BY <1>3 DEF NewEntry, Step
  <2> DEFINE p == Page(view.kind, "create")
  <2>2. DOMAIN p = DOMAIN view /\ p.kind = view.kind /\ p.at = "create" /\ p.listed = {} /\ p.pending \in BOOLEAN /\ p.modal = "closed"
    BY <1>0 DEF ViewOk, Page
  <2>3. view' = [p EXCEPT !.id = steps]
    BY <2>1
  <2> HIDE DEF p
  <2>4. DOMAIN view' = DOMAIN view /\ view'.kind = view.kind /\ view'.at = "create" /\ view'.listed = {} /\ view'.pending \in BOOLEAN
        /\ view'.modal = "closed" /\ view'.id = steps
    BY <1>0, <2>2, <2>3 DEF ViewOk
  <2>5. ViewOk'
    BY <1>0, <2>1, <2>4 DEF ViewOk
  <2> QED BY <2>1, <2>4, <2>5, PageKeeps DEF CatalogueInv, Creations
<1>4. ASSUME NEW i \in Ids, OpenEntry(i) PROVE CatalogueInv'
  <2>1. view' = [Page(view.kind, "edit") EXCEPT !.id = i] /\ steps' = steps + 1 /\ i \in view.listed
        /\ UNCHANGED <<entries, owner, made>> /\ sent' = sent \cup {Request(view.kind, "load", i, "")}
    BY <1>4 DEF OpenEntry, Step
  <2>2. ViewOk' /\ view'.kind = view.kind /\ view'.at = "edit"
    BY <1>0, <2>1 DEF ViewOk, Page
  <2> QED BY <2>1, <2>2, RequestAdded, PageKeeps
<1> QED BY <1>1, <1>2, <1>3, <1>4 DEF Management

\* The forms of an entry, and its dialog: a page of an entry stays one.
LEMMA EntryKeeps ==
  ASSUME CatalogueInv, EntryForm \/ DeleteModal \/ Loads \/ Leave PROVE CatalogueInv'
<1>0. ViewOk /\ steps \in Nat
  BY DEF CatalogueInv
<1>1. ASSUME NEW n \in Names, Type(n) PROVE CatalogueInv'
  <2>1. view' = [view EXCEPT !.typed = n, !.since = TRUE, !.error = @ /\ ~(view.kind = "campaigns" /\ view.at = "edit")]
        /\ steps' = steps + 1 /\ sent' = sent /\ UNCHANGED <<entries, owner, made>>
    BY <1>1 DEF Type, Step
  <2>2. ViewOk' /\ view'.kind = view.kind /\ view'.at = view.at /\ view'.id = view.id /\ view'.pending = view.pending
    BY <1>0, <2>1 DEF ViewOk
  <2> QED BY <2>1, <2>2, PageKeeps DEF CatalogueInv, Creations
<1>2. CASE SaveEntry
  <2>1. view' = [view EXCEPT !.submitted = TRUE, !.since = FALSE, !.pending = Awaited(view.kind)] /\ view.at = "edit"
        /\ sent' = sent \cup {Request(view.kind, "update", view.id, view.typed)}
        /\ steps' = steps + 1 /\ UNCHANGED <<entries, owner, made>>
    BY <1>2 DEF SaveEntry, Step
  <2>2. ViewOk' /\ view'.kind = view.kind /\ view'.at = "edit"
    BY <1>0, <2>1 DEF ViewOk, Awaited
  <2>3. view.id \in RealIds
    BY <1>0, <2>1 DEF ViewOk
  <2>4. (\A q \in sent' : RequestOk(q, view.kind)) /\ Creations' \subseteq Creations
    BY <2>1, <2>3, RequestAdded
  <2> QED BY <2>1, <2>2, <2>4, PageKeeps
<1>3. CASE RestartForm
  <2>1. view' = [view EXCEPT !.typed = view.loaded, !.submitted = FALSE, !.since = FALSE] /\ view.at = "edit"
        /\ sent' = sent /\ steps' = steps + 1 /\ UNCHANGED <<entries, owner, made>>
    BY <1>3 DEF RestartForm, Step
  <2>2. ViewOk' /\ view'.kind = view.kind /\ view'.at = "edit"
    BY <1>0, <2>1 DEF ViewOk
  <2> QED BY <2>1, <2>2, PageKeeps DEF CatalogueInv, Creations
<1>4. ASSUME NEW r \in sent, Saved(r) PROVE CatalogueInv'
  <2>1. sent' = sent \ {r} /\ UNCHANGED <<entries, owner, made, steps>>
        /\ view' = IF view.at # "edit" THEN view
             ELSE [view EXCEPT !.pending = FALSE, !.error = ShowsErrors(view.kind) /\ r.phase = "refused"]
    BY <1>4 DEF Saved
  <2>2. ViewOk' /\ view'.kind = view.kind /\ view'.at = view.at /\ (view.at = "create" => view' = view)
    BY <1>0, <2>1 DEF ViewOk
  <2> QED BY <2>1, <2>2, RequestDropped, PageKeeps
<1>5. ASSUME NEW r \in sent, EntryLoaded(r) PROVE CatalogueInv'
  <2>1. sent' = sent \ {r} /\ UNCHANGED <<entries, owner, made, steps>>
        /\ view' = IF view.at = "edit" /\ view.id = r.id /\ r.phase = "done"
             THEN [view EXCEPT !.loaded = CHOOSE n \in r.got : TRUE, !.typed = CHOOSE n \in r.got : TRUE]
             ELSE view
    BY <1>5 DEF EntryLoaded
  <2>2. ViewOk' /\ view'.kind = view.kind /\ view'.at = view.at /\ (view.at = "create" => view' = view)
    BY <1>0, <2>1 DEF ViewOk
  <2> QED BY <2>1, <2>2, RequestDropped, PageKeeps
<1>6. CASE DeleteButton \/ CloseModal
  <2>1. PICK m \in {"asked", "closed"} : view' = [view EXCEPT !.modal = m] /\ (m = "asked" => view.at = "edit")
    BY <1>6 DEF DeleteButton, CloseModal
  <2>2. sent' = sent /\ steps' = steps + 1 /\ UNCHANGED <<entries, owner, made>>
    BY <1>6 DEF DeleteButton, CloseModal, Step
  <2>3. ViewOk' /\ view'.kind = view.kind /\ view'.at = view.at /\ view'.id = view.id /\ view'.pending = view.pending
    BY <1>0, <2>1, <2>2 DEF ViewOk
  <2> QED BY <2>2, <2>3, PageKeeps DEF CatalogueInv, Creations
<1>7. CASE deleteEntity
  <2>1. view' = [view EXCEPT !.modal = "started"] /\ view.modal = "asked"
        /\ sent' = sent \cup {Request(view.kind, "delete", view.id, "")}
        /\ steps' = steps + 1 /\ UNCHANGED <<entries, owner, made>>
    BY <1>7 DEF deleteEntity, Step
  <2>2. ViewOk' /\ view'.kind = view.kind /\ view'.at = "edit" /\ view.id \in RealIds
    BY <1>0, <2>1 DEF ViewOk
  <2>3. (\A q \in sent' : RequestOk(q, view.kind)) /\ Creations' \subseteq Creations
    BY <2>1, <2>2, RequestAdded
  <2> QED BY <2>1, <2>2, <2>3, PageKeeps
<1>8. CASE Leave \/ \E r \in sent : BackToList(r)
  <2>1. CASE view' = view /\ UNCHANGED <<entries, owner, made, steps>> /\ \E r \in sent : sent' = sent \ {r}
    BY <1>0, <2>1, RequestDropped, PageKeeps DEF ViewOk
  <2>0. CASE ~(view' = view /\ UNCHANGED <<entries, owner, made, steps>> /\ \E r \in sent : sent' = sent \ {r})
    <3>1. view' = Page(view.kind, "list") /\ sent' \subseteq sent \cup {Request(view.kind, "list", 0, "all")}
          /\ steps' \in {steps, steps + 1} /\ UNCHANGED <<entries, owner, made>>
      BY <1>8, <2>0 DEF BackToList, Leave, Step
    <3>2. ViewOk' /\ view'.kind = view.kind /\ view'.at = "list"
      BY <1>0, <3>1 DEF ViewOk, Page
    <3>3. (\A q \in sent' : RequestOk(q, view.kind)) /\ Creations' \subseteq Creations
      BY <3>1, RequestAdded
    <3> QED BY <3>1, <3>2, <3>3, PageKeeps
  <2> QED BY <2>1, <2>0
<1>9. ASSUME NEW r \in sent, Deleted(r) PROVE CatalogueInv'
  <2> DEFINE t == [r EXCEPT !.phase = "timer"]
  <2>1. sent' \subseteq (sent \ {r}) \cup {t} /\ UNCHANGED <<entries, owner, made, steps>> /\ r.op = "delete"
        /\ view' = IF view.at # "edit" \/ view.id # r.id THEN view
             ELSE [view EXCEPT !.modal = IF r.phase = "done" THEN "success" ELSE "failure"]
    BY <1>9 DEF Deleted
  <2>3. RequestOk(t, view.kind) /\ t.op = "delete"
    BY <2>1 DEF CatalogueInv, RequestOk
  <2> HIDE DEF t
  <2>4. (\A q \in sent' : RequestOk(q, view.kind)) /\ Creations' \subseteq Creations
    BY <2>1, <2>3 DEF CatalogueInv, Creations
  <2>2. ViewOk' /\ view'.kind = view.kind /\ view'.at = view.at /\ (view.at = "create" => view' = view)
    BY <1>0, <2>1 DEF ViewOk
  <2> QED BY <2>1, <2>2, <2>4, PageKeeps
<1> QED BY <1>1, <1>2, <1>3, <1>4, <1>5, <1>6, <1>7, <1>8, <1>9 DEF EntryForm, DeleteModal, Loads

----------------------------------------------------------------------------
\* The button of a campaign is disabled while its request is under way, so that no visit has a second one.
LEMMA SubmitKeeps == ASSUME CatalogueInv, CreateEntry PROVE CatalogueInv'
<1> DEFINE new == Request(view.kind, "create", view.id, view.typed)
<1>0. ViewOk /\ steps \in Nat /\ view.pending \in BOOLEAN
  BY DEF CatalogueInv, ViewOk
<1>1. view' = [view EXCEPT !.pending = Awaited(view.kind), !.submitted = TRUE, !.since = FALSE]
      /\ view.at = "create" /\ ~view.pending /\ sent' = sent \cup {new}
      /\ steps' = steps + 1 /\ UNCHANGED <<entries, owner, made>>
  BY DEF CreateEntry, Step, FormSubmitButton
<1>2. new.op = "create" /\ new.id = view.id /\ RequestOk(new, view.kind)
  <2>1. new.op = "create" /\ new.id = view.id
    BY EntryRequestFields
  <2>2. RequestOk(new, view.kind)
    BY NewEntryRequest DEF EntryOperations
  <2> QED BY <2>1, <2>2
<1> HIDE DEF new
<1>3. ViewOk' /\ view'.kind = view.kind /\ view'.at = "create" /\ view'.id = view.id /\ view'.pending = Awaited(view.kind)
  BY <1>0, <1>1 DEF ViewOk, Awaited
<1>4. \A r \in sent' : RequestOk(r, view.kind)
  BY <1>1, <1>2 DEF CatalogueInv
<1>5. Creations' = Creations \cup {new}
  BY <1>1, <1>2 DEF Creations
<1>6. ASSUME VisitsOk, view.kind = "campaigns" PROVE VisitsOk'
  <2>1. view'.pending
    BY <1>3, <1>6 DEF Awaited
  <2>2. (\A r \in Creations : r.id # view.id) /\ (\A a \in made : a.visit # view.id) /\ view.id \in Nat /\ view.id < steps
    BY <1>0, <1>1, <1>6 DEF VisitsOk, ViewOk
  <2> QED BY <1>0, <1>1, <1>2, <1>3, <1>5, <1>6, <2>1, <2>2 DEF VisitsOk
<1>7. EntriesOk'
  BY <1>1, <1>3 DEF CatalogueInv, EntriesOk
<1> QED BY <1>1, <1>3, <1>4, <1>6, <1>7 DEF CatalogueInv

\* Refused, the button is enabled again and the visit has no request; done, the page goes on to the entry.
LEMMA CreatedKeeps == ASSUME CatalogueInv, NEW r \in sent, Created(r) PROVE CatalogueInv'
<1>0. ViewOk /\ steps \in Nat /\ RequestOk(r, view.kind) /\ EntriesOk
  BY DEF CatalogueInv
<1>1. CASE r.phase = "done"
  <2>1. PICK i \in r.got : /\ view' = [Page(view.kind, "edit") EXCEPT !.id = i]
                           /\ sent' = (sent \ {r}) \cup {Request(view.kind, "load", i, "")}
    BY <1>1 DEF Created
  <2>2. UNCHANGED <<entries, owner, made, steps>> /\ r.op = "create"
    BY DEF Created
  <2>3. i \in RealIds
    BY <1>0, <2>2 DEF RequestOk
  <2>4. ViewOk' /\ view'.kind = view.kind /\ view'.at = "edit"
    BY <2>1, <2>3 DEF ViewOk, Page
  <2>5. (\A q \in sent' : RequestOk(q, view.kind)) /\ Creations' \subseteq Creations
    BY <2>1, RequestAdded
  <2> QED BY <2>2, <2>4, <2>5, PageKeeps
<1>2. CASE r.phase # "done"
  <2>1. /\ UNCHANGED <<entries, owner, made, steps>> /\ r.op = "create" /\ sent' = sent \ {r}
        /\ view' = IF view.at = "create" /\ view.id = r.id
                   THEN [view EXCEPT !.pending = FALSE, !.error = ShowsErrors(view.kind)] ELSE view
    BY <1>2 DEF Created
  <2>2. ViewOk' /\ view'.kind = view.kind /\ view'.at = view.at /\ view'.id = view.id
        /\ (view'.pending = view.pending \/ view.id = r.id)
    BY <1>0, <2>1 DEF ViewOk
  <2>3. \A q \in sent' : RequestOk(q, view.kind)
    BY <2>1 DEF CatalogueInv
  <2>4. Creations' = Creations \ {r} /\ r \in Creations
    BY <2>1 DEF Creations
  <2>5. ASSUME VisitsOk PROVE VisitsOk'
    <3>1. \A q \in Creations' : q.id # r.id
      BY <2>4, <2>5 DEF VisitsOk
    <3>2. \A a \in made : a.visit # r.id
      BY <1>2, <2>4, <2>5 DEF VisitsOk
    <3> QED BY <2>1, <2>2, <2>4, <2>5, <3>1, <3>2 DEF VisitsOk
  <2>6. EntriesOk'
    BY <1>0, <2>1, <2>2 DEF EntriesOk
  <2> QED BY <2>1, <2>2, <2>3, <2>5, <2>6 DEF CatalogueInv
<1> QED BY <1>1, <1>2

\* Only a deletion that found a project at its check takes the organisation away from it, and none did.
LEMMA OwnerStays == ASSUME CatalogueInv, CatalogueNext, owner # 0 PROVE owner' # 0
<1>1. ASSUME NEW r \in sent, DeleteCommits(r) PROVE owner' # 0
  <2>1. r.got = {}
    BY <1>1 DEF DeleteCommits, CatalogueInv, RequestOk
  <2> QED BY <1>1, <2>1 DEF DeleteCommits
<1>2. CASE Others
  BY <1>2 DEF Others, CatalogueInv, EntriesOk, RealIds
<1>3. ASSUME ~Others, \A r \in sent : ~DeleteCommits(r) PROVE owner' = owner
  <2>1. CASE \E r \in sent : Create(r) \/ Update(r) \/ Read(r) \/ DeleteChecked(r)
    BY <2>1 DEF Create, Update, Read, DeleteChecked
  <2>2. CASE OrgsManagement \/ CampaignsManagement \/ InterestsManagement \/ LicensesManagement
    BY <2>2 DEF OrgsManagement, CampaignsManagement, InterestsManagement, LicensesManagement, Lists, Management,
      ListOrganisations, Listed, NewEntry, OpenEntry
  <2>3. CASE CreateOrganisation \/ CreateCampaign \/ CreateInterest \/ CreateLicense
    BY <2>3 DEF CreateOrganisation, CreateCampaign, CreateInterest, CreateLicense, Creates, CreateEntry, Created
  <2>4. CASE EntryForm \/ Leave
    BY <2>4 DEF EntryForm, SaveEntry, RestartForm, Type, Saved, Leave
  <2>5. CASE DeleteModal \/ Loads
    BY <2>5 DEF DeleteModal, DeleteButton, CloseModal, deleteEntity, BackToList, Deleted, Loads, EntryLoaded
  <2> QED BY <1>3, <2>1, <2>2, <2>3, <2>4, <2>5 DEF CatalogueNext, EditOrganisation, EditCampaign, EditInterest,
       EditLicense, OrganisationForm, CampaignForm, InterestForm, LicenseForm
<1> QED BY <1>1, <1>2, <1>3

\* Every step.
LEMMA CatalogueStep == ASSUME CatalogueInv, [CatalogueNext]_catalogueVars PROVE CatalogueInv'
<1>1. CASE OrgsManagement \/ CampaignsManagement \/ InterestsManagement \/ LicensesManagement
  BY <1>1, EntriesListKeeps DEF OrgsManagement, CampaignsManagement, InterestsManagement, LicensesManagement, Lists
<1>2. CASE CreateOrganisation \/ CreateCampaign \/ CreateInterest \/ CreateLicense
  BY <1>2, SubmitKeeps, CreatedKeeps DEF CreateOrganisation, CreateCampaign, CreateInterest, CreateLicense, Creates
<1>3. CASE EditOrganisation \/ EditCampaign \/ EditInterest \/ EditLicense \/ Leave
  BY <1>3, EntryKeeps DEF EditOrganisation, EditCampaign, EditInterest, EditLicense, OrganisationForm, CampaignForm,
    InterestForm, LicenseForm
<1>4. CASE Others
  BY <1>4, OthersAreOk
<1>5. CASE \E r \in sent : Create(r) \/ Update(r) \/ Read(r) \/ DeleteChecked(r) \/ DeleteCommits(r)
  BY <1>5, CreateIsOk, AnswerIsOk
<1>6. CASE UNCHANGED catalogueVars
  <2>1. ViewOk'
    BY <1>6 DEF catalogueVars, CatalogueInv, ViewOk
  <2> QED BY <1>6, <2>1, PageKeeps DEF catalogueVars, CatalogueInv, Creations
<1> QED BY <1>1, <1>2, <1>3, <1>4, <1>5, <1>6 DEF CatalogueNext

\* CatalogueInv is an invariant.
LEMMA CatalogueInvHolds == CatalogueSpec => []CatalogueInv
  BY CatalogueStarts, CatalogueStep, PTL DEF CatalogueSpec

\* One visit of the page makes one campaign at most, and names stay unique (CreateEntry, Create).
THEOREM VisitsCorrect == CatalogueSpec => []OneVisitOneEntry
<1>1. CatalogueInv => OneVisitOneEntry
  BY DEF CatalogueInv, EntriesOk, VisitsOk, OneVisitOneEntry
<1> QED BY CatalogueInvHolds, <1>1, PTL

\* A project that has an organisation keeps one that exists (can_be_deleted, DeleteCommits).
THEOREM OrganisationCorrect == CatalogueSpec => ProjectKeepsOrganisation
<1> DEFINE Keeps == owner # 0 => \E e \in entries' : e.id = owner'
<1>1. ASSUME CatalogueInv, [CatalogueNext]_catalogueVars PROVE [Keeps]_catalogueVars
  <2>1. CatalogueInv'
    BY <1>1, CatalogueStep
  <2>2. owner # 0 => owner' # 0
    BY <1>1, OwnerStays DEF catalogueVars
  <2> QED BY <2>1, <2>2 DEF CatalogueInv, EntriesOk
<1> HIDE DEF Keeps
<1>2. CatalogueSpec => [][Keeps]_catalogueVars
  BY CatalogueInvHolds, <1>1, PTL DEF CatalogueSpec
<1> QED BY <1>2 DEF Keeps, ProjectKeepsOrganisation

----------------------------------------------------------------------------
(***************************************************************************)
(* The lists of a search: what is shown was asked for last, on a page that *)
(* its results have.                                                       *)
(***************************************************************************)

Queries == [text : Words, tag : Tags, types : Types, action : {Nothing} \cup Actions, page : Nat]
FirstPages == {q \in Queries : q.page = Nothing}

\* What the state consists of.
IsQuestion(a) == DOMAIN a = {"search", "page"} /\ a.search \in Searches
ListShape(l) == /\ DOMAIN l = {"isLoading", "isError", "of", "pages"}
                /\ l.isLoading \in BOOLEAN /\ l.isError \in BOOLEAN /\ IsQuestion(l.of)
FetchShape(r) == DOMAIN r = {"asked", "heard"} /\ r.heard \in BOOLEAN /\ IsQuestion(r.asked)
BrowsingShape ==
  /\ screen \in {"explore", "mine", "tasks", "stats"} /\ known \in BOOLEAN /\ astray \in BOOLEAN
  /\ url \in Queries /\ throttled \in Queries /\ preference \in {Nothing} \cup Actions /\ layer \subseteq FirstPages
  /\ ListShape(list) /\ \A r \in fetches : FetchShape(r)

\* What the hooks still listen to was asked for the search handed on last.
NowAsked == RequestFor(throttled, preference, known).asked
ListensToTheNewest == \A r \in fetches : r.heard => r.asked = NowAsked

\* The pages offered are those of the results shown.
PagesAreShown == ~list.isLoading /\ ~list.isError => list.pages = ResultPages[list.of.search]

BrowsingInv == BrowsingShape /\ ListensToTheNewest /\ PagesAreShown /\ ShownIsAsked /\ PageWithinResults

----------------------------------------------------------------------------
\* A question to the server names a search, and only on the pages of projects does it look into the store.
LEMMA QuestionFields ==
  ASSUME NEW q \in Queries, NEW pref \in {Nothing} \cup Actions
  PROVE  IsQuestion(remapParamsToAPI(q, pref)) /\ Search(q, pref) \in Searches
<1>1. Search(q, pref) \in Searches
  BY DEF Search, Searches, Queries, Actions, Nothing, Words, Tags, Types
<1> QED BY <1>1 DEF remapParamsToAPI, IsQuestion

\* A request that a page makes is heard once the user is known, and asks the same whether or not he is.
LEMMA SearchRequestFields ==
  ASSUME BrowsingShape, NEW q \in Queries, NEW pref \in {Nothing} \cup Actions, NEW someone \in BOOLEAN
  PROVE  /\ FetchShape(RequestFor(q, pref, someone))
         /\ someone => RequestFor(q, pref, someone).heard
         /\ RequestFor(q, pref, someone).asked = RequestFor(q, pref, TRUE).asked
<1>1. IsQuestion(remapParamsToAPI(q, pref)) /\ IsQuestion(remapParamsToAPI(q, Nothing))
  BY QuestionFields DEF Nothing
<1>2. CASE screen \in {"explore", "mine"}
  BY <1>1, <1>2 DEF RequestFor, useProjectsQueryAPI, FetchShape
<1>3. CASE screen = "tasks"
  BY <1>1, <1>3 DEF RequestFor, useTaskContributionAPI, FetchShape
<1>4. CASE screen = "stats"
  BY <1>1, <1>4 DEF RequestFor, useTasksStatsQueryAPI, FetchShape
<1> QED BY <1>2, <1>3, <1>4 DEF BrowsingShape

\* Whether the user is known changes nothing of what is asked.
LEMMA SameQuestion ==
  ASSUME NEW q, NEW pref, NEW a, NEW b PROVE RequestFor(q, pref, a).asked = RequestFor(q, pref, b).asked
  BY DEF RequestFor, useProjectsQueryAPI, useTaskContributionAPI, useTasksStatsQueryAPI

\* Nobody listens to a request that was cancelled.
LEMMA CancelledFields ==
  ASSUME \A r \in fetches : FetchShape(r), NEW s \in Cancelled(fetches) PROVE FetchShape(s) /\ ~s.heard
<1>1. PICK r \in fetches : s = [r EXCEPT !.heard = FALSE]
  BY DEF Cancelled
<1> QED BY <1>1 DEF FetchShape

LEMMA BrowsingStarts == ASSUME BrowsingInit PROVE BrowsingInv
<1>1. /\ Blank \in Queries /\ [Blank EXCEPT !.action = 2] \in Queries
      /\ Blank.page = 0 /\ [Blank EXCEPT !.action = 2].page = 0
  BY DEF Blank, Queries, Words, Tags, Types, Actions, Nothing
<1>2. throttled \in Queries /\ throttled.page = 0
  BY <1>1 DEF BrowsingInit
<1>3. url \in Queries /\ url.page = 0
  BY <1>2 DEF BrowsingInit, RestrictedToMine, Queries, Types
<1>4. screen \in {"explore", "mine", "tasks", "stats"} /\ known \in BOOLEAN /\ (screen # "tasks" => known)
  BY BrowsingAssumption DEF BrowsingInit
<1>5. /\ ListShape(list) /\ list.isLoading
      /\ preference \in {Nothing} \cup Actions
  <2>1. IsQuestion(remapParamsToAPI(Blank, Nothing))
    BY <1>1, QuestionFields DEF Nothing
  <2> QED BY <2>1 DEF BrowsingInit, ListShape, Actions, Nothing
<1>6. fetches = {RequestFor(throttled, preference, known)}
  BY DEF BrowsingInit
<1>7. /\ FetchShape(RequestFor(throttled, preference, known))
      /\ known => RequestFor(throttled, preference, known).heard
  <2>1. CASE screen \in {"explore", "mine"}
    BY <2>1, <1>2, <1>4, <1>5, QuestionFields DEF RequestFor, useProjectsQueryAPI, FetchShape
  <2>2. CASE screen = "tasks"
    BY <2>2, <1>2, <1>4, QuestionFields DEF RequestFor, useTaskContributionAPI, FetchShape, Nothing
  <2>3. CASE screen = "stats"
    BY <2>3, <1>2, <1>4, QuestionFields DEF RequestFor, useTasksStatsQueryAPI, FetchShape, Nothing
  <2> QED BY <2>1, <2>2, <2>3, <1>4
<1>8. BrowsingShape
  BY <1>2, <1>3, <1>4, <1>5, <1>6, <1>7 DEF BrowsingShape, BrowsingInit
<1>9. ListensToTheNewest /\ ShownIsAsked
  BY <1>5, <1>6, <1>7 DEF ListensToTheNewest, NowAsked, ShownIsAsked
<1> QED BY <1>3, <1>5, <1>8, <1>9 DEF BrowsingInv, PagesAreShown, PageWithinResults

----------------------------------------------------------------------------
\* Whatever is handed on is asked for, and everything older is no longer heard.
LEMMA FetchKeepsNewest ==
  ASSUME BrowsingInv, Fetch(throttled', preference', known'), screen' = screen, known' \in BOOLEAN,
         astray' \in BOOLEAN, url' \in Queries, throttled' \in Queries, preference' \in {Nothing} \cup Actions,
         layer' = layer, PageWithinResults'
  PROVE  BrowsingInv'
<1> DEFINE new == RequestFor(throttled', preference', known')
<1>1. FetchShape(new) /\ (known' => new.heard)
  BY SearchRequestFields DEF BrowsingInv
<1>2. new = RequestFor(throttled, preference, known)' /\ new.asked = NowAsked'
  BY DEF NowAsked, RequestFor, useProjectsQueryAPI, useTaskContributionAPI, useTasksStatsQueryAPI
<1>3. fetches' = Cancelled(fetches) \cup {new} /\ list' = [list EXCEPT !.isLoading = TRUE, !.isError = FALSE]
  BY DEF Fetch
<1> HIDE DEF new
<1>4. \A s \in fetches' : FetchShape(s) /\ (s.heard => s = new)
  BY <1>1, <1>3, CancelledFields DEF BrowsingInv, BrowsingShape
<1>5. ListShape(list') /\ list'.isLoading
  BY <1>3 DEF BrowsingInv, BrowsingShape, ListShape
<1>6. BrowsingShape'
  BY <1>4, <1>5 DEF BrowsingInv, BrowsingShape
<1>7. ListensToTheNewest'
  BY <1>2, <1>4 DEF ListensToTheNewest
<1>8. ShownIsAsked' /\ PagesAreShown'
  BY <1>1, <1>2, <1>3, <1>5 DEF ShownIsAsked, PagesAreShown
<1> QED BY <1>6, <1>7, <1>8 DEF BrowsingInv

\* A change of the URL, of the options or of the map leaves the hooks alone.
LEMMA UrlKeeps ==
  ASSUME BrowsingInv, UNCHANGED <<screen, throttled, preference, known, list, fetches>>,
         astray' \in BOOLEAN, url' \in Queries, layer' \subseteq FirstPages, PageWithinResults'
  PROVE  BrowsingInv'
<1>1. NowAsked' = NowAsked /\ RequestFor(throttled, preference, known)' = RequestFor(throttled, preference, known)
  BY DEF NowAsked, RequestFor, useProjectsQueryAPI, useTaskContributionAPI, useTasksStatsQueryAPI
<1>2. BrowsingShape'
  BY DEF BrowsingInv, BrowsingShape
<1>3. ListensToTheNewest' /\ PagesAreShown'
  BY <1>1 DEF BrowsingInv, ListensToTheNewest, PagesAreShown
<1>4. ShownIsAsked'
  BY <1>1 DEF BrowsingInv, ShownIsAsked
<1> QED BY <1>2, <1>3, <1>4 DEF BrowsingInv

\* On its first page, or on none, a search is within its results.
LEMMA FirstPageKeeps ==
  ASSUME BrowsingInv, NEW q \in Queries, q.page = Nothing, SetQuery(q), astray' = FALSE PROVE BrowsingInv'
<1>1. PageWithinResults'
  BY DEF SetQuery, PageWithinResults, Nothing
<1> QED BY <1>1, UrlKeeps DEF SetQuery, BrowsingInv, BrowsingShape

\* A search like another, with one filter changed.
LEMMA QueryFacts ==
  ASSUME NEW q \in Queries
  PROVE  /\ FirstPage(q) \in Queries /\ FirstPage(q).page = Nothing
         /\ \A w \in Words : [FirstPage(q) EXCEPT !.text = w] \in Queries /\ [FirstPage(q) EXCEPT !.text = w].page = Nothing
         /\ \A t \in Tags : [FirstPage(q) EXCEPT !.tag = t] \in Queries /\ [FirstPage(q) EXCEPT !.tag = t].page = Nothing
         /\ [FirstPage(q) EXCEPT !.types = 1] \in Queries /\ [FirstPage(q) EXCEPT !.types = 1].page = Nothing
<1>1. FirstPage(q) \in Queries /\ FirstPage(q).page = Nothing
  BY DEF Queries, FirstPage, Nothing
<1> DEFINE f == FirstPage(q)
<1> HIDE DEF f
<1>2. f \in Queries /\ f.page = Nothing
  BY <1>1 DEF f
<1>3. \A w \in Words : [f EXCEPT !.text = w] \in Queries /\ [f EXCEPT !.text = w].page = Nothing
  BY <1>2 DEF Queries
<1>4. \A t \in Tags : [f EXCEPT !.tag = t] \in Queries /\ [f EXCEPT !.tag = t].page = Nothing
  BY <1>2 DEF Queries
<1>5. [f EXCEPT !.types = 1] \in Queries /\ [f EXCEPT !.types = 1].page = Nothing
  BY <1>2 DEF Queries, Types
<1> QED BY <1>1, <1>3, <1>4, <1>5 DEF f

\* Hands the search on, or asks again.
LEMMA HandedOnKeeps == ASSUME BrowsingInv, UseThrottle \/ retryFn \/ UserKnown PROVE BrowsingInv'
<1>1. PageWithinResults'
  BY DEF UseThrottle, retryFn, UserKnown, PageWithinResults, BrowsingInv
<1>2. CASE UseThrottle
  BY <1>1, <1>2, FetchKeepsNewest DEF UseThrottle, BrowsingInv, BrowsingShape
<1>3. CASE retryFn
  BY <1>1, <1>3, FetchKeepsNewest DEF retryFn, BrowsingInv, BrowsingShape
<1>4. CASE UserKnown
  BY <1>1, <1>4, FetchKeepsNewest DEF UserKnown, BrowsingInv, BrowsingShape
<1> QED BY <1>2, <1>3, <1>4

\* An answer that nobody listens to changes nothing; the others are to what was asked last.
LEMMA AnswerKeepsNewest == ASSUME BrowsingInv, NEW r \in fetches, Answer(r) PROVE BrowsingInv'
<1>1. fetches' = fetches \ {r} /\ UNCHANGED <<screen, url, throttled, preference, known, options, astray, changes>>
  BY DEF Answer
<1>2. NowAsked' = NowAsked /\ RequestFor(throttled, preference, known)' = RequestFor(throttled, preference, known)
  BY <1>1 DEF NowAsked, RequestFor, useProjectsQueryAPI, useTaskContributionAPI, useTasksStatsQueryAPI
<1>3. FetchShape(r) /\ (r.heard => r.asked = NowAsked)
  BY DEF BrowsingInv, BrowsingShape, ListensToTheNewest
<1>4. /\ ListShape(list')
      /\ list'.isLoading /\ known => list'.isLoading = list.isLoading /\ ~r.heard
      /\ ~list'.isLoading /\ ~list'.isError =>
           /\ list'.of = NowAsked
           /\ list'.pages = ResultPages[list'.of.search]
  <2>1. CASE r.heard /\ list' = FetchSuccess(r)
    BY <1>3, <2>1 DEF FetchSuccess, FetchShape, ListShape
  <2>2. CASE r.heard /\ list' = FetchFailure
    BY <1>3, <2>2 DEF FetchFailure, ListShape, BrowsingInv, BrowsingShape
  <2>3. CASE ~r.heard /\ UNCHANGED list
    BY <2>3 DEF BrowsingInv, BrowsingShape, ShownIsAsked, NowAsked, PagesAreShown
  <2> QED BY <2>1, <2>2, <2>3 DEF Answer
<1>5. layer' \subseteq FirstPages
  BY QueryFacts DEF Answer, mapboxLayerDefn, BrowsingInv, BrowsingShape, FirstPages
<1>6. BrowsingShape'
  BY <1>1, <1>4, <1>5 DEF BrowsingInv, BrowsingShape
<1>7. ListensToTheNewest'
  BY <1>1, <1>2 DEF BrowsingInv, ListensToTheNewest
<1>8. PagesAreShown' /\ PageWithinResults'
  BY <1>1, <1>4 DEF PagesAreShown, PageWithinResults, BrowsingInv
<1>9. ShownIsAsked'
  <2>1. ASSUME list'.isLoading, known' PROVE \E s \in fetches' : s.heard /\ s.asked = NowAsked'
    <3>1. PICK s \in fetches : s.heard /\ s.asked = NowAsked
      BY <1>1, <1>4, <2>1 DEF BrowsingInv, ShownIsAsked, NowAsked
    <3> QED BY <1>1, <1>2, <1>4, <2>1, <3>1
  <2> QED BY <1>2, <1>4, <2>1 DEF ShownIsAsked, NowAsked
<1> QED BY <1>6, <1>7, <1>8, <1>9 DEF BrowsingInv

----------------------------------------------------------------------------
\* The filters take the page away.
LEMMA FiltersKeep ==
  ASSUME BrowsingInv,
         \/ ProjectSearchBox \/ ProjectFilterSelect \/ FilterButton \/ MyProjectsDropdown \/ DifficultyDropdown
         \/ OrderBySelector \/ MyTasksOrderDropdown \/ DateRangeFilterSelect \/ DateFilterPicker
  PROVE  BrowsingInv'
<1> USE DEF Nothing
<1>0. url \in Queries
  BY DEF BrowsingInv, BrowsingShape
<1>1. ASSUME NEW w \in Words, setQuerySearch(w) PROVE BrowsingInv'
  BY <1>0, <1>1, FirstPageKeeps, QueryFacts DEF setQuerySearch
<1>2. ASSUME NEW t \in Tags, handleTagChange(t) PROVE BrowsingInv'
  BY <1>0, <1>2, FirstPageKeeps, QueryFacts DEF handleTagChange
<1>3. ASSUME SetQuery(FirstPage(url)), astray' = FALSE PROVE BrowsingInv'
  BY <1>0, <1>3, FirstPageKeeps, QueryFacts
<1>4. ASSUME SetQuery([FirstPage(url) EXCEPT !.types = 1]), astray' = FALSE PROVE BrowsingInv'
  BY <1>0, <1>4, FirstPageKeeps, QueryFacts
<1>5. CASE ProjectSearchBox
  BY <1>1, <1>5 DEF ProjectSearchBox
<1>6. CASE ProjectFilterSelect
  BY <1>2, <1>6 DEF ProjectFilterSelect, TagFilterPickerAutocomplete
<1>7. CASE FilterButton
  BY <1>4, <1>7 DEF FilterButton
<1>8. CASE MyProjectsDropdown
  BY <1>2, <1>8 DEF MyProjectsDropdown, Tags
<1>9. CASE DifficultyDropdown
  BY <1>2, <1>9 DEF DifficultyDropdown
<1>10. CASE OrderBySelector \/ MyTasksOrderDropdown
  BY <1>3, <1>10 DEF OrderBySelector, MyTasksOrderDropdown
<1>11. CASE DateRangeFilterSelect \/ DateFilterPicker
  BY <1>1, <1>11 DEF DateRangeFilterSelect, DateFilterPicker, startDates, Words
<1> QED BY <1>5, <1>6, <1>7, <1>8, <1>9, <1>10, <1>11

\* Links go to a search without a page; the marker of a project to its search's first.
LEMMA LinksKeep == ASSUME BrowsingInv, ClearFilters \/ MyTasksLinks \/ ProjectsMap PROVE BrowsingInv'
<1>0. Blank \in Queries /\ Blank.page = Nothing
  BY DEF Blank, Queries, Words, Tags, Types, Actions, Nothing
<1>1. /\ [Blank EXCEPT !.types = 1, !.action = 2] \in Queries /\ [Blank EXCEPT !.types = 1, !.action = 2].page = Nothing
      /\ \A w \in Words : [Blank EXCEPT !.text = w] \in Queries /\ [Blank EXCEPT !.text = w].page = Nothing
  <2> DEFINE b == Blank
  <2> HIDE DEF b
  <2>1. b \in Queries /\ b.page = Nothing
    BY <1>0 DEF b
  <2>2. [b EXCEPT !.types = 1, !.action = 2] \in Queries /\ [b EXCEPT !.types = 1, !.action = 2].page = Nothing
    <3> DEFINE c == [b EXCEPT !.types = 1]
    <3>1. c \in Queries /\ c.page = Nothing
      BY <2>1 DEF Queries, Types
    <3>2. [b EXCEPT !.types = 1, !.action = 2] = [c EXCEPT !.action = 2]
      OBVIOUS
    <3> HIDE DEF c
    <3>3. [c EXCEPT !.action = 2] \in Queries /\ [c EXCEPT !.action = 2].page = Nothing
      BY <3>1 DEF Queries, Actions
    <3> QED BY <3>2, <3>3
  <2>3. \A w \in Words : [b EXCEPT !.text = w] \in Queries /\ [b EXCEPT !.text = w].page = Nothing
    BY <2>1 DEF Queries
  <2> QED BY <2>2, <2>3 DEF b
<1>2. CASE ClearFilters
  BY <1>0, <1>1, <1>2, FirstPageKeeps DEF ClearFilters
<1>3. CASE MyTasksLinks
  BY <1>1, <1>3, FirstPageKeeps DEF MyTasksLinks
<1>4. CASE ProjectsMap
  <2>1. PICK q \in layer : clickOnProjectID(q)
    BY <1>4 DEF ProjectsMap
  <2>2. q \in Queries /\ q.page = Nothing
    BY DEF BrowsingInv, BrowsingShape, FirstPages
  <2>3. [q EXCEPT !.text = 2] \in Queries /\ [q EXCEPT !.text = 2].page = Nothing
    BY <2>2 DEF Queries, Words
  <2> QED BY <2>1, <2>3, FirstPageKeeps DEF clickOnProjectID
<1> QED BY <1>2, <1>3, <1>4

\* What changes the search and keeps its page says so.
LEMMA PageStaysKeeps == ASSUME BrowsingInv, MappingTypeFilterPicker \/ ExactTypesToggle \/ ProjectCardPaginator \/ ShowMapToggle PROVE BrowsingInv'
<1>0. url \in Queries /\ astray \in BOOLEAN /\ layer \subseteq FirstPages
  BY DEF BrowsingInv, BrowsingShape
<1>1. CASE MappingTypeFilterPicker \/ ExactTypesToggle
  <2>2. PICK types \in Types :
           /\ SetQuery([url EXCEPT !.types = types])
           /\ astray' \in BOOLEAN /\ (astray => astray') /\ (url.page # Nothing => astray')
    <3>1. url.types # Nothing => 3 - url.types \in Types
      BY <1>0 DEF Queries, Types, Nothing
    <3>2. {1, 2} \subseteq Types /\ Nothing \in Types
      BY DEF Types, Nothing
    <3> QED BY <1>0, <1>1, <3>1, <3>2 DEF MappingTypeFilterPicker, ExactTypesToggle
  <2>1. [url EXCEPT !.types = types] \in Queries /\ [url EXCEPT !.types = types].page = url.page
    BY <1>0 DEF Queries
  <2>3. PageWithinResults'
    BY <2>1, <2>2, <1>0 DEF SetQuery, PageWithinResults, Nothing, Queries
  <2> QED BY <1>0, <1>1, <2>1, <2>2, <2>3, UrlKeeps DEF SetQuery
<1>2. CASE ProjectCardPaginator
  <2>1. PICK p \in 1..list.pages : changeToPage(p)
    BY <1>2 DEF ProjectCardPaginator
  <2>2. list.pages = ResultPages[list.of.search] /\ list.pages \in Nat
    BY <1>2, BrowsingAssumption DEF ProjectCardPaginator, BrowsingInv, BrowsingShape, ListShape, IsQuestion, PagesAreShown
  <2>3. url' = [url EXCEPT !.page = p] /\ p \in Nat /\ p <= list.pages
    BY <2>1, <2>2 DEF changeToPage, SetQuery
  <2>4. url' \in Queries /\ url'.page = p
    BY <1>0, <2>3 DEF Queries
  <2>5. Search(url', preference') = Search(url, preference)
    BY <1>0, <2>1, <2>3 DEF changeToPage, SetQuery, Search, Queries
  <2>6. PageWithinResults'
    BY <2>1, <2>2, <2>3, <2>4, <2>5 DEF changeToPage, SetQuery, PageWithinResults
  <2> QED BY <1>0, <1>2, <2>1, <2>4, <2>6, UrlKeeps DEF changeToPage, SetQuery
<1>3. CASE ShowMapToggle
  <2>1. PageWithinResults'
    BY <1>3 DEF ShowMapToggle, PageWithinResults, BrowsingInv
  <2> QED BY <1>0, <1>3, <2>1, UrlKeeps, QueryFacts DEF ShowMapToggle, FirstPages
<1> QED BY <1>1, <1>2, <1>3

\* The options of a select.
LEMMA OptionsKeep == ASSUME BrowsingInv, useTagAPI PROVE BrowsingInv'
<1>1. PageWithinResults'
  BY DEF useTagAPI, PageWithinResults, BrowsingInv
<1> QED BY <1>1, UrlKeeps DEF useTagAPI, BrowsingInv, BrowsingShape

\* The statistics set a date of their own.
LEMMA StartKeeps == ASSUME BrowsingInv, StartOfYear PROVE BrowsingInv'
<1>1. PageWithinResults'
  BY DEF StartOfYear, PageWithinResults
<1>2. [url EXCEPT !.text = 1] \in Queries
  BY DEF BrowsingInv, BrowsingShape, Queries, Words
<1> QED BY <1>1, <1>2, FetchKeepsNewest DEF StartOfYear, BrowsingInv, BrowsingShape

\* The action of the store reaches the hook at once; a page chosen without it may be astray.
LEMMA ActionKeeps == ASSUME BrowsingInv, ProjectsActionFilter \/ SetAction PROVE BrowsingInv'
<1>0. url \in Queries /\ FirstPage(url) \in Queries /\ FirstPage(url).page = Nothing /\ preference \in {Nothing} \cup Actions
      /\ known \in BOOLEAN /\ throttled \in Queries /\ astray \in BOOLEAN
  BY QueryFacts DEF BrowsingInv, BrowsingShape
<1>1. CASE ProjectsActionFilter
  <2>1. PageWithinResults'
    BY <1>0, <1>1 DEF ProjectsActionFilter, PageWithinResults, Nothing
  <2>2. UNCHANGED <<screen, throttled, known, layer>> /\ url' \in Queries /\ preference' \in Actions /\ astray' = FALSE
    BY <1>0, <1>1 DEF ProjectsActionFilter
  <2>3. CASE preference' # preference
    BY <1>0, <1>1, <2>1, <2>2, <2>3, FetchKeepsNewest DEF ProjectsActionFilter
  <2>4. CASE preference' = preference
    BY <1>0, <1>1, <2>1, <2>2, <2>4, UrlKeeps DEF ProjectsActionFilter, BrowsingInv, BrowsingShape
  <2> QED BY <2>3, <2>4
<1>2. CASE SetAction
  <2>1. UNCHANGED <<screen, url, throttled, known, layer>> /\ preference' \in Actions
        /\ astray' = (astray \/ (url.page > 1 /\ url.action = Nothing)) /\ Fetch(throttled, preference', known)
    BY <1>2 DEF SetAction
  <2>2. url.action # Nothing => Search(url', preference') = Search(url, preference)
    BY <2>1 DEF Search
  <2>3. PageWithinResults'
    BY <1>0, <2>1, <2>2 DEF PageWithinResults, BrowsingInv, Queries
  <2> QED BY <1>0, <2>1, <2>3, FetchKeepsNewest
<1> QED BY <1>1, <1>2

\* Every step.
LEMMA BrowsingStep == ASSUME BrowsingInv, [BrowsingNext]_browsingVars PROVE BrowsingInv'
<1>1. CASE UseThrottle \/ UserKnown \/ (ProjectSearchResults \/ TaskResults \/ (screen = "stats" /\ retryFn))
  BY <1>1, HandedOnKeeps DEF ProjectSearchResults, TaskResults
<1>2. CASE \E r \in fetches : Answer(r)
  BY <1>2, AnswerKeepsNewest
<1>3. CASE useTagAPI
  BY <1>3, OptionsKeep
<1>4. CASE ProjectNav \/ MoreFiltersForm \/ MyProjectNav
  BY <1>4, FiltersKeep, LinksKeep, PageStaysKeeps, ActionKeeps DEF ProjectNav, MoreFiltersForm, MyProjectNav
<1>5. CASE MyTasksNav \/ ProjectCardPaginator \/ ProjectsMap \/ TasksStats \/ StartOfYear
  BY <1>5, FiltersKeep, LinksKeep, PageStaysKeeps, StartKeeps DEF MyTasksNav, TasksStats
<1>6. CASE UNCHANGED browsingVars
  <2>1. PageWithinResults'
    BY <1>6 DEF browsingVars, PageWithinResults, BrowsingInv
  <2> QED BY <1>6, <2>1, UrlKeeps DEF browsingVars, BrowsingInv, BrowsingShape
<1> QED BY <1>1, <1>2, <1>3, <1>4, <1>5, <1>6 DEF BrowsingNext, ProjectsPage, UserProjectsPage, ContributionsPage, Stats

\* BrowsingInv is an invariant.
LEMMA BrowsingInvHolds == BrowsingSpec => []BrowsingInv
  BY BrowsingStarts, BrowsingStep, PTL DEF BrowsingSpec

\* A page without a spinner or an error shows what was asked for last, and one with a spinner has the request
\* for it under way (RequestFor, Answer: what the hooks cancel is what would break this).
THEOREM ResultsCorrect == BrowsingSpec => []ShownIsAsked
<1>1. BrowsingInv => ShownIsAsked
  BY DEF BrowsingInv
<1> QED BY BrowsingInvHolds, <1>1, PTL

\* A page chosen in the URL is among the results of the search beside it, or is known to be astray
\* (changeToPage, and every filter that takes the page away).
THEOREM PagesCorrect == BrowsingSpec => []PageWithinResults
<1>1. BrowsingInv => PageWithinResults
  BY DEF BrowsingInv
<1> QED BY BrowsingInvHolds, <1>1, PTL

----------------------------------------------------------------------------
(***************************************************************************)
(* The members of a team: membership is agreed on, both ways.              *)
(***************************************************************************)

RowFields == {"function", "active", "notify"}
CallFields == {"kind", "by", "user", "arg", "n", "awaited", "of", "phase", "got"}
TeamRequests == {"load", "join", "add", "leave", "answer", "update", "notify"}

\* What the state consists of, as far as the proof looks into it.
RowsShape(rows) == \A u \in DOMAIN rows : DOMAIN rows[u] = RowFields
TrailShape(t) == DOMAIN t = {"letIn", "asked", "lost", "wiped", "gone"}
PageShape(e) ==
  /\ DOMAIN e = {"new", "seen", "shown", "editMode", "backup", "requests", "cut"}
  /\ DOMAIN e.shown = Functions /\ DOMAIN e.editMode = Functions
  /\ DOMAIN e.backup = Functions /\ DOMAIN e.cut = Functions

\* A request asks for nothing that was not agreed on, and a team that was sent to the page has no active
\* member who was not let in.
Agreed(c, t) ==
  /\ DOMAIN c = CallFields /\ c.kind \in TeamRequests
  /\ c.kind = "add" => c.user \in t.letIn
  /\ c.kind = "leave" => c.user \in t.asked \cup t.lost
  /\ c.kind = "answer" => c.user \in (IF c.arg = "accept" THEN t.letIn ELSE t.asked)
  /\ c.kind = "load" /\ c.phase = "done" => Anybody(c.got.rows, "MEMBER") \subseteq t.letIn

\* The lists of the page hold people who were let in; whoever the page has seen in the team and no longer
\* lists was cut by Boss and is about to be asked to go, was asked already, or was lost.
TeamLists(e, t) ==
  /\ \A f \in Functions : e.shown[f] \subseteq t.letIn
  /\ \A f \in Functions : \A b \in e.backup[f] : b \subseteq t.letIn
  /\ \A s \in e.seen : \A f \in Functions :
       Active(s.rows, f) \subseteq e.shown[f] \cup e.cut[f] \cup t.lost \cup t.asked
  /\ \A s1, s2 \in e.seen : s1 = s2

\* Before the team is created the page has nothing to send and nothing to edit.
Fresh == editor.new => /\ calls = {} /\ editor.seen = {} /\ editor.requests = {}
                       /\ \A f \in Functions : editor.shown[f] = {} /\ editor.backup[f] = {} /\ ~editor.editMode[f]

TeamInv ==
  /\ DOMAIN team = {"join", "rows"} /\ RowsShape(team.rows) /\ TrailShape(trail) /\ PageShape(editor)
  /\ \A c \in calls : Agreed(c, trail)
  /\ TeamLists(editor, trail) /\ Fresh /\ MembershipIsAgreed

\* The trail only ever grows.
Grows(t, s) == t.letIn \subseteq s.letIn /\ t.asked \subseteq s.asked /\ t.lost \subseteq s.lost

----------------------------------------------------------------------------
(* Lemmas about the parts.                                                 *)

LEMMA ActiveIsAnybody == ASSUME NEW rows, NEW f, NEW g PROVE Active(rows, f) \subseteq Anybody(rows, g)
  BY DEF Active, Anybody

LEMMA AgreedGrows ==
  ASSUME NEW t, NEW s, Grows(t, s), NEW c, Agreed(c, t) PROVE Agreed(c, s)
  BY DEF Grows, Agreed

LEMMA ListsGrow == ASSUME NEW t, NEW s, Grows(t, s), NEW e, TeamLists(e, t) PROVE TeamLists(e, s)
<1>1. \A f \in Functions : e.shown[f] \subseteq s.letIn
  BY DEF Grows, TeamLists
<1>2. \A f \in Functions : \A b \in e.backup[f] : b \subseteq s.letIn
  BY DEF Grows, TeamLists
<1>3. \A x \in e.seen : \A f \in Functions :
        Active(x.rows, f) \subseteq e.shown[f] \cup e.cut[f] \cup s.lost \cup s.asked
  BY DEF Grows, TeamLists
<1> QED BY <1>1, <1>2, <1>3 DEF TeamLists

\* A request that was just made.
LEMMA CallFacts ==
  ASSUME NEW kind, NEW by, NEW user, NEW arg, NEW n, NEW awaited
  PROVE  /\ DOMAIN Call(kind, by, user, arg, n, awaited) = CallFields
         /\ Call(kind, by, user, arg, n, awaited).kind = kind
         /\ Call(kind, by, user, arg, n, awaited).user = user
         /\ Call(kind, by, user, arg, n, awaited).arg = arg
         /\ Call(kind, by, user, arg, n, awaited).phase = "sent"
  BY DEF Call, CallFields

\* Requests that need nothing agreed on.
LEMMA HarmlessCall ==
  ASSUME NEW kind \in {"load", "join", "update", "notify"}, NEW by, NEW user, NEW arg, NEW n, NEW awaited, NEW t
  PROVE  Agreed(Call(kind, by, user, arg, n, awaited), t)
  BY CallFacts DEF Agreed, TeamRequests

\* Requests for people who were let in.
LEMMA AddCall ==
  ASSUME NEW t, NEW u \in t.letIn, NEW by, NEW f, NEW n, NEW awaited
  PROVE  Agreed(Call("add", by, u, f, n, awaited), t)
<1> DEFINE c == Call("add", by, u, f, n, awaited)
<1>1. DOMAIN c = CallFields /\ c.kind = "add" /\ c.user = u
  BY CallFacts
<1> HIDE DEF c
<1> QED BY <1>1 DEF Agreed, TeamRequests, c

\* Requests to take out who was asked to go, or lost.
LEMMA LeaveCall ==
  ASSUME NEW t, NEW u \in t.asked \cup t.lost, NEW by, NEW f, NEW n, NEW awaited
  PROVE  Agreed(Call("leave", by, u, f, n, awaited), t)
<1> DEFINE c == Call("leave", by, u, f, n, awaited)
<1>1. DOMAIN c = CallFields /\ c.kind = "leave" /\ c.user = u
  BY CallFacts
<1> HIDE DEF c
<1> QED BY <1>1 DEF Agreed, TeamRequests, c

\* A step of the page or of Me leaves the rows alone, sends what is agreed on and keeps the lists in order.
LEMMA StepKeeps ==
  ASSUME TeamInv, team' = team, TrailShape(trail'), Grows(trail, trail'),
         trail'.gone = trail.gone, trail'.wiped = trail.wiped,
         PageShape(editor'), TeamLists(editor', trail'), ~editor'.new,
         \A c \in calls' : c \in calls \/ Agreed(c, trail')
  PROVE  TeamInv'
<1>1. \A c \in calls' : Agreed(c, trail')
  BY AgreedGrows DEF TeamInv
<1>2. MembershipIsAgreed'
  BY DEF TeamInv, MembershipIsAgreed, NobodyLeavesUnasked, EveryMemberWasLetIn, Grows
<1>3. DOMAIN team' = {"join", "rows"} /\ RowsShape(team'.rows) /\ Fresh'
  BY DEF TeamInv, Fresh
<1> QED BY <1>1, <1>2, <1>3 DEF TeamInv

\* The team is empty and so is the page.
LEMMA TeamStarts == ASSUME TeamInit PROVE TeamInv
<1>1. DOMAIN team = {"join", "rows"} /\ team.rows = <<>> /\ calls = {}
  BY DEF TeamInit
<1>2. DOMAIN team.rows = {}
  BY <1>1
<1>3. TrailShape(trail) /\ trail.gone = {}
  BY DEF TeamInit, TrailShape
<1>4. PageShape(editor)
  BY DEF TeamInit, PageShape
<1>5. TeamLists(editor, trail) /\ Fresh
  BY DEF TeamInit, TeamLists, Fresh
<1>6. MembershipIsAgreed /\ RowsShape(team.rows)
  BY <1>2, <1>3 DEF MembershipIsAgreed, NobodyLeavesUnasked, EveryMemberWasLetIn, Anybody, RowsShape
<1> QED BY <1>1, <1>3, <1>4, <1>5, <1>6 DEF TeamInv

----------------------------------------------------------------------------
(* The server.                                                             *)

\* Putting in, taking out and changing one row.
LEMMA WithFacts ==
  ASSUME NEW rows, RowsShape(rows), NEW u, NEW row, DOMAIN row = RowFields
  PROVE  /\ RowsShape(With(rows, u, row))
         /\ Anybody(rows, "MEMBER") \ {u} \subseteq Anybody(With(rows, u, row), "MEMBER")
         /\ Anybody(With(rows, u, row), "MEMBER") \subseteq Anybody(rows, "MEMBER") \cup {u}
         /\ row.active => u \in Anybody(With(rows, u, row), "MEMBER")
         /\ u \in Anybody(With(rows, u, row), "MEMBER") => row.active
  BY DEF With, RowsShape, Anybody

LEMMA WithoutFacts ==
  ASSUME NEW rows, RowsShape(rows), NEW u
  PROVE  /\ RowsShape(Without(rows, {u}))
         /\ Anybody(Without(rows, {u}), "MEMBER") = Anybody(rows, "MEMBER") \ {u}
  BY DEF Without, RowsShape, Anybody

LEMMA RowFacts == ASSUME NEW f, NEW a PROVE DOMAIN Row(f, a) = RowFields /\ Row(f, a).active = a
  BY DEF Row, RowFields

\* What a request does to the rows: who goes was asked to or lost or is deleted by the switch of the
\* notifications, and who comes was let in or joins a team in which nobody has to let him.
Lawful(c, o) ==
  /\ RowsShape(o.rows)
  /\ Anybody(team.rows, "MEMBER") \ Anybody(o.rows, "MEMBER") \subseteq
       trail.asked \cup trail.lost \cup (IF c.kind = "notify" THEN DOMAIN team.rows \ DOMAIN o.rows ELSE {})
  /\ Anybody(o.rows, "MEMBER") \ Anybody(team.rows, "MEMBER") \subseteq
       trail.letIn \cup (IF c.kind = "join" /\ (team.join = "ANY" \/ is_user_team_manager(c.by)) THEN {c.by} ELSE {})

LEMMA UnchangedIsLawful == ASSUME TeamInv, NEW c, NEW o, o.rows = team.rows PROVE Lawful(c, o)
  BY DEF Lawful, TeamInv

LEMMA DoneFacts == ASSUME NEW rows PROVE Done(rows).rows = rows /\ Refused.rows = team.rows
  BY DEF Done, Refused

LEMMA JoinIsLawful == ASSUME TeamInv, NEW c, c.kind = "join" PROVE Lawful(c, request_to_join_team(c.by))
<1>1. CASE request_to_join_team(c.by) = Refused
  BY <1>1, DoneFacts, UnchangedIsLawful
<1>2. CASE request_to_join_team(c.by) # Refused
  <2> DEFINE row == Row("MEMBER", BecomesActive(c.by))
             rows == With(team.rows, c.by, row)
  <2>1. request_to_join_team(c.by) = Done(rows) /\ c.by \notin DOMAIN team.rows
    BY <1>2 DEF request_to_join_team
  <2>2. DOMAIN row = RowFields /\ row.active = BecomesActive(c.by)
    BY RowFacts
  <2>3. RowsShape(team.rows)
    BY DEF TeamInv
  <2> HIDE DEF row
  <2>4. /\ RowsShape(rows)
        /\ Anybody(team.rows, "MEMBER") \ {c.by} \subseteq Anybody(rows, "MEMBER")
        /\ Anybody(rows, "MEMBER") \subseteq Anybody(team.rows, "MEMBER") \cup {c.by}
        /\ c.by \in Anybody(rows, "MEMBER") => row.active
    BY <2>2, <2>3, WithFacts
  <2>5. c.by \notin Anybody(team.rows, "MEMBER")
    BY <2>1 DEF Anybody
  <2>6. request_to_join_team(c.by).rows = rows
    BY <2>1, DoneFacts
  <2> HIDE DEF rows
  <2>7. row.active => team.join = "ANY" \/ is_user_team_manager(c.by)
    BY <2>2 DEF BecomesActive
  <2> QED BY <2>4, <2>5, <2>6, <2>7 DEF Lawful
<1> QED BY <1>1, <1>2

LEMMA AddIsLawful ==
  ASSUME TeamInv, NEW c, c.user \in trail.letIn PROVE Lawful(c, add_user_to_team(c.by, c.user, c.arg))
<1> DEFINE o == add_user_to_team(c.by, c.user, c.arg)
<1> SUFFICES Lawful(c, o)
  OBVIOUS
<1>1. CASE o = Refused
  BY <1>1, DoneFacts, UnchangedIsLawful
<1>2. CASE o # Refused
  <2>1. PICK row : o = Done(With(team.rows, c.user, row)) /\ DOMAIN row = RowFields /\ row.active
    <3>1. CASE c.user \in DOMAIN team.rows
      <4> DEFINE row == [team.rows[c.user] EXCEPT !.function = c.arg, !.active = TRUE]
      <4>1. DOMAIN team.rows[c.user] = RowFields
        BY <3>1 DEF TeamInv, RowsShape
      <4>2. DOMAIN row = RowFields /\ row.active
        BY <4>1 DEF RowFields
      <4>3. o = Done(With(team.rows, c.user, row))
        BY <1>2, <3>1 DEF add_user_to_team
      <4> QED BY <4>2, <4>3
    <3>2. CASE c.user \notin DOMAIN team.rows
      <4>1. o = Done(With(team.rows, c.user, Row(c.arg, TRUE)))
        BY <1>2, <3>2 DEF add_user_to_team
      <4> QED BY <4>1, RowFacts
    <3> QED BY <3>1, <3>2
  <2> DEFINE rows == With(team.rows, c.user, row)
  <2>2. RowsShape(team.rows) /\ o.rows = rows
    BY <2>1, DoneFacts DEF TeamInv
  <2>3. /\ RowsShape(rows)
        /\ Anybody(team.rows, "MEMBER") \ {c.user} \subseteq Anybody(rows, "MEMBER")
        /\ Anybody(rows, "MEMBER") \subseteq Anybody(team.rows, "MEMBER") \cup {c.user}
        /\ c.user \in Anybody(rows, "MEMBER")
    BY <2>1, <2>2, WithFacts
  <2> HIDE DEF rows, o
  <2> QED BY <2>2, <2>3 DEF Lawful
<1> QED BY <1>1, <1>2

\* Taking one out who was asked to go, or lost.
LEMMA LeaveIsLawful ==
  ASSUME TeamInv, NEW c, NEW o, c.user \in trail.asked \cup trail.lost,
         o = Refused \/ o = Done(Without(team.rows, {c.user}))
  PROVE  Lawful(c, o)
<1>1. CASE o = Refused
  BY <1>1, DoneFacts, UnchangedIsLawful
<1>2. CASE o = Done(Without(team.rows, {c.user}))
  <2>1. RowsShape(team.rows) /\ o.rows = Without(team.rows, {c.user})
    BY <1>2, DoneFacts DEF TeamInv
  <2> DEFINE rows == Without(team.rows, {c.user})
  <2>2. RowsShape(rows) /\ Anybody(rows, "MEMBER") = Anybody(team.rows, "MEMBER") \ {c.user}
    BY <2>1, WithoutFacts
  <2>3. o.rows = rows
    BY <2>1
  <2> HIDE DEF rows
  <2> QED BY <2>2, <2>3 DEF Lawful
<1> QED BY <1>1, <1>2

LEMMA AnswerIsLawful ==
  ASSUME TeamInv, NEW c, c.user \in (IF c.arg = "accept" THEN trail.letIn ELSE trail.asked)
  PROVE  Lawful(c, accept_reject_join_request(c.by, c.user, c.arg))
<1> DEFINE o == accept_reject_join_request(c.by, c.user, c.arg)
<1> SUFFICES Lawful(c, o)
  OBVIOUS
<1>1. CASE o = Refused
  BY <1>1, DoneFacts, UnchangedIsLawful
<1>2. CASE o # Refused /\ c.arg = "accept"
  <2> DEFINE rows == [team.rows EXCEPT ![c.user].active = TRUE]
  <2>1. o = Done(rows) /\ c.user \in DOMAIN team.rows
    BY <1>2 DEF accept_reject_join_request
  <2>2. RowsShape(team.rows) /\ o.rows = rows
    BY <2>1, DoneFacts DEF TeamInv
  <2>3. DOMAIN rows = DOMAIN team.rows /\ \A u \in DOMAIN rows : u # c.user => rows[u] = team.rows[u]
    OBVIOUS
  <2>4. rows[c.user].active /\ DOMAIN rows[c.user] = RowFields
    BY <2>1, <2>2 DEF RowsShape, RowFields
  <2> HIDE DEF rows, o
  <2>5. /\ RowsShape(rows)
        /\ Anybody(team.rows, "MEMBER") \subseteq Anybody(rows, "MEMBER")
        /\ Anybody(rows, "MEMBER") \subseteq Anybody(team.rows, "MEMBER") \cup {c.user}
    BY <2>2, <2>3, <2>4 DEF RowsShape, Anybody
  <2>6. c.user \in trail.letIn
    BY <1>2
  <2> QED BY <2>2, <2>5, <2>6 DEF Lawful
<1>3. CASE o # Refused /\ c.arg # "accept"
  <2>1. o = Done(Without(team.rows, {c.user}))
    BY <1>3 DEF accept_reject_join_request
  <2> QED BY <1>3, <2>1, LeaveIsLawful
<1> QED BY <1>1, <1>2, <1>3

LEMMA NotifyIsLawful ==
  ASSUME TeamInv, NEW c, c.kind = "notify", NEW notify PROVE Lawful(c, update_team(c.by, {c.user}, notify))
<1> DEFINE o == update_team(c.by, {c.user}, notify)
<1> SUFFICES Lawful(c, o)
  OBVIOUS
<1>1. CASE o = Refused
  BY <1>1, DoneFacts, UnchangedIsLawful
<1>2. CASE o # Refused
  <2> DEFINE rows == [u \in {c.user} |-> IF u \in DOMAIN team.rows
                                         THEN [team.rows[u] EXCEPT !.notify = notify] ELSE Row("MANAGER", FALSE)]
  <2>1. o = Done(rows)
    BY <1>2 DEF update_team
  <2>2. RowsShape(team.rows) /\ o.rows = rows
    BY <2>1, DoneFacts DEF TeamInv
  <2>3. DOMAIN rows = {c.user}
    OBVIOUS
  <2>4. CASE c.user \in DOMAIN team.rows
    <3>1. rows[c.user] = [team.rows[c.user] EXCEPT !.notify = notify]
      BY <2>4
    <3>2. DOMAIN rows[c.user] = RowFields /\ rows[c.user].active = team.rows[c.user].active
      BY <2>2, <2>4, <3>1 DEF RowsShape, RowFields
    <3> HIDE DEF rows, o
    <3>3. /\ RowsShape(rows) /\ Anybody(rows, "MEMBER") \subseteq Anybody(team.rows, "MEMBER")
          /\ Anybody(team.rows, "MEMBER") \ Anybody(rows, "MEMBER") \subseteq DOMAIN team.rows \ DOMAIN rows
      BY <2>3, <2>4, <3>2 DEF RowsShape, Anybody
    <3> QED BY <2>2, <3>3 DEF Lawful
  <2>5. CASE c.user \notin DOMAIN team.rows
    <3>1. rows[c.user] = Row("MANAGER", FALSE)
      BY <2>5
    <3>2. DOMAIN rows[c.user] = RowFields /\ rows[c.user].active = FALSE
      BY <3>1, RowFacts
    <3> HIDE DEF rows, o
    <3>3. /\ RowsShape(rows) /\ Anybody(rows, "MEMBER") = {}
          /\ Anybody(team.rows, "MEMBER") \subseteq DOMAIN team.rows \ DOMAIN rows
      BY <2>3, <2>5, <3>2 DEF RowsShape, Anybody
    <3> QED BY <2>2, <3>3 DEF Lawful
  <2> QED BY <2>4, <2>5
<1> QED BY <1>1, <1>2

LEMMA OutcomeIsLawful == ASSUME TeamInv, NEW c \in calls PROVE Lawful(c, Outcome(c)) /\ Lawful(c, Refused)
<1>1. Agreed(c, trail)
  BY DEF TeamInv
<1>2. Lawful(c, Refused)
  BY DoneFacts, UnchangedIsLawful
<1> SUFFICES Lawful(c, Outcome(c))
  BY <1>2
<1>3. CASE c.kind = "load"
  BY <1>3, DoneFacts, UnchangedIsLawful DEF Outcome
<1>4. CASE c.kind = "join"
  BY <1>4, JoinIsLawful DEF Outcome
<1>5. CASE c.kind = "add"
  BY <1>1, <1>5, AddIsLawful DEF Outcome, Agreed
<1>6. CASE c.kind = "leave"
  <2>1. Outcome(c) = Refused \/ Outcome(c) = Done(Without(team.rows, {c.user}))
    BY <1>6 DEF Outcome, leave_team
  <2>2. c.user \in trail.asked \cup trail.lost
    BY <1>1, <1>6 DEF Agreed
  <2> QED BY <1>2, <2>1, <2>2, LeaveIsLawful
<1>7. CASE c.kind = "answer"
  BY <1>1, <1>7, AnswerIsLawful DEF Outcome, Agreed
<1>8. CASE c.kind = "update"
  <2>1. Outcome(c) = Refused \/ Outcome(c) = Done(team.rows)
    BY <1>8 DEF Outcome, update_team
  <2> QED BY <1>2, <2>1, DoneFacts, UnchangedIsLawful
<1>9. CASE c.kind = "notify"
  BY <1>9, NotifyIsLawful DEF Outcome
<1> QED BY <1>1, <1>2, <1>3, <1>4, <1>5, <1>6, <1>7, <1>8, <1>9 DEF Agreed, TeamRequests

LEMMA ServeKeeps == ASSUME TeamInv, NEW c \in calls, Serve(c) PROVE TeamInv'
<1>1. PICK o \in {Outcome(c), Refused} :
        /\ team' = [join |-> IF c.kind = "update" /\ o.ok THEN c.arg ELSE team.join, rows |-> o.rows]
        /\ calls' = (calls \ {c}) \cup
             (IF c.awaited THEN {[c EXCEPT !.phase = IF o.ok THEN "done" ELSE "failed",
                                           !.got = IF c.kind = "load" THEN team ELSE {}]}
              ELSE {})
        /\ trail' = [trail EXCEPT
             !.gone = @ \cup (Anybody(team.rows, "MEMBER") \ Anybody(o.rows, "MEMBER")),
             !.letIn = @ \cup IF c.kind = "join" /\ (team.join = "ANY" \/ is_user_team_manager(c.by))
                              THEN {c.by} ELSE {},
             !.wiped = @ \cup IF c.kind = "notify" THEN DOMAIN team.rows \ DOMAIN o.rows ELSE {}]
  BY DEF Serve
<1>2. Lawful(c, o)
  BY OutcomeIsLawful
<1>3. editor' = editor /\ ~editor.new
  BY DEF Serve, TeamInv, Fresh
<1> DEFINE joins == IF c.kind = "join" /\ (team.join = "ANY" \/ is_user_team_manager(c.by)) THEN {c.by} ELSE {}
           wipes == IF c.kind = "notify" THEN DOMAIN team.rows \ DOMAIN o.rows ELSE {}
           goes == Anybody(team.rows, "MEMBER") \ Anybody(o.rows, "MEMBER")
<1>4. /\ TrailShape(trail') /\ trail'.gone = trail.gone \cup goes /\ trail'.letIn = trail.letIn \cup joins
      /\ trail'.wiped = trail.wiped \cup wipes /\ trail'.asked = trail.asked /\ trail'.lost = trail.lost
  BY <1>1 DEF TeamInv, TrailShape
<1>5. /\ DOMAIN team' = {"join", "rows"} /\ team'.rows = o.rows
  BY <1>1
<1>6. /\ RowsShape(o.rows) /\ goes \subseteq trail.asked \cup trail.lost \cup wipes
      /\ Anybody(o.rows, "MEMBER") \ Anybody(team.rows, "MEMBER") \subseteq trail.letIn \cup joins
  BY <1>2 DEF Lawful
<1> HIDE DEF joins, wipes, goes
<1>7. Grows(trail, trail')
  BY <1>4 DEF Grows
<1>8. \A d \in calls' : Agreed(d, trail')
  <2> DEFINE phase == IF o.ok THEN "done" ELSE "failed"
             got == IF c.kind = "load" THEN team ELSE {}
             r == [c EXCEPT !.phase = phase, !.got = got]
  <2>1. Agreed(c, trail') /\ \A d \in calls : Agreed(d, trail')
    BY <1>7, AgreedGrows DEF TeamInv
  <2>2. DOMAIN c = CallFields
    BY <2>1 DEF Agreed
  <2>3. got.rows = team.rows \/ c.kind # "load"
    OBVIOUS
  <2> HIDE DEF phase, got
  <2>4. /\ DOMAIN r = CallFields /\ r.kind = c.kind /\ r.user = c.user /\ r.arg = c.arg /\ r.got = got
    BY <2>2 DEF CallFields
  <2>5. calls' \subseteq calls \cup {r}
    BY <1>1 DEF phase, got
  <2> HIDE DEF r
  <2>6. Anybody(team.rows, "MEMBER") \subseteq trail'.letIn
    BY <1>7 DEF TeamInv, MembershipIsAgreed, EveryMemberWasLetIn, Grows
  <2>7. c.kind = "load" => Anybody(r.got.rows, "MEMBER") \subseteq trail'.letIn
    BY <2>3, <2>4, <2>6
  <2>8. Agreed(r, trail')
    BY <2>1, <2>4, <2>7 DEF Agreed
  <2> QED BY <2>1, <2>5, <2>8
<1>9. TeamLists(editor', trail')
  BY <1>3, <1>7, ListsGrow DEF TeamInv
<1>10. MembershipIsAgreed'
  BY <1>4, <1>5, <1>6 DEF TeamInv, MembershipIsAgreed, NobodyLeavesUnasked, EveryMemberWasLetIn
<1> QED BY <1>3, <1>4, <1>5, <1>6, <1>8, <1>9, <1>10 DEF TeamInv, Fresh

----------------------------------------------------------------------------
(* The page and Me.                                                        *)

\* The team with its creator, and a request for everybody else chosen.
LEMMA CreateKeeps ==
  ASSUME TeamInv, NEW managers, NEW members, createTeam(managers, members) PROVE TeamInv'
<1> DEFINE row == Row("MANAGER", TRUE)
<1>1. /\ editor.new /\ editor' = [editor EXCEPT !.new = FALSE]
      /\ team' = [team EXCEPT !.rows = [u \in {Boss} |-> row]]
      /\ calls' = {Call("add", Boss, u, "MANAGER", 1, FALSE) : u \in managers \ {Boss}}
                  \cup {Call("add", Boss, u, "MEMBER", 1, FALSE) : u \in members} \cup {Load(1)}
      /\ trail' = [trail EXCEPT !.letIn = managers \cup members \cup {Boss}]
  BY DEF createTeam
<1>2. /\ TrailShape(trail') /\ trail'.letIn = managers \cup members \cup {Boss} /\ trail'.gone = trail.gone
      /\ trail'.asked = trail.asked /\ trail'.lost = trail.lost /\ trail'.wiped = trail.wiped
  BY <1>1 DEF TeamInv, TrailShape
<1>3. DOMAIN row = RowFields /\ row.active
  BY RowFacts
<1> HIDE DEF row
<1>4. /\ DOMAIN team' = {"join", "rows"} /\ team'.rows = [u \in {Boss} |-> row]
  BY <1>1 DEF TeamInv
<1>5. DOMAIN team'.rows = {Boss} /\ team'.rows[Boss] = row
  BY <1>4
<1>6. RowsShape(team'.rows) /\ Anybody(team'.rows, "MEMBER") \subseteq {Boss}
  BY <1>3, <1>5 DEF RowsShape, Anybody
<1>7. MembershipIsAgreed'
  BY <1>2, <1>6 DEF TeamInv, MembershipIsAgreed, NobodyLeavesUnasked, EveryMemberWasLetIn
<1>8. /\ PageShape(editor') /\ editor'.new = FALSE /\ editor'.seen = editor.seen /\ editor'.shown = editor.shown
      /\ editor'.backup = editor.backup
  BY <1>1 DEF TeamInv, PageShape
<1>9. TeamLists(editor', trail')
  BY <1>1, <1>8 DEF TeamInv, Fresh, TeamLists
<1>10. \A c \in calls' : Agreed(c, trail')
  <2>1. ASSUME NEW u \in trail'.letIn, NEW f PROVE Agreed(Call("add", Boss, u, f, 1, FALSE), trail')
    BY AddCall
  <2>2. Agreed(Load(1), trail')
    BY HarmlessCall DEF Load
  <2> QED BY <1>1, <1>2, <2>1, <2>2
<1>11. Fresh'
  BY <1>8 DEF Fresh
<1> QED BY <1>2, <1>4, <1>6, <1>7, <1>8, <1>9, <1>10, <1>11 DEF TeamInv

\* A step that changes one list of the page.  What it no longer lists is cut, lost or was asked to go.
OnlyList(f) ==
  /\ PageShape(editor') /\ editor'.new = editor.new /\ editor'.seen = editor.seen
  /\ \A g \in Functions \ {f} : /\ editor'.shown[g] = editor.shown[g] /\ editor'.cut[g] = editor.cut[g]
                                /\ editor'.backup[g] = editor.backup[g]

LEMMA OneListKeeps ==
  ASSUME TeamInv, NEW f \in Functions, OnlyList(f), ~editor.new,
         team' = team, TrailShape(trail'), Grows(trail, trail'), trail'.gone = trail.gone, trail'.wiped = trail.wiped,
         editor'.shown[f] \subseteq trail'.letIn, \A b \in editor'.backup[f] : b \subseteq trail'.letIn,
         \A s \in editor.seen :
           Active(s.rows, f) \subseteq editor'.shown[f] \cup editor'.cut[f] \cup trail'.lost \cup trail'.asked,
         \A c \in calls' : c \in calls \/ Agreed(c, trail')
  PROVE  TeamInv'
<1>1. TeamLists(editor, trail')
  BY ListsGrow DEF TeamInv
<1>2. ASSUME NEW g \in Functions
      PROVE  /\ editor'.shown[g] \subseteq trail'.letIn
             /\ \A b \in editor'.backup[g] : b \subseteq trail'.letIn
             /\ \A s \in editor.seen :
                  Active(s.rows, g) \subseteq editor'.shown[g] \cup editor'.cut[g] \cup trail'.lost \cup trail'.asked
  <2>1. CASE g = f
    BY <2>1
  <2>2. CASE g # f
    <3>1. /\ editor'.shown[g] = editor.shown[g] /\ editor'.cut[g] = editor.cut[g]
          /\ editor'.backup[g] = editor.backup[g]
      BY <2>2 DEF OnlyList
    <3> QED BY <1>1, <3>1 DEF TeamLists
  <2> QED BY <2>1, <2>2
<1>3. \A s1, s2 \in editor.seen : s1 = s2
  BY <1>1 DEF TeamLists
<1>4. PageShape(editor') /\ editor'.seen = editor.seen /\ ~editor'.new
  BY DEF OnlyList
<1>5. TeamLists(editor', trail')
  BY <1>2, <1>3, <1>4 DEF TeamLists
<1> QED BY <1>4, <1>5, StepKeeps

\* A list left alone is in order.
LEMMA ListInOrder ==
  ASSUME TeamInv, NEW f \in Functions
  PROVE  /\ editor.shown[f] \subseteq trail.letIn /\ \A b \in editor.backup[f] : b \subseteq trail.letIn
         /\ \A s \in editor.seen :
              Active(s.rows, f) \subseteq editor.shown[f] \cup editor.cut[f] \cup trail.lost \cup trail.asked
  BY DEF TeamInv, TeamLists

\* What the page has seen is the one team in it.
LEMMA RowsAreSeen == ASSUME TeamInv, NEW s \in editor.seen PROVE Rows = s.rows
<1>1. (CHOOSE t \in editor.seen : TRUE) = s
  BY DEF TeamInv, TeamLists
<1> QED BY <1>1 DEF Rows, Loaded

\* Nothing in the trail moves.
LEMMA SameTrail ==
  ASSUME TeamInv, trail' = trail
  PROVE  TrailShape(trail') /\ Grows(trail, trail') /\ trail'.gone = trail.gone /\ trail'.wiped = trail.wiped
  BY DEF TeamInv, Grows, TrailShape

LEMMA EditKeeps == ASSUME TeamInv, NEW f \in Functions, EditModeControl(f) PROVE TeamInv'
<1>1. /\ editor' = [editor EXCEPT !.editMode[f] = TRUE,
                                  !.backup[f] = IF @ = {} THEN {editor.shown[f]} ELSE @]
      /\ team' = team /\ calls' = calls /\ trail' = trail /\ ~editor.new
  BY DEF EditModeControl
<1>2. /\ editor'.shown = editor.shown /\ editor'.cut = editor.cut /\ OnlyList(f)
      /\ editor'.backup[f] = IF editor.backup[f] = {} THEN {editor.shown[f]} ELSE editor.backup[f]
  BY <1>1 DEF TeamInv, PageShape, OnlyList
<1> QED BY <1>1, <1>2, SameTrail, ListInOrder, OneListKeeps

LEMMA AddMembersKeeps == ASSUME TeamInv, NEW f \in Functions, NEW u, addMembers(f, u) PROVE TeamInv'
<1>1. /\ editor' = [editor EXCEPT !.shown[f] = @ \cup {u}, !.cut[f] = @ \ {u}]
      /\ trail' = [trail EXCEPT !.letIn = @ \cup {u}]
      /\ team' = team /\ calls' = calls /\ ~editor.new
  BY DEF addMembers, TeamInv, Fresh
<1>2. /\ editor'.shown[f] = editor.shown[f] \cup {u} /\ editor'.cut[f] = editor.cut[f] \ {u}
      /\ editor'.backup[f] = editor.backup[f] /\ OnlyList(f)
  BY <1>1 DEF TeamInv, PageShape, OnlyList
<1>3. /\ TrailShape(trail') /\ trail'.letIn = trail.letIn \cup {u} /\ trail'.asked = trail.asked
      /\ trail'.lost = trail.lost /\ trail'.gone = trail.gone /\ trail'.wiped = trail.wiped
  BY <1>1 DEF TeamInv, TrailShape
<1>4. Grows(trail, trail')
  BY <1>3 DEF Grows
<1>5. /\ editor'.shown[f] \subseteq trail'.letIn /\ \A b \in editor'.backup[f] : b \subseteq trail'.letIn
      /\ \A s \in editor.seen :
           Active(s.rows, f) \subseteq editor'.shown[f] \cup editor'.cut[f] \cup trail'.lost \cup trail'.asked
  BY <1>2, <1>3, ListInOrder
<1> QED BY <1>1, <1>2, <1>3, <1>4, <1>5, OneListKeeps

LEMMA RemoveMembersKeeps == ASSUME TeamInv, NEW f \in Functions, NEW u, removeMembers(f, u) PROVE TeamInv'
<1>1. /\ editor' = [editor EXCEPT !.shown[f] = @ \ {u}, !.cut[f] = @ \cup {u}]
      /\ team' = team /\ calls' = calls /\ trail' = trail /\ ~editor.new
  BY DEF removeMembers, TeamInv, Fresh
<1>2. /\ editor'.shown[f] = editor.shown[f] \ {u} /\ editor'.cut[f] = editor.cut[f] \cup {u}
      /\ editor'.backup[f] = editor.backup[f] /\ OnlyList(f)
  BY <1>1 DEF TeamInv, PageShape, OnlyList
<1>3. /\ editor'.shown[f] \subseteq trail'.letIn /\ \A b \in editor'.backup[f] : b \subseteq trail'.letIn
      /\ \A s \in editor.seen :
           Active(s.rows, f) \subseteq editor'.shown[f] \cup editor'.cut[f] \cup trail'.lost \cup trail'.asked
  BY <1>1, <1>2, ListInOrder
<1> QED BY <1>1, <1>2, <1>3, SameTrail, OneListKeeps

\* What an old backup lacks is lost.
LEMMA CancelKeeps == ASSUME TeamInv, NEW f \in Functions, Cancel(f) PROVE TeamInv'
<1> DEFINE restored == UNION editor.backup[f]
           lost == Active(Rows, f) \ restored
<1>1. /\ editor' = [editor EXCEPT !.editMode[f] = FALSE, !.shown[f] = restored, !.cut[f] = {}]
      /\ trail' = [trail EXCEPT !.lost = @ \cup lost]
      /\ team' = team /\ calls' = calls /\ ~editor.new
  BY DEF Cancel, TeamInv, Fresh
<1>2. restored \subseteq trail.letIn
  BY ListInOrder
<1>3. \A s \in editor.seen : Active(s.rows, f) \subseteq restored \cup lost
  BY RowsAreSeen
<1> HIDE DEF restored, lost
<1>4. /\ editor'.shown[f] = restored /\ editor'.cut[f] = {}
      /\ editor'.backup[f] = editor.backup[f] /\ OnlyList(f)
  BY <1>1 DEF TeamInv, PageShape, OnlyList
<1>5. /\ TrailShape(trail') /\ trail'.letIn = trail.letIn /\ trail'.asked = trail.asked
      /\ trail'.lost = trail.lost \cup lost /\ trail'.gone = trail.gone /\ trail'.wiped = trail.wiped
  BY <1>1 DEF TeamInv, TrailShape
<1>6. Grows(trail, trail')
  BY <1>5 DEF Grows
<1>7. /\ editor'.shown[f] \subseteq trail'.letIn /\ \A b \in editor'.backup[f] : b \subseteq trail'.letIn
      /\ \A s \in editor.seen :
           Active(s.rows, f) \subseteq editor'.shown[f] \cup editor'.cut[f] \cup trail'.lost \cup trail'.asked
  BY <1>2, <1>3, <1>4, <1>5, ListInOrder
<1> QED BY <1>1, <1>4, <1>5, <1>6, <1>7, OneListKeeps

\* Saving a list asks those who were cut to go, and nobody else.
LEMMA TeamSubmitKeeps == ASSUME TeamInv, NEW f \in Functions, submitMembers(f) PROVE TeamInv'
<1> DEFINE shown == editor.shown[f]
           added == shown \ Active(Rows, f)
           removed == Active(Rows, f) \ shown
<1>1. /\ editor' = [editor EXCEPT !.editMode[f] = FALSE, !.backup[f] = {shown}, !.cut[f] = {}]
      /\ trail' = [trail EXCEPT !.asked = @ \cup editor.cut[f]]
      /\ team' = team /\ ~editor.new /\ Loaded
  BY DEF submitMembers, TeamInv, Fresh
<1>2. /\ editor'.shown[f] = shown /\ editor'.cut[f] = {} /\ editor'.backup[f] = {shown} /\ OnlyList(f)
  BY <1>1 DEF TeamInv, PageShape, OnlyList
<1>3. /\ TrailShape(trail') /\ trail'.letIn = trail.letIn /\ trail'.asked = trail.asked \cup editor.cut[f]
      /\ trail'.lost = trail.lost /\ trail'.gone = trail.gone /\ trail'.wiped = trail.wiped
  BY <1>1 DEF TeamInv, TrailShape
<1>4. Grows(trail, trail')
  BY <1>3 DEF Grows
<1>5. /\ editor'.shown[f] \subseteq trail'.letIn /\ \A b \in editor'.backup[f] : b \subseteq trail'.letIn
      /\ \A s \in editor.seen :
           Active(s.rows, f) \subseteq editor'.shown[f] \cup editor'.cut[f] \cup trail'.lost \cup trail'.asked
  BY <1>2, <1>3, ListInOrder
<1>6. added \subseteq trail'.letIn /\ removed \subseteq trail'.asked \cup trail'.lost
  <2>1. PICK s \in editor.seen : TRUE
    BY <1>1 DEF Loaded
  <2>2. Rows = s.rows
    BY RowsAreSeen
  <2> QED BY <1>2, <1>3, <1>5, <2>2
<1>7. PICK n : \A c \in calls' : \/ c \in calls \/ c = Load(n)
                                 \/ \E u \in added : c = Call("add", Boss, u, f, n, f = "MEMBER")
                                 \/ \E u \in removed : c = Call("leave", Boss, u, f, n, f = "MEMBER")
  BY DEF submitMembers, Numbered, getMembersDiff, usersRemoved
<1> HIDE DEF shown, added, removed
<1>8. Agreed(Load(n), trail')
  BY HarmlessCall DEF Load
<1>9. \A c \in calls' : c \in calls \/ Agreed(c, trail')
  BY <1>6, <1>7, <1>8, AddCall, LeaveCall
<1> QED BY <1>1, <1>2, <1>3, <1>4, <1>5, <1>9, OneListKeeps

\* A request that came back, with another phase, is still agreed on.
LEMMA SettledIsAgreed ==
  ASSUME NEW t, NEW c, Agreed(c, t), NEW phase, phase # "done" PROVE Agreed([c EXCEPT !.phase = phase], t)
<1> DEFINE r == [c EXCEPT !.phase = phase]
<1>1. /\ DOMAIN r = CallFields /\ r.kind = c.kind /\ r.user = c.user /\ r.arg = c.arg /\ r.phase = phase
  BY DEF Agreed, CallFields
<1> HIDE DEF r
<1> QED BY <1>1 DEF Agreed, r

\* The list of members loses who was refused; when the team has him all the same, he is lost.
LEMMA MemberAnswerKeeps == ASSUME TeamInv, NEW c \in calls, MemberAnswer(c) PROVE TeamInv'
<1>1. /\ calls' = (calls \ {c}) \cup {[c EXCEPT !.phase = "settled"]} /\ team' = team /\ ~editor.new
      /\ Agreed(c, trail)
  BY DEF MemberAnswer, TeamInv, Fresh
<1>2. Agreed([c EXCEPT !.phase = "settled"], trail)
  BY <1>1, SettledIsAgreed
<1>3. CASE c.phase = "done"
  <2>1. editor' = editor /\ trail' = trail
    BY <1>3 DEF MemberAnswer
  <2>2. PageShape(editor') /\ TeamLists(editor', trail')
    BY <2>1 DEF TeamInv
  <2> QED BY <1>1, <1>2, <2>1, <2>2, SameTrail, StepKeeps
<1>4. CASE c.phase # "done"
  <2> DEFINE f == "MEMBER"
             lost == {c.user} \cap Active(Rows, f)
  <2>1. /\ editor' = [editor EXCEPT !.shown[f] = @ \ {c.user}]
        /\ trail' = [trail EXCEPT !.lost = @ \cup lost]
    BY <1>4 DEF MemberAnswer
  <2>2. f \in Functions
    BY DEF Functions
  <2>3. \A s \in editor.seen : Active(s.rows, f) \cap {c.user} \subseteq lost
    BY RowsAreSeen
  <2> HIDE DEF f, lost
  <2>4. /\ editor'.shown[f] = editor.shown[f] \ {c.user} /\ editor'.cut[f] = editor.cut[f]
        /\ editor'.backup[f] = editor.backup[f] /\ OnlyList(f)
    BY <2>1, <2>2 DEF TeamInv, PageShape, OnlyList
  <2>5. /\ TrailShape(trail') /\ trail'.letIn = trail.letIn /\ trail'.asked = trail.asked
        /\ trail'.lost = trail.lost \cup lost /\ trail'.gone = trail.gone /\ trail'.wiped = trail.wiped
    BY <2>1 DEF TeamInv, TrailShape
  <2>6. Grows(trail, trail')
    BY <2>5 DEF Grows
  <2>7. /\ editor'.shown[f] \subseteq trail'.letIn /\ \A b \in editor'.backup[f] : b \subseteq trail'.letIn
        /\ \A s \in editor.seen :
             Active(s.rows, f) \subseteq editor'.shown[f] \cup editor'.cut[f] \cup trail'.lost \cup trail'.asked
    BY <2>2, <2>3, <2>4, <2>5, ListInOrder
  <2>8. \A d \in calls' : d \in calls \/ Agreed(d, trail')
    BY <1>1, <1>2, <2>6, AgreedGrows
  <2> QED BY <1>1, <2>2, <2>4, <2>5, <2>6, <2>7, <2>8, OneListKeeps
<1> QED BY <1>3, <1>4

\* A step that touches neither the rows, the lists nor the trail.
LEMMA CallsOnly ==
  ASSUME TeamInv, team' = team, editor' = editor, trail' = trail, ~editor.new,
         \A c \in calls' : c \in calls \/ Agreed(c, trail)
  PROVE  TeamInv'
<1>1. PageShape(editor') /\ TeamLists(editor', trail')
  BY DEF TeamInv
<1> QED BY <1>1, SameTrail, StepKeeps

LEMMA MembersSavedKeeps == ASSUME TeamInv, NEW n, MembersSaved(n) PROVE TeamInv'
<1>1. /\ team' = team /\ editor' = editor /\ trail' = trail
      /\ \A c \in calls' : c \in calls \/ c = Load(n)
      /\ calls # {}
  BY DEF MembersSaved
<1>2. Agreed(Load(n), trail) /\ ~editor.new
  BY <1>1, HarmlessCall DEF Load, TeamInv, Fresh
<1> QED BY <1>1, <1>2, CallsOnly

\* The lists become those of the team that came.
LEMMA LoadedKeeps == ASSUME TeamInv, NEW c \in calls, TeamLoaded(c) PROVE TeamInv'
<1> DEFINE lists == [f \in Functions |-> Active(c.got.rows, f)]
           asking == IF Loaded THEN editor.requests ELSE Inactive(c.got.rows)
<1>1. /\ c.kind = "load" /\ c.phase = "done" /\ calls' = calls \ {c} /\ team' = team /\ trail' = trail
      /\ editor' = [editor EXCEPT !.seen = {c.got}, !.shown = lists, !.requests = asking]
  BY DEF TeamLoaded
<1>2. DOMAIN lists = Functions /\ \A f \in Functions : lists[f] = Active(c.got.rows, f)
  OBVIOUS
<1> HIDE DEF lists, asking
<1>3. /\ PageShape(editor') /\ editor'.seen = {c.got} /\ editor'.shown = lists /\ editor'.backup = editor.backup
      /\ editor'.new = editor.new
  BY <1>1, <1>2 DEF TeamInv, PageShape
<1>4. Anybody(c.got.rows, "MEMBER") \subseteq trail.letIn
  BY <1>1 DEF TeamInv, Agreed
<1>5. \A f \in Functions : lists[f] \subseteq trail.letIn
  BY <1>2, <1>4, ActiveIsAnybody
<1>6. \A f \in Functions : \A b \in editor.backup[f] : b \subseteq trail.letIn
  BY ListInOrder
<1>7. TeamLists(editor', trail')
  BY <1>1, <1>2, <1>3, <1>5, <1>6 DEF TeamLists
<1>8. ~editor.new
  BY DEF TeamInv, Fresh
<1> QED BY <1>1, <1>3, <1>7, <1>8, SameTrail, StepKeeps

LEMMA UpdateKeeps ==
  ASSUME TeamInv, NEW kind \in {"update", "notify"}, NEW arg, updateTeam(kind, arg) PROVE TeamInv'
<1>1. /\ team' = team /\ editor' = editor /\ trail' = trail /\ ~editor.new
      /\ \E n : calls' = calls \cup {Call(kind, Boss, Boss, arg, n, FALSE), Load(n)}
  BY DEF updateTeam, Numbered
<1>2. \A n : Agreed(Call(kind, Boss, Boss, arg, n, FALSE), trail) /\ Agreed(Load(n), trail)
  BY HarmlessCall DEF Load
<1> QED BY <1>1, <1>2, CallsOnly

\* An answer to a request to join is remembered: who is accepted is let in, who is rejected asked to go.
LEMMA AnswerKeeps ==
  ASSUME TeamInv, NEW u, NEW action \in {"accept", "reject"}, acceptRejectRequest(u, action) PROVE TeamInv'
<1> DEFINE let == IF action = "accept" THEN {u} ELSE {}
           ask == IF action = "reject" THEN {u} ELSE {}
<1>1. /\ team' = team /\ editor' = editor /\ ~editor.new
      /\ trail' = [trail EXCEPT !.letIn = @ \cup let, !.asked = @ \cup ask]
  BY DEF acceptRejectRequest, TeamInv, Fresh
<1>2. u \in (IF action = "accept" THEN let ELSE ask)
  OBVIOUS
<1> HIDE DEF let, ask
<1>3. /\ TrailShape(trail') /\ trail'.letIn = trail.letIn \cup let /\ trail'.asked = trail.asked \cup ask
      /\ trail'.lost = trail.lost /\ trail'.gone = trail.gone /\ trail'.wiped = trail.wiped
  BY <1>1 DEF TeamInv, TrailShape
<1>4. Grows(trail, trail')
  BY <1>3 DEF Grows
<1>5. PICK n : calls' = calls \cup {[Call("answer", Boss, u, action, n, TRUE) EXCEPT !.of = editor.requests]}
  BY DEF acceptRejectRequest, Numbered
<1> DEFINE c == Call("answer", Boss, u, action, n, TRUE)
           r == [c EXCEPT !.of = editor.requests]
<1>6. DOMAIN c = CallFields /\ c.kind = "answer" /\ c.user = u /\ c.arg = action
  BY DEF Call, CallFields
<1> HIDE DEF c
<1>7. DOMAIN r = CallFields /\ r.kind = "answer" /\ r.user = u /\ r.arg = action
  BY <1>6 DEF CallFields
<1>8. calls' = calls \cup {r}
  BY <1>5 DEF c
<1> HIDE DEF r
<1>9. Agreed(r, trail')
  BY <1>2, <1>3, <1>7 DEF Agreed, TeamRequests
<1>10. PageShape(editor') /\ TeamLists(editor', trail')
  BY <1>1, <1>4, ListsGrow DEF TeamInv
<1> QED BY <1>1, <1>3, <1>4, <1>8, <1>9, <1>10, StepKeeps

LEMMA AnsweredKeeps == ASSUME TeamInv, NEW c \in calls, RequestAnswered(c) PROVE TeamInv'
<1>1. /\ c.kind = "answer" /\ calls' = calls \ {c} /\ team' = team /\ trail' = trail /\ ~editor.new /\ Agreed(c, trail)
  BY DEF RequestAnswered, TeamInv, Fresh
<1>2. CASE c.phase = "failed"
  BY <1>1, <1>2, CallsOnly DEF RequestAnswered
<1>3. CASE c.phase # "failed"
  <2> DEFINE f == "MEMBER"
             more == IF c.arg = "accept" THEN editor.shown[f] \cup {c.user} ELSE editor.shown[f]
  <2>1. editor' = [editor EXCEPT !.requests = c.of \ {c.user}, !.shown[f] = more]
    BY <1>3 DEF RequestAnswered
  <2>2. f \in Functions
    BY DEF Functions
  <2>3. editor.shown[f] \subseteq more /\ more \subseteq trail.letIn
    BY <1>1, <2>2, ListInOrder DEF Agreed
  <2> HIDE DEF f, more
  <2>4. /\ editor'.shown[f] = more /\ editor'.cut[f] = editor.cut[f]
        /\ editor'.backup[f] = editor.backup[f] /\ OnlyList(f)
    BY <2>1, <2>2 DEF TeamInv, PageShape, OnlyList
  <2>5. /\ editor'.shown[f] \subseteq trail'.letIn /\ \A b \in editor'.backup[f] : b \subseteq trail'.letIn
        /\ \A s \in editor.seen :
             Active(s.rows, f) \subseteq editor'.shown[f] \cup editor'.cut[f] \cup trail'.lost \cup trail'.asked
    BY <1>1, <2>2, <2>3, <2>4, ListInOrder
  <2> QED BY <1>1, <2>2, <2>4, <2>5, SameTrail, OneListKeeps
<1> QED BY <1>2, <1>3

\* What Me asks for through the API: to join needs nobody's consent to be asked, to leave is his own wish.
LEMMA MeKeeps == ASSUME TeamInv, JoinTeam \/ LeaveTeam PROVE TeamInv'
<1>1. CASE JoinTeam
  <2>1. /\ team' = team /\ editor' = editor /\ trail' = trail /\ ~editor.new
        /\ \E n : calls' = calls \cup {Call("join", Me, Me, "", n, FALSE)}
    BY <1>1 DEF JoinTeam, ApiCall, Numbered
  <2>2. \A n : Agreed(Call("join", Me, Me, "", n, FALSE), trail)
    BY HarmlessCall
  <2> QED BY <2>1, <2>2, CallsOnly
<1>2. CASE LeaveTeam
  <2>1. /\ team' = team /\ editor' = editor /\ ~editor.new /\ trail' = [trail EXCEPT !.asked = @ \cup {Me}]
        /\ \E n : calls' = calls \cup {Call("leave", Me, Me, "", n, FALSE)}
    BY <1>2 DEF LeaveTeam, ApiCall, Numbered
  <2>2. /\ TrailShape(trail') /\ trail'.letIn = trail.letIn /\ trail'.asked = trail.asked \cup {Me}
        /\ trail'.lost = trail.lost /\ trail'.gone = trail.gone /\ trail'.wiped = trail.wiped
    BY <2>1 DEF TeamInv, TrailShape
  <2>3. Grows(trail, trail')
    BY <2>2 DEF Grows
  <2>4. Me \in trail'.asked \cup trail'.lost
    BY <2>2
  <2>5. \A n : Agreed(Call("leave", Me, Me, "", n, FALSE), trail')
    BY <2>4, LeaveCall
  <2>6. PageShape(editor') /\ TeamLists(editor', trail')
    BY <2>1, <2>3, ListsGrow DEF TeamInv
  <2> QED BY <2>1, <2>2, <2>3, <2>5, <2>6, StepKeeps
<1> QED BY <1>1, <1>2

LEMMA EditTeamKeeps == ASSUME TeamInv, EditTeam PROVE TeamInv'
<1>1. ASSUME NEW f \in Functions, Members(f) PROVE TeamInv'
  BY <1>1, EditKeeps, CancelKeeps, TeamSubmitKeeps, AddMembersKeeps, RemoveMembersKeeps DEF Members
<1>2. ASSUME NEW j, TeamForm(j) PROVE TeamInv'
  BY <1>2, UpdateKeeps DEF TeamForm
<1>3. CASE JoinRequests
  BY <1>3, UpdateKeeps, AnswerKeeps DEF JoinRequests, handleJoinRequestNotificationsChange
<1> QED BY <1>1, <1>2, <1>3, MembersSavedKeeps, MemberAnswerKeeps, LoadedKeeps, AnsweredKeeps DEF EditTeam

LEMMA TeamStutters == ASSUME TeamInv, UNCHANGED teamVars PROVE TeamInv'
  BY DEF teamVars, TeamInv, Fresh, MembershipIsAgreed, NobodyLeavesUnasked, EveryMemberWasLetIn

----------------------------------------------------------------------------
\* Nobody loses an active place in the team unless he left it, was removed or rejected by name, was lost by a
\* list of the page or deleted by the switch of the notifications; and whoever has one was let in.
THEOREM MembershipCorrect == TeamSpec => []MembershipIsAgreed
<1>1. TeamInit => TeamInv
  BY TeamStarts
<1>2. TeamInv /\ [TeamNext]_teamVars => TeamInv'
  BY CreateKeeps, EditTeamKeeps, MeKeeps, ServeKeeps, TeamStutters DEF TeamNext
<1>3. TeamInv => MembershipIsAgreed
  BY DEF TeamInv
<1> QED BY <1>1, <1>2, <1>3, PTL DEF TeamSpec
=============================================================================
