------------------------------- MODULE Session ------------------------------
(***************************************************************************)
(* Who is logged in, in one browser: the token, the user's details and the *)
(* loader in the store, all of which outlive the page; the login through a *)
(* window of OpenStreetMap, which ends with a load of the page; and the    *)
(* forms of the settings, which save and then fetch the details again.     *)
(***************************************************************************)
EXTENDS Integers

CONSTANTS Accounts, \* who logs in here
          MaxActs   \* bound: what the user does, and failures

ASSUME SessionAssumption == MaxActs \in Nat

VARIABLES token,    \* whose token the store holds, "" for none
          details,  \* the user's details: whose, and the value of one setting
          loader,   \* the preloader is shown instead of the pages
          loads,    \* requests under way
          popup,    \* the login window is open
          arriving, \* who comes back from it: the parameters of /authorized
          effect,   \* the page was loaded and App has not asked for the details yet
          saved,    \* the server: each user's setting
          switch,   \* the settings page: its switch, Unset before the details are there
          dirty,    \* the settings page: the personal information has edits
          late,     \* details came in for a token no longer held, or behind an open login window
          stranded, \* the page was loaded with the preloader on and nobody's details
          unsure,   \* saves or fetches overlapped or failed, or the settings were opened in the middle of one
          acts

storeVars == <<token, details, loader>>
settingsVars == <<switch, dirty, unsure>>
loginVars == <<popup, arriving, effect, stranded>>
sessionVars == <<storeVars, settingsVars, loginVars, loads, saved, late, acts>>

Closed == 3
Unset == 2
Act == acts < MaxActs /\ acts' = acts + 1
Nobody == [of |-> "", expert |-> 0]
Fetching(user, tok) == [kind |-> "details", user |-> user, token |-> tok, value |-> 0, phase |-> "sent"]
Saving(tok, v) == [kind |-> "save", user |-> "", token |-> tok, value |-> v, phase |-> "sent"]
Osm(user, tok) == [kind |-> "osm", user |-> user, token |-> tok, value |-> 0, phase |-> "sent"]
Pending(kind) == {r \in loads : r.kind = kind}

SessionInit ==
  /\ token = "" /\ details = Nobody /\ loader = FALSE /\ loads = {}
  /\ popup = FALSE /\ arriving = "" /\ effect = FALSE
  /\ saved = [a \in Accounts |-> 0] /\ switch = Closed /\ dirty = FALSE
  /\ late = FALSE /\ stranded = FALSE /\ unsure = FALSE /\ acts = 0

----------------------------------------------------------------------------
(* The store.                                                              *)

\* Both requests at once; a first login shows the preloader, an update does not.
setUserDetails(user, tok) == {Fetching(user, tok), Osm(user, tok)}
\* The preloader takes the place of every page.
Shows(load) == loader' = load /\ IF load THEN switch' = Closed /\ dirty' = FALSE ELSE UNCHANGED <<switch, dirty>>

ClearedDetails == Nobody
logout == token' = "" /\ details' = ClearedDetails

\* The switch takes its value once.
TakenOnce(v) == IF switch = Unset THEN v ELSE switch
authorizationReducer(r) ==
  /\ details' = [of |-> r.user, expert |-> r.value]
  /\ switch' = TakenOnce(r.value) /\ dirty' = FALSE   \* the form starts again from the details
  /\ late' = (late \/ r.token # token \/ popup)

\* A variant: a failure leaves the preloader on.
LeftOn == loader
AfterFailure == FALSE

DetailsArrive(r) ==
  /\ r \in Pending("details") /\ r.phase = "done" /\ loads' = loads \ {r}
  /\ authorizationReducer(r) /\ loader' = FALSE
  /\ UNCHANGED <<token, loginVars, saved, unsure, acts>>
InvalidToken(r) ==
  /\ r \in Pending("details") /\ r.phase = "invalid" /\ loads' = loads \ {r}
  /\ logout /\ loader' = AfterFailure
  /\ switch' = (IF token = "" THEN switch ELSE Closed) /\ dirty' = (dirty /\ token = "")
  /\ UNCHANGED <<loginVars, saved, unsure, late, acts>>
DetailsFail(r) ==
  /\ r \in Pending("details") /\ Act /\ loads' = loads \ {r} /\ loader' = AfterFailure /\ unsure' = TRUE
  /\ UNCHANGED <<token, details, switch, dirty, loginVars, saved, late>>
OsmArrives(r) ==
  /\ r \in Pending("osm") /\ loads' = loads \ {r} /\ loader' \in {loader, FALSE}
  /\ UNCHANGED <<token, details, settingsVars, loginVars, saved, late, acts>>

(* The server: anybody's details for any valid token; tokens expire.       *)
get_user_dto_by_username(r) ==
  /\ r \in Pending("details") /\ r.phase = "sent"
  /\ \/ r.token # "" /\ r.user # ""
        /\ loads' = (loads \ {r}) \cup {[r EXCEPT !.phase = "done", !.value = saved[r.user]]} /\ UNCHANGED acts
     \/ r.token = "" /\ loads' = (loads \ {r}) \cup {[r EXCEPT !.phase = "invalid"]} /\ UNCHANGED acts
     \/ r.token # "" /\ Act /\ loads' = (loads \ {r}) \cup {[r EXCEPT !.phase = "invalid"]}
  /\ UNCHANGED <<storeVars, settingsVars, loginVars, saved, late>>
update_user_details(r) ==
  /\ r \in Pending("save") /\ r.phase = "sent" /\ saved' = [saved EXCEPT ![r.token] = r.value]
  /\ loads' = (loads \ {r}) \cup {[r EXCEPT !.phase = "done"]}
  /\ UNCHANGED <<storeVars, settingsVars, loginVars, late, acts>>

----------------------------------------------------------------------------
(* Logging in and out.                                                     *)

\* The header offers the login where there are no details, the login page
\* where there is no token.
createLoginWindow ==
  /\ ~loader /\ ~popup /\ (details.of = "" \/ token = "") /\ Act /\ popup' = TRUE
  /\ UNCHANGED <<storeVars, settingsVars, arriving, effect, stranded, loads, saved, late>>

\* A load of the page: what was under way is lost, a login window too; the store is what it was.
PageLoad(user) ==
  /\ popup' = FALSE
  /\ loads' = {} /\ effect' = TRUE /\ arriving' = user
  /\ stranded' = (stranded \/ (loader /\ details.of = "")) /\ switch' = Closed /\ dirty' = FALSE
  /\ unsure' = (unsure \/ Pending("save") # {})
  /\ UNCHANGED <<storeVars, saved, late>>
authComplete == popup /\ (\E u \in Accounts : PageLoad(u)) /\ UNCHANGED acts
LoginGivenUp ==
  popup /\ popup' = FALSE /\ UNCHANGED <<storeVars, settingsVars, arriving, effect, stranded, loads, saved, late, acts>>
Reload == Act /\ PageLoad(arriving)

\* The page of /authorized is drawn before App's effect runs, unless the preloader hides it.
AuthorizedView ==
  /\ arriving # "" /\ ~loader /\ token' = arriving /\ arriving' = "" /\ Shows(TRUE)
  /\ loads' = loads \cup setUserDetails(arriving, arriving)
  /\ UNCHANGED <<details, popup, effect, stranded, saved, late, unsure, acts>>
getUserDetails ==
  /\ effect /\ (arriving = "" \/ loader) /\ effect' = FALSE
  /\ IF details.of = "" THEN UNCHANGED <<loads, loader, switch, dirty>>
     ELSE Shows(TRUE) /\ loads' = loads \cup setUserDetails(details.of, token)
  /\ UNCHANGED <<token, details, popup, arriving, stranded, saved, late, unsure, acts>>

Logout ==
  /\ ~loader /\ details.of # "" /\ Act /\ logout /\ switch' = Closed /\ dirty' = FALSE
  /\ UNCHANGED <<loader, loads, saved, loginVars, late, unsure>>

----------------------------------------------------------------------------
(* The settings page.                                                      *)

Settings ==
  /\ ~loader /\ token # "" /\ arriving = "" /\ Act
  /\ switch' = (IF switch # Closed THEN Closed ELSE IF details.of = "" THEN Unset ELSE details.expert)
  /\ dirty' = FALSE /\ unsure' = (unsure \/ Pending("save") \cup Pending("details") # {})
  /\ UNCHANGED <<storeVars, loginVars, loads, saved, late>>

\* Variant: what is sent is the value shown when the click came.
StillShown(v) == v
Toggled(v) == 1 - v
onSwitchChange ==
  /\ switch \in {0, 1} /\ token # "" /\ Act /\ switch' = 1 - switch
  /\ loads' = loads \cup {Saving(token, Toggled(switch))} /\ unsure' = (unsure \/ Pending("save") # {})
  /\ UNCHANGED <<storeVars, loginVars, saved, late, dirty>>
\* A click before the details are there sends no user's id: the server refuses it, and the switch stays on.
BlindSwitchChange ==
  /\ switch = Unset /\ token # "" /\ Act /\ switch' = 1 /\ unsure' = TRUE
  /\ UNCHANGED <<storeVars, loginVars, loads, saved, late, dirty>>
PersonalInformationForm ==
  /\ switch # Closed /\ details.of # "" /\ ~dirty /\ Act /\ dirty' = TRUE
  /\ UNCHANGED <<storeVars, loginVars, loads, saved, late, switch, unsure>>

\* Saved, the details are fetched again: of the user who is logged in by then, or of nobody.
pushUserDetails(r) ==
  /\ r \in Pending("save") /\ r.phase = "done"
  /\ loads' = (loads \ {r}) \cup setUserDetails(token, r.token)
  /\ unsure' = (unsure \/ Pending("details") # {})
  /\ UNCHANGED <<storeVars, switch, dirty, loginVars, saved, late, acts>>
SaveFails(r) ==
  /\ r \in Pending("save") /\ Act /\ loads' = loads \ {r} /\ unsure' = TRUE
  /\ UNCHANGED <<storeVars, loginVars, saved, late, switch, dirty>>

\* App's effect runs as soon as the page is drawn.
SessionNext ==
  \/ AuthorizedView \/ getUserDetails
  \/ ~effect /\ \E r \in loads :
       \/ DetailsArrive(r) \/ InvalidToken(r) \/ DetailsFail(r) \/ OsmArrives(r)
       \/ get_user_dto_by_username(r) \/ update_user_details(r) \/ pushUserDetails(r) \/ SaveFails(r)
  \/ ~effect /\ (createLoginWindow \/ authComplete \/ LoginGivenUp \/ Reload \/ Logout)
  \/ ~effect /\ (Settings \/ onSwitchChange \/ BlindSwitchChange \/ PersonalInformationForm)

SessionSpec == SessionInit /\ [][SessionNext]_sessionVars

----------------------------------------------------------------------------
\* While the preloader hides every page, a request for details is under way
\* that will end it, or App is about to make one; except when the page is
\* loaded in the middle of a first login, of which the store keeps the
\* preloader and nothing that would end it.
LoaderHasRequest == loader => Pending("details") # {} \/ effect \/ stranded

\* With nothing left to save, a switch of the settings shows what the server
\* has, whatever details arrive in between; except after saves or
\* fetches that overlapped, after a request that failed, or when the page was opened in the
\* middle of one.
SwitchIsSaved ==
  switch \in {0, 1} /\ token # "" /\ Pending("save") = {} => unsure \/ late \/ switch = saved[token]
=============================================================================
