----------------------------- MODULE Catalogue ------------------------------
(***************************************************************************)
(* The catalogues an administrator keeps: organisations, campaigns,        *)
(* interests (categories) and licences.  Each has a list, a page to create *)
(* an entry, a page to edit one, and a dialog to delete it.  The pages     *)
(* follow one pattern and differ in what they wait for: a campaign's       *)
(* requests are awaited (useAsync), those of the others are not.  The      *)
(* server holds the entries; others work on them meanwhile.                *)
(***************************************************************************)
EXTENDS Integers, FiniteSets

CONSTANTS Kinds,      \* the catalogues visited, of "organisations", "campaigns", "interests", "licenses"
          Names,      \* names typed into the forms
          MaxEntries, \* bound: entries ever created
          MaxSteps    \* bound: presses, typings and steps of others

ASSUME CatalogueAssumption == MaxEntries \in Nat /\ MaxSteps \in Nat

VARIABLES entries,  \* the server: the entries there are, [id, name]
          owner,    \* the organisation (an id) of a project of others, 0 if it has none
          view,     \* the page: what it shows and what was typed
          sent,     \* requests under way
          made,     \* what the visits of the page to create an entry have made: [visit, id]
          steps

catalogueVars == <<entries, owner, view, sent, made, steps>>

Ids == 1..MaxEntries
Step == steps < MaxSteps /\ steps' = steps + 1
Awaited(kind) == kind = "campaigns"
ShowsErrors(kind) == kind \in {"organisations", "campaigns"}
NamesTaken == {e.name : e \in entries}
Entry(id) == CHOOSE e \in entries : e.id = id
Exists(id) == \E e \in entries : e.id = id

Page(kind, at) ==
  [kind |-> kind, at |-> at, id |-> 0, mine |-> FALSE, listed |-> {}, loaded |-> "", typed |-> "",
   submitted |-> FALSE, since |-> FALSE, pending |-> FALSE, error |-> FALSE, modal |-> "closed"]
Request(kind, op, id, name) == [kind |-> kind, op |-> op, id |-> id, name |-> name, phase |-> "sent", got |-> {}]

CatalogueInit ==
  /\ \E k \in Kinds, n \in Names : /\ view = Page(k, "list") /\ entries = {[id |-> 1, name |-> n]}
                                   /\ sent = {Request(k, "list", 0, "all")}
  /\ owner = 0 /\ made = {} /\ steps = 0

----------------------------------------------------------------------------
(* The server.                                                             *)

Settle(r, phase, got) == sent' = (sent \ {r}) \cup {[r EXCEPT !.phase = phase, !.got = got]}

\* Names are unique in every one of the four tables.
Unused(name) == name \notin NamesTaken
Create(r) ==
  /\ r \in sent /\ r.op = "create" /\ r.phase = "sent"
  /\ IF Unused(r.name) /\ Cardinality(made) < MaxEntries - 1
     THEN LET new == Cardinality(made) + 2 IN
            /\ entries' = entries \cup {[id |-> new, name |-> r.name]}
            /\ made' = made \cup {[visit |-> r.id, id |-> new]} /\ Settle(r, "done", {new})
     ELSE UNCHANGED <<entries, made>> /\ Settle(r, "refused", {})
  /\ UNCHANGED <<owner, view, steps>>

Update(r) ==
  /\ r \in sent /\ r.op = "update" /\ r.phase = "sent"
  /\ IF Exists(r.id) /\ (Unused(r.name) \/ Entry(r.id).name = r.name)
     THEN entries' = (entries \ {Entry(r.id)}) \cup {[id |-> r.id, name |-> r.name]} /\ Settle(r, "done", {})
     ELSE UNCHANGED entries /\ Settle(r, "refused", {})
  /\ UNCHANGED <<owner, view, made, steps>>

Read(r) ==
  /\ r \in sent /\ r.op \in {"list", "load"} /\ r.phase = "sent"
  /\ CASE r.op = "list" -> Settle(r, "done", IF r.name = "all" THEN {e.id : e \in entries} ELSE {1} \cap {e.id : e \in entries})
       [] r.op = "load" /\ Exists(r.id) -> Settle(r, "done", {Entry(r.id).name})
       [] r.op = "load" /\ ~Exists(r.id) -> Settle(r, "refused", {})
  /\ UNCHANGED <<entries, owner, view, made, steps>>

\* Deleting reads the entry first.  Of an organisation the projects are counted; those the session has
\* read would lose their organisation with it, those that came since keep the row by their foreign key.
MayGo(id) == TRUE
can_be_deleted(id) == owner # id
DeleteChecked(r) ==
  /\ r \in sent /\ r.op = "delete" /\ r.phase = "sent"
  /\ IF ~Exists(r.id) \/ (r.kind = "organisations" /\ ~can_be_deleted(r.id))
     THEN Settle(r, "refused", {}) ELSE Settle(r, "checked", {owner} \cap {r.id})
  /\ UNCHANGED <<entries, owner, view, made, steps>>
DeleteCommits(r) ==
  /\ r \in sent /\ r.op = "delete" /\ r.phase = "checked"
  /\ IF ~Exists(r.id) \/ (r.kind = "organisations" /\ owner = r.id /\ r.got = {})
     THEN UNCHANGED <<entries, owner>> /\ Settle(r, "refused", {})
     ELSE /\ entries' = {e \in entries : e.id # r.id} /\ owner' = IF r.got # {} THEN 0 ELSE owner
          /\ Settle(r, "done", {})
  /\ UNCHANGED <<view, made, steps>>

\* Others delete, rename, and give their project to an organisation.
Others ==
  /\ Step
  /\ \/ /\ \E e \in entries, n \in Names : Unused(n) /\ entries' = (entries \ {e}) \cup {[e EXCEPT !.name = n]}
        /\ UNCHANGED owner
     \/ view.kind = "organisations" /\ (\E e \in entries : owner' = e.id) /\ UNCHANGED entries
  /\ UNCHANGED <<view, sent, made>>

----------------------------------------------------------------------------
(* The list.  The switch between all and one's own sends a request each    *)
(* time, and whichever answer comes last is shown.                         *)

ListOrganisations(mine) ==
  /\ Step /\ view.at = "list" /\ view.kind = "organisations" /\ mine # view.mine
  /\ view' = [view EXCEPT !.mine = mine]
  /\ sent' = sent \cup {Request(view.kind, "list", 0, IF mine THEN "mine" ELSE "all")}
  /\ UNCHANGED <<entries, owner, made>>
Listed(r) ==
  /\ r \in sent /\ r.op = "list" /\ r.phase = "done" /\ sent' = sent \ {r}
  /\ view' = IF view.at = "list" THEN [view EXCEPT !.listed = r.got] ELSE view
  /\ UNCHANGED <<entries, owner, made, steps>>
NewEntry ==
  /\ Step /\ view.at = "list" /\ view' = [Page(view.kind, "create") EXCEPT !.id = steps]
  /\ UNCHANGED <<entries, owner, sent, made>>
OpenEntry(id) ==
  /\ Step /\ view.at = "list" /\ id \in view.listed
  /\ view' = [Page(view.kind, "edit") EXCEPT !.id = id]
  /\ sent' = sent \cup {Request(view.kind, "load", id, "")}
  /\ UNCHANGED <<entries, owner, made>>

----------------------------------------------------------------------------
(* The forms.                                                              *)

Type(name) ==
  /\ Step /\ view.at \in {"create", "edit"} /\ name # view.typed
  /\ view' = [view EXCEPT !.typed = name, !.since = TRUE,
                          !.error = @ /\ ~(view.kind = "campaigns" /\ view.at = "edit")]
  /\ UNCHANGED <<entries, owner, sent, made>>

\* The submit button of a page that creates: disabled while the form is pristine, for a campaign also
\* while the request is under way.
NotPristine == view.typed # ""
FormSubmitButton == view.typed # "" /\ ~view.pending
CreateEntry ==
  /\ Step /\ view.at = "create" /\ FormSubmitButton
  /\ view' = [view EXCEPT !.pending = Awaited(view.kind), !.submitted = TRUE, !.since = FALSE]
  /\ sent' = sent \cup {Request(view.kind, "create", view.id, view.typed)}
  /\ UNCHANGED <<entries, owner, made>>
\* The page goes on to the entry created, also when it shows another by now.
Created(r) ==
  /\ r \in sent /\ r.op = "create" /\ r.phase \in {"done", "refused"}
  /\ IF r.phase = "done"
     THEN \E i \in r.got : /\ view' = [Page(view.kind, "edit") EXCEPT !.id = i]
                           /\ sent' = (sent \ {r}) \cup {Request(view.kind, "load", i, "")}
     ELSE /\ sent' = sent \ {r}
          /\ view' = IF view.at = "create" /\ view.id = r.id
                     THEN [view EXCEPT !.pending = FALSE, !.error = ShowsErrors(view.kind)] ELSE view
  /\ UNCHANGED <<entries, owner, made, steps>>

EntryLoaded(r) ==
  /\ r \in sent /\ r.op = "load" /\ r.phase \in {"done", "refused"} /\ sent' = sent \ {r}
  /\ view' = IF view.at = "edit" /\ view.id = r.id /\ r.phase = "done"
             THEN [view EXCEPT !.loaded = CHOOSE n \in r.got : TRUE, !.typed = CHOOSE n \in r.got : TRUE]
             ELSE view
  /\ UNCHANGED <<entries, owner, made, steps>>

\* The form counts what it submitted as saved, whatever the answer, and offers to save again only what
\* differs from the entry as it was first loaded.
dirtyForm == view.typed # view.loaded /\ (view.submitted => view.since)
SaveEntry ==
  /\ Step /\ view.at = "edit" /\ dirtyForm /\ ~view.pending
  /\ view' = [view EXCEPT !.submitted = TRUE, !.since = FALSE, !.pending = Awaited(view.kind)]
  /\ sent' = sent \cup {Request(view.kind, "update", view.id, view.typed)}
  /\ UNCHANGED <<entries, owner, made>>
RestartForm ==
  /\ Step /\ view.at = "edit" /\ dirtyForm
  /\ view' = [view EXCEPT !.typed = view.loaded, !.submitted = FALSE, !.since = FALSE]
  /\ UNCHANGED <<entries, owner, sent, made>>
Saved(r) ==
  /\ r \in sent /\ r.op = "update" /\ r.phase \in {"done", "refused"} /\ sent' = sent \ {r}
  /\ view' = IF view.at # "edit" THEN view
             ELSE [view EXCEPT !.pending = FALSE,
                               !.error = ShowsErrors(view.kind) /\ r.phase = "refused"]
  /\ UNCHANGED <<entries, owner, made, steps>>

----------------------------------------------------------------------------
(* The dialog to delete.  Closed while its request is under way, it may be *)
(* opened and confirmed again.                                             *)

DeleteButton ==
  /\ Step /\ view.at = "edit" /\ view.modal = "closed" /\ view' = [view EXCEPT !.modal = "asked"]
  /\ UNCHANGED <<entries, owner, sent, made>>
CloseModal ==
  /\ Step /\ view.modal # "closed" /\ view' = [view EXCEPT !.modal = "closed"]
  /\ UNCHANGED <<entries, owner, sent, made>>
deleteEntity ==
  /\ Step /\ view.modal = "asked" /\ view' = [view EXCEPT !.modal = "started"]
  /\ sent' = sent \cup {Request(view.kind, "delete", view.id, "")}
  /\ UNCHANGED <<entries, owner, made>>
Deleted(r) ==
  /\ r \in sent /\ r.op = "delete" /\ r.phase \in {"done", "refused"}
  /\ sent' = (sent \ {r}) \cup IF r.phase = "done" THEN {[r EXCEPT !.phase = "timer"]} ELSE {}
  /\ view' = IF view.at # "edit" \/ view.id # r.id THEN view
             ELSE [view EXCEPT !.modal = IF r.phase = "done" THEN "success" ELSE "failure"]
  /\ UNCHANGED <<entries, owner, made, steps>>
\* 750 ms after a deletion a timer that nothing stops goes back to the list, which is loaded anew
\* unless it is the page already.
BackToList(r) ==
  /\ r \in sent /\ r.op = "delete" /\ r.phase = "timer"
  /\ IF view.at = "list" THEN sent' = sent \ {r} /\ UNCHANGED view
     ELSE sent' = (sent \ {r}) \cup {Request(view.kind, "list", 0, "all")} /\ view' = Page(view.kind, "list")
  /\ UNCHANGED <<entries, owner, made, steps>>

\* The links back to the list, whatever is under way.
Leave ==
  /\ Step /\ view.at # "list" /\ view' = Page(view.kind, "list")
  /\ sent' = sent \cup {Request(view.kind, "list", 0, "all")}
  /\ UNCHANGED <<entries, owner, made>>

DeleteModal == DeleteButton \/ CloseModal \/ deleteEntity \/ \E r \in sent : Deleted(r) \/ BackToList(r)

(* The pages of each catalogue.                                            *)
EntryForm == SaveEntry \/ RestartForm \/ (\E n \in Names : Type(n)) \/ \E r \in sent : Saved(r)
OrganisationForm == view.kind = "organisations" /\ EntryForm
CampaignForm == view.kind = "campaigns" /\ EntryForm
InterestForm == view.kind = "interests" /\ EntryForm
LicenseForm == view.kind = "licenses" /\ EntryForm

Loads == \E r \in sent : EntryLoaded(r)
EditOrganisation == OrganisationForm \/ (view.kind = "organisations" /\ (DeleteModal \/ Loads))
EditCampaign == CampaignForm \/ (view.kind = "campaigns" /\ (DeleteModal \/ Loads))
EditInterest == InterestForm \/ (view.kind = "interests" /\ (DeleteModal \/ Loads))
EditLicense == LicenseForm \/ (view.kind = "licenses" /\ (DeleteModal \/ Loads))

Creates == CreateEntry \/ \E r \in sent : Created(r)
CreateOrganisation == view.kind = "organisations" /\ Creates
CreateCampaign == view.kind = "campaigns" /\ Creates
CreateInterest == view.kind = "interests" /\ Creates
CreateLicense == view.kind = "licenses" /\ Creates

Management == NewEntry \/ \E i \in Ids : OpenEntry(i)
Lists == Management \/ \E r \in sent : Listed(r)
OrgsManagement == view.kind = "organisations" /\ (Lists \/ \E mine \in BOOLEAN : ListOrganisations(mine))
CampaignsManagement == view.kind = "campaigns" /\ Lists
InterestsManagement == view.kind = "interests" /\ Lists
LicensesManagement == view.kind = "licenses" /\ Lists

CatalogueNext ==
  \/ OrgsManagement \/ CampaignsManagement \/ InterestsManagement \/ LicensesManagement
  \/ CreateOrganisation \/ CreateCampaign \/ CreateInterest \/ CreateLicense
  \/ EditOrganisation \/ EditCampaign \/ EditInterest \/ EditLicense
  \/ Leave \/ Others
  \/ \E r \in sent : Create(r) \/ Update(r) \/ Read(r) \/ DeleteChecked(r) \/ DeleteCommits(r)

CatalogueSpec == CatalogueInit /\ [][CatalogueNext]_catalogueVars

----------------------------------------------------------------------------
\* However often the submit button of a campaign is pressed and whatever is typed between the presses,
\* one visit of the page makes at most one campaign; the buttons of the other kinds stay enabled, yet
\* no two entries get one name.
OneVisitOneEntry ==
  /\ view.kind = "campaigns" => \A a, b \in made : a.visit = b.visit => a = b
  /\ \A e, f \in entries : e.name = f.name => e = f

\* A project keeps an organisation: what gives it to one that is being deleted is either seen by the
\* check or stopped by the foreign key; no project is left without one, nor with one that is gone.
ProjectKeepsOrganisation == [][owner # 0 => \E e \in entries' : e.id = owner']_catalogueVars
=============================================================================
