--------------------------- MODULE TaskPageProofs ---------------------------
(***************************************************************************)
(* The page on which a user works on locked tasks, for any tasks, delays   *)
(* and numbers of requests under way: one outcome of a validation at a     *)
(* time from a form, a timer for the expiry of the lock, and verdicts for  *)
(* all the tasks.                                                          *)
(***************************************************************************)
EXTENDS TaskEditing, TaskVerdicts, TLAPS, FiniteSetTheorems

----------------------------------------------------------------------------
(***************************************************************************)
(* The locks and their expiry.                                             *)
(*                                                                         *)
(* An extension stops the timer before the page knows the new time.  That  *)
(* it is armed again rests on the answer that follows: it must bring a     *)
(* time later than the one seen (WillTell), or the timer stays stopped.    *)
(***************************************************************************)

WorkFields == {"where", "action", "visit", "form", "seen", "edits", "crossed"}
RequestFields == {"kind", "visit", "form", "to", "ok", "updated"}
GoodRequest(r) ==
  /\ DOMAIN r = RequestFields
  /\ r.kind \in Kinds /\ r.visit \in Nat /\ r.updated \in Nat
  /\ r.visit <= work.visit /\ r.updated <= clock
  /\ r.form \in Nat /\ (r.visit = work.visit => r.form <= work.form)
EditShape ==
  /\ DOMAIN work = WorkFields /\ DOMAIN timers = {"about", "expired"} /\ DOMAIN lock = {"held", "since", "row"}
  /\ {clock, lock.row, work.visit, work.form, work.seen, timers.expired} \subseteq Nat
  /\ lock.row <= clock /\ work.seen <= clock
  /\ work.where \in {"away", "loading", "work", "empty"}
  /\ \A r \in sent : GoodRequest(r)
\* An outcome of a validation that the form has under way is one for whose answer a button waits.
OutcomePending ==
  work.action = "VALIDATION" =>
    \A r \in sent : Mounted(r) /\ r.kind \in Buttons /\ r.form = work.form => r.kind \in pending
\* An extension that was granted is not later than the lock.
Latest == \A r \in sent : r.kind = "extend" /\ r.to = "page" /\ r.ok /\ lock.held => r.updated <= lock.row
\* The answer that comes will not repeat what the page has seen.
WillTell(r) ==
  /\ r.kind = "tasks" /\ Mounted(r)
  /\ \/ r.to = "server" /\ work.seen < clock /\ (lock.held => work.seen < lock.row)
     \/ r.to = "page" /\ (r.ok => work.seen < r.updated)
Watched ==
  work.where = "work" /\ ~work.crossed =>
    \/ timers.expired = At(work.seen + Expiry)
    \/ clock >= work.seen + Expiry
    \/ \E r \in sent : WillTell(r)
EditInv == EditShape /\ OutcomePending /\ OneOutcome /\ Latest /\ Watched

----------------------------------------------------------------------------
LEMMA Constants == {Expiry, Warning, MaxTime} \subseteq Nat /\ Off \in Nat
  BY TimesAssumption DEF Off

LEMMA EditStarts == ASSUME EditInit PROVE EditInv
  BY Constants DEF EditInit, EditInv, EditShape, OutcomePending, OneOutcome, Latest, Watched, WorkFields

----------------------------------------------------------------------------
(* The server, the clock and the timers.                                   *)

\* What a request becomes on the server.
LEMMA ServedRequest ==
  ASSUME EditInv, NEW r \in sent, r.to = "server", Act(r)
  PROVE  \E q : /\ sent' = (sent \ {r}) \cup {q}
                /\ DOMAIN q = RequestFields /\ q.kind = r.kind /\ q.visit = r.visit /\ q.form = r.form /\ q.to = "page"
                /\ q.updated \in {r.updated, lock.row, clock}
                /\ r.kind = "tasks" => (q.ok <=> lock.held) /\ q.updated = lock.row
                /\ r.kind = "extend" /\ q.ok => lock'.held /\ q.updated = lock'.row
                /\ \/ lock' = lock
                   \/ lock' = NoLock
                   \/ lock' = [held |-> TRUE, since |-> clock, row |-> clock]
<1>1. DOMAIN r = RequestFields
  BY DEF EditInv, EditShape, GoodRequest
<1>2. CASE r.kind = "tasks" /\ UNCHANGED lock
           /\ sent' = (sent \ {r}) \cup {[r EXCEPT !.to = "page", !.ok = lock.held, !.updated = lock.row]}
  <2>1. PICK q : q = [r EXCEPT !.to = "page", !.ok = lock.held, !.updated = lock.row]
    OBVIOUS
  <2>2. DOMAIN q = RequestFields /\ q.kind = r.kind /\ q.visit = r.visit /\ q.form = r.form /\ q.to = "page" /\ q.updated = lock.row
    BY <1>1, <2>1 DEF RequestFields
  <2>3. q.ok <=> lock.held
    BY <1>1, <2>1 DEF RequestFields
  <2> QED
    BY <1>2, <2>1, <2>2, <2>3
<1>3. CASE /\ r.kind = "extend" \/ r.kind = "relock"
           /\ lock' = [held |-> TRUE, since |-> clock, row |-> clock]
           /\ sent' = (sent \ {r}) \cup {[r EXCEPT !.to = "page", !.ok = TRUE, !.updated = clock]}
  <2>1. PICK q : q = [r EXCEPT !.to = "page", !.ok = TRUE, !.updated = clock]
    OBVIOUS
  <2>2. DOMAIN q = RequestFields /\ q.kind = r.kind /\ q.visit = r.visit /\ q.form = r.form /\ q.to = "page" /\ q.updated = clock
    BY <1>1, <2>1 DEF RequestFields
  <2>3. lock'.held /\ lock'.row = clock
    BY <1>3
  <2> QED
    BY <1>3, <2>1, <2>2, <2>3
<1>4. ASSUME NEW ok, r.kind # "tasks", sent' = Answered(r, ok), lock' \in {lock, NoLock},
             r.kind = "extend" => ok = FALSE
      PROVE  \E q : /\ sent' = (sent \ {r}) \cup {q}
                    /\ DOMAIN q = RequestFields /\ q.kind = r.kind /\ q.visit = r.visit /\ q.form = r.form /\ q.to = "page"
                    /\ q.updated = r.updated
                    /\ r.kind = "extend" => ~q.ok
  <2>1. PICK q : q = [r EXCEPT !.to = "page", !.ok = ok]
    OBVIOUS
  <2>2. DOMAIN q = RequestFields /\ q.kind = r.kind /\ q.visit = r.visit /\ q.form = r.form /\ q.to = "page" /\ q.updated = r.updated
    BY <1>1, <2>1 DEF RequestFields
  <2>3. q.ok = ok
    BY <1>1, <2>1 DEF RequestFields
  <2> QED
    BY <1>4, <2>1, <2>2, <2>3 DEF Answered
<1>5. CASE \E ok : /\ r.kind # "tasks" /\ sent' = Answered(r, ok) /\ lock' \in {lock, NoLock}
                   /\ r.kind = "extend" => ok = FALSE
  BY <1>4, <1>5
<1>6. Act(r) => \/ r.kind = "tasks" /\ UNCHANGED lock
                   /\ sent' = (sent \ {r}) \cup {[r EXCEPT !.to = "page", !.ok = lock.held, !.updated = lock.row]}
                \/ /\ r.kind = "extend" \/ r.kind = "relock"
                   /\ lock' = [held |-> TRUE, since |-> clock, row |-> clock]
                   /\ sent' = (sent \ {r}) \cup {[r EXCEPT !.to = "page", !.ok = TRUE, !.updated = clock]}
                \/ \E ok : /\ r.kind # "tasks" /\ sent' = Answered(r, ok) /\ lock' \in {lock, NoLock}
                           /\ r.kind = "extend" => ok = FALSE
  BY DEF Act, Buttons, Kinds
<1> QED
  BY <1>2, <1>3, <1>5, <1>6

LEMMA ServerKeeps == ASSUME EditInv, NEW r \in sent, ServerActs(r) PROVE EditInv'
<1>1. PICK q : /\ sent' = (sent \ {r}) \cup {q}
               /\ DOMAIN q = RequestFields /\ q.kind = r.kind /\ q.visit = r.visit /\ q.form = r.form /\ q.to = "page"
               /\ q.updated \in {r.updated, lock.row, clock}
               /\ r.kind = "tasks" => (q.ok <=> lock.held) /\ q.updated = lock.row
               /\ r.kind = "extend" /\ q.ok => lock'.held /\ q.updated = lock'.row
               /\ \/ lock' = lock
                  \/ lock' = NoLock
                  \/ lock' = [held |-> TRUE, since |-> clock, row |-> clock]
  BY ServedRequest DEF ServerActs
<1>2. /\ r.to = "server" /\ UNCHANGED <<clock, work, timers, dialogs, pending>>
      /\ clock \in Nat /\ lock.row \in Nat /\ lock.row <= clock /\ DOMAIN lock = {"held", "since", "row"}
      /\ GoodRequest(r)
  BY DEF ServerActs, EditInv, EditShape
<1>3. /\ DOMAIN lock' = {"held", "since", "row"} /\ lock'.row \in Nat /\ lock'.row <= clock
      /\ lock'.held => (lock' = lock /\ lock.held) \/ lock'.row = clock
  BY <1>1, <1>2 DEF NoLock
<1>4. EditShape'
  <2>1. GoodRequest(q)'
    BY <1>1, <1>2, <1>3 DEF GoodRequest
  <2>2. ASSUME NEW x \in sent PROVE GoodRequest(x)'
    BY <1>2 DEF GoodRequest, EditInv, EditShape
  <2> QED
    BY <1>1, <1>2, <1>3, <2>1, <2>2 DEF EditInv, EditShape
<1>5. OutcomePending' /\ OneOutcome'
  BY <1>1, <1>2 DEF EditInv, OutcomePending, OneOutcome, Mounted
<1>6. Latest'
  <2>1. ASSUME NEW x \in sent, x.kind = "extend", x.to = "page", x.ok, lock'.held PROVE x.updated <= lock'.row
    <3>1. x.updated <= clock /\ x.updated \in Nat
      BY DEF EditInv, EditShape, GoodRequest
    <3>2. lock' = lock /\ lock.held => x.updated <= lock.row
      BY <2>1 DEF EditInv, Latest
    <3> QED
      BY <1>2, <1>3, <2>1, <3>1, <3>2
  <2>2. q.kind = "extend" /\ q.ok => q.updated <= lock'.row
    BY <1>1, <1>3
  <2> QED
    BY <1>1, <2>1, <2>2 DEF Latest
<1>7. Watched'
  <2>1. ASSUME NEW x \in sent, WillTell(x) PROVE \E y \in sent' : WillTell(y)'
    <3>1. CASE x = r
      <4>1. q.kind = "tasks" /\ (q.ok => work.seen < q.updated) /\ Mounted(q)'
        BY <1>1, <1>2, <2>1, <3>1 DEF WillTell, Mounted
      <4> QED
        BY <1>1, <1>2, <4>1 DEF WillTell
    <3>2. CASE x # r
      <4>1. WillTell(x)'
        BY <1>2, <1>3, <2>1 DEF WillTell, Mounted
      <4> QED
        BY <1>1, <3>2, <4>1
    <3> QED
      BY <3>1, <3>2
  <2> QED
    BY <1>2, <2>1 DEF EditInv, Watched, At
<1> QED
  BY <1>4, <1>5, <1>6, <1>7 DEF EditInv

LEMMA TickKeeps == ASSUME EditInv, Tick PROVE EditInv'
<1>1. /\ clock' = clock + 1 /\ Due = {} /\ clock \in Nat
      /\ UNCHANGED <<lock, work, timers, dialogs, pending, sent>>
  BY DEF Tick, EditInv, EditShape
<1>2. EditShape'
  <2>1. ASSUME NEW x \in sent PROVE GoodRequest(x)'
    BY <1>1 DEF GoodRequest, EditInv, EditShape
  <2> QED
    BY <1>1, <2>1 DEF EditInv, EditShape
<1>3. OutcomePending' /\ OneOutcome' /\ Latest'
  BY <1>1 DEF EditInv, OutcomePending, OneOutcome, Mounted, Latest
<1>4. Watched'
  <2>1. ASSUME NEW x \in sent, WillTell(x) PROVE WillTell(x)'
    BY <1>1, <2>1 DEF WillTell, Mounted, EditInv, EditShape
  <2>2. work.seen \in Nat /\ Expiry \in Nat
    BY Constants DEF EditInv, EditShape
  <2> QED
    BY <1>1, <2>1, <2>2 DEF EditInv, Watched, At
<1> QED
  BY <1>2, <1>3, <1>4 DEF EditInv

LEMMA CommentKeeps == ASSUME EditInv, AddComment PROVE EditInv'
<1>1. /\ DOMAIN lock' = {"held", "since", "row"} /\ lock'.row = clock /\ lock'.held = lock.held
      /\ UNCHANGED <<clock, work, timers, dialogs, pending, sent>>
  BY DEF AddComment, EditInv, EditShape
<1>2. EditShape'
  BY <1>1 DEF EditInv, EditShape, GoodRequest
<1>3. OutcomePending' /\ OneOutcome'
  BY <1>1 DEF EditInv, OutcomePending, OneOutcome, Mounted
<1>4. Latest'
  BY <1>1 DEF EditInv, EditShape, GoodRequest, Latest
<1>5. ASSUME NEW x \in sent, WillTell(x) PROVE WillTell(x)'
  BY <1>1, <1>5 DEF WillTell, Mounted
<1>6. Watched'
  BY <1>1, <1>5 DEF EditInv, Watched, At
<1> QED
  BY <1>2, <1>3, <1>4, <1>6 DEF EditInv

LEMMA AutoUnlockKeeps == ASSUME EditInv, AutoUnlock PROVE EditInv'
<1>1. lock' = NoLock /\ ~lock'.held /\ lock'.row = 0 /\ UNCHANGED <<clock, work, timers, dialogs, pending, sent>>
  BY DEF AutoUnlock, NoLock
<1>2. EditShape'
  BY <1>1 DEF EditInv, EditShape, GoodRequest, NoLock
<1>3. OutcomePending' /\ OneOutcome' /\ Latest'
  BY <1>1 DEF EditInv, OutcomePending, OneOutcome, Mounted, Latest
<1>4. Watched'
  <2>1. ASSUME NEW x \in sent, WillTell(x) PROVE WillTell(x)'
    BY <1>1, <2>1 DEF WillTell, Mounted
  <2> QED
    BY <1>1, <2>1 DEF EditInv, Watched, At
<1> QED
  BY <1>2, <1>3, <1>4 DEF EditInv

\* The timers go off at their time, so that the notice is not lost with its timer.
LEMMA TimersKeep == ASSUME EditInv, WarnAboutToExpire \/ TellExpired PROVE EditInv'
<1>1. /\ UNCHANGED <<clock, lock, work, pending, sent>> /\ DOMAIN timers' = {"about", "expired"}
      /\ \/ timers'.expired = timers.expired
         \/ timers'.expired = Off /\ timers.expired <= clock
  BY DEF WarnAboutToExpire, TellExpired, Due, EditInv, EditShape
<1>2. EditShape'
  BY <1>1, Constants DEF EditInv, EditShape, GoodRequest
<1>3. OutcomePending' /\ OneOutcome' /\ Latest'
  BY <1>1 DEF EditInv, OutcomePending, OneOutcome, Mounted, Latest
<1>4. Watched'
  <2>1. ASSUME NEW x \in sent, WillTell(x) PROVE WillTell(x)'
    BY <1>1, <2>1 DEF WillTell, Mounted
  <2>2. work.seen \in Nat /\ Expiry \in Nat /\ clock \in Nat
    BY Constants DEF EditInv, EditShape
  <2> QED
    BY <1>1, <2>1, <2>2 DEF EditInv, Watched, At
<1> QED
  BY <1>2, <1>3, <1>4 DEF EditInv

----------------------------------------------------------------------------
(* Answers.                                                                *)

\* Who leaves the page, or finds nothing locked, has neither requests nor timers of it.
LEMMA GoneKeeps ==
  ASSUME EditInv, NEW where \in {"away", "empty"}, Gone(where), UNCHANGED <<clock, lock>>, sent' \subseteq sent
  PROVE  EditInv'
<1>1. work' = [work EXCEPT !.where = where, !.seen = 0, !.edits = FALSE, !.crossed = FALSE] /\ timers' = NoTimers
  BY DEF Gone
<1>2. /\ DOMAIN work = WorkFields /\ DOMAIN work' = WorkFields
      /\ work'.where = where /\ work'.seen = 0 /\ work'.visit = work.visit
      /\ work'.form = work.form
  BY <1>1 DEF EditInv, EditShape, WorkFields
<1>3. DOMAIN timers' = {"about", "expired"} /\ timers'.expired = Off
  BY <1>1 DEF NoTimers
<1>4. EditShape'
  <2>1. ASSUME NEW x \in sent' PROVE GoodRequest(x)'
    BY <1>2 DEF EditInv, EditShape, GoodRequest
  <2> QED
    BY <1>2, <1>3, <2>1, Constants DEF EditInv, EditShape
<1>5. \A x : ~Mounted(x)'
  BY <1>2 DEF Mounted
<1>6. OutcomePending' /\ OneOutcome' /\ Latest' /\ Watched'
  BY <1>2, <1>5 DEF EditInv, OutcomePending, OneOutcome, Latest, Watched
<1> QED
  BY <1>4, <1>6 DEF EditInv

LEMMA TasksAnswered ==
  ASSUME EditInv, NEW r \in sent, NEW ok \in BOOLEAN, r.kind = "tasks", ok => r.to = "page", Answer(r, ok)
  PROVE  EditInv'
<1>1. TasksAnswer(r, ok) /\ sent' = sent \ {r} /\ UNCHANGED <<clock, lock>>
  BY DEF Answer, Buttons, FollowUp
<1>2. GoodRequest(r) /\ r.updated \in Nat /\ r.updated <= clock
  BY DEF EditInv, EditShape, GoodRequest
<1>3. CASE Gone("away") \/ Gone(NothingLocked)
  BY <1>1, <1>3, GoneKeeps DEF NothingLocked
\* Nothing changes but that the answer is no longer awaited; the one that will tell is another.
<1>4. CASE UNCHANGED <<work, timers, pending>> /\ ~WillTell(r)
  <2>1. EditShape' /\ OutcomePending' /\ OneOutcome' /\ Latest'
    BY <1>1, <1>4 DEF EditInv, EditShape, GoodRequest, OutcomePending, OneOutcome, Mounted, Latest
  <2>2. ASSUME NEW x \in sent, WillTell(x) PROVE x \in sent' /\ WillTell(x)'
    BY <1>1, <1>4, <2>2 DEF WillTell, Mounted
  <2>3. Watched'
    BY <1>1, <1>4, <2>2 DEF EditInv, Watched, At
  <2> QED
    BY <2>1, <2>3 DEF EditInv
<1>5. CASE /\ work' = [work EXCEPT !.where = "work", !.seen = r.updated, !.crossed = FALSE]
           /\ Mounted(r) /\ timers' = Armed(r.updated) /\ UNCHANGED pending
  <2>1. /\ DOMAIN work' = WorkFields /\ work'.where = "work" /\ work'.seen = r.updated
        /\ work'.visit = work.visit /\ work'.action = work.action /\ work'.form = work.form
    BY <1>5 DEF EditInv, EditShape, WorkFields
  <2>2. DOMAIN timers' = {"about", "expired"} /\ timers'.expired = At(r.updated + Expiry)
    BY <1>5 DEF Armed
  <2>3. At(r.updated + Expiry) \in Nat
    BY <1>2, Constants DEF At, EditInv, EditShape
  <2>4. EditShape'
    <3>1. ASSUME NEW x \in sent PROVE GoodRequest(x)'
      BY <1>1, <2>1 DEF EditInv, EditShape, GoodRequest
    <3> QED
      BY <1>1, <1>2, <2>1, <2>2, <2>3, <3>1 DEF EditInv, EditShape
  <2>5. \A x : Mounted(x)' <=> Mounted(x)
    BY <1>5, <2>1 DEF Mounted
  <2>6. OutcomePending' /\ OneOutcome' /\ Latest'
    BY <1>1, <1>5, <2>1, <2>5 DEF EditInv, OutcomePending, OneOutcome, Latest
  <2>7. Watched'
    BY <1>1, <2>1, <2>2 DEF Watched, At
  <2> QED
    BY <2>4, <2>6, <2>7 DEF EditInv
<1>6. CASE (~ok /\ Gone("away")) \/ (ok /\ Mounted(r) /\ ~r.ok /\ Gone(NothingLocked))
  BY <1>3, <1>6
<1>7. CASE ok /\ ~Mounted(r) /\ UNCHANGED <<work, timers, dialogs, pending>>
  BY <1>4, <1>7 DEF WillTell
<1>8. CASE /\ ok /\ Mounted(r) /\ r.ok /\ UNCHANGED <<dialogs, pending>>
           /\ IF work.where = "work" /\ work.seen = r.updated THEN UNCHANGED <<work, timers>>
              ELSE /\ work' = [work EXCEPT !.where = "work", !.seen = r.updated, !.crossed = FALSE]
                   /\ timers' = Armed(r.updated)
  <2>1. CASE work.where = "work" /\ work.seen = r.updated
    <3>1. ~WillTell(r)
      BY <1>2, <1>8, <2>1 DEF WillTell
    <3> QED
      BY <1>4, <1>8, <2>1, <3>1
  <2>2. CASE ~(work.where = "work" /\ work.seen = r.updated)
    BY <1>5, <1>8, <2>2
  <2> QED
    BY <2>1, <2>2
<1> QED
  BY <1>1, <1>6, <1>7, <1>8 DEF TasksAnswer

LEMMA ButtonAnswered ==
  ASSUME EditInv, NEW r \in sent, NEW ok \in BOOLEAN, r.kind \in Buttons, Answer(r, ok)
  PROVE  EditInv'
<1>1. ButtonAnswer(r, ok) /\ sent' = sent \ {r} /\ UNCHANGED <<clock, lock>>
  BY DEF Answer, Buttons, FollowUp
<1>2. CASE Gone("away")
  BY <1>1, <1>2, GoneKeeps
<1>3. CASE /\ pending' = IF Mounted(r) /\ r.form = work.form THEN pending \ {r.kind} ELSE pending
           /\ UNCHANGED <<work, timers>>
  <2>1. EditShape' /\ OneOutcome' /\ Latest'
    BY <1>1, <1>3 DEF EditInv, EditShape, GoodRequest, OneOutcome, Mounted, Latest
  <2>2. OutcomePending'
    BY <1>1, <1>3 DEF EditInv, OutcomePending, OneOutcome, Mounted
  <2>3. ASSUME NEW x \in sent, WillTell(x) PROVE x \in sent' /\ WillTell(x)'
    BY <1>1, <1>3, <2>3 DEF WillTell, Mounted, Buttons
  <2>4. Watched'
    BY <1>1, <1>3, <2>3 DEF EditInv, Watched, At
  <2> QED
    BY <2>1, <2>2, <2>4 DEF EditInv
<1> QED
  BY <1>1, <1>2, <1>3 DEF ButtonAnswer

\* The tasks asked for after a renewal.
LEMMA TasksRequest ==
  ASSUME EditInv, NEW visit \in Nat, visit <= work.visit, NEW kind \in Kinds,
         NEW f \in Nat, f <= work.form
  PROVE  GoodRequest(Request(kind, visit, f))
  BY DEF GoodRequest, Request, RequestFields, EditInv, EditShape

LEMMA RenewAnswered ==
  ASSUME EditInv, NEW r \in sent, NEW ok \in BOOLEAN, ok => r.to = "page" /\ r.ok,
         NEW dialog, r.kind \in {"extend", "relock"}, RenewAnswer(r, ok, dialog),
         sent' = (sent \ {r}) \cup FollowUp(r, ok), UNCHANGED <<clock, lock>>
  PROVE  EditInv'
<1>1. PICK q : q = Request("tasks", r.visit, 0)
  OBVIOUS
<1>2. /\ q.kind = "tasks" /\ q.visit = r.visit /\ q.to = "server"
      /\ sent' \subseteq (sent \ {r}) \cup {q} /\ sent \ {r} \subseteq sent'
      /\ ok => q \in sent'
  BY <1>1 DEF FollowUp, Request
<1>3. GoodRequest(r) /\ GoodRequest(q)
  <2>1. GoodRequest(r)
    BY DEF EditInv, EditShape
  <2> QED
    BY <1>1, <2>1, TasksRequest DEF GoodRequest, Kinds, EditInv, EditShape
<1>4. CASE UNCHANGED <<timers, work, pending>>
  <2>1. EditShape'
    <3>1. ASSUME NEW x \in sent \cup {q} PROVE GoodRequest(x)'
      BY <1>3, <1>4 DEF EditInv, EditShape, GoodRequest
    <3> QED
      BY <1>2, <1>4, <3>1 DEF EditInv, EditShape
  <2>2. OutcomePending' /\ OneOutcome' /\ Latest'
    BY <1>2, <1>4 DEF EditInv, OutcomePending, OneOutcome, Mounted, Latest, Buttons
  <2>3. ASSUME NEW x \in sent, WillTell(x) PROVE x \in sent' /\ WillTell(x)'
    BY <1>2, <1>4, <2>3 DEF WillTell, Mounted
  <2>4. Watched'
    BY <1>4, <2>3 DEF EditInv, Watched, At
  <2> QED
    BY <2>1, <2>2, <2>4 DEF EditInv
<1>5. CASE /\ ok /\ Mounted(r) /\ r.kind = "extend" /\ UNCHANGED pending
           /\ timers' = [timers EXCEPT !.expired = Off]
           /\ work' = [work EXCEPT !.crossed = @ \/ r.updated <= work.seen]
  <2>1. /\ DOMAIN work' = WorkFields /\ work'.where = work.where /\ work'.seen = work.seen
        /\ work'.visit = work.visit /\ work'.action = work.action /\ work'.form = work.form
    BY <1>5 DEF EditInv, EditShape, WorkFields
  <2>2. r.updated <= work.seen => work'.crossed
    BY <1>5 DEF EditInv, EditShape, WorkFields
  <2>3. DOMAIN timers' = {"about", "expired"} /\ timers'.expired = Off
    BY <1>5 DEF EditInv, EditShape
  <2>4. EditShape'
    <3>1. ASSUME NEW x \in sent \cup {q} PROVE GoodRequest(x)'
      BY <1>3, <2>1 DEF EditInv, EditShape, GoodRequest
    <3> QED
      BY <1>2, <2>1, <2>3, <3>1, Constants DEF EditInv, EditShape
  <2>5. \A x : Mounted(x)' <=> Mounted(x)
    BY <2>1 DEF Mounted
  <2>6. OutcomePending' /\ OneOutcome' /\ Latest'
    BY <1>2, <1>5, <2>1, <2>5 DEF EditInv, OutcomePending, OneOutcome, Latest, Buttons
  <2>7. Watched'
    <3>1. SUFFICES ASSUME ~(r.updated <= work.seen) PROVE WillTell(q)'
      BY <1>2, <1>5, <2>2, <3>1 DEF Watched
    <3>2. {clock, lock.row, work.seen, r.updated} \subseteq Nat /\ r.updated <= clock
      BY <1>3 DEF EditInv, EditShape, GoodRequest
    <3>3. lock.held => r.updated <= lock.row
      BY <1>5 DEF EditInv, Latest
    <3>4. Mounted(q)
      BY <1>2, <1>5 DEF Mounted
    <3> QED
      BY <1>2, <2>1, <2>5, <3>1, <3>2, <3>3, <3>4 DEF WillTell
  <2> QED
    BY <2>4, <2>6, <2>7 DEF EditInv
<1> QED
  BY <1>4, <1>5 DEF RenewAnswer

LEMMA AnswerKeeps ==
  ASSUME EditInv, NEW r \in sent, AnswerArrives(r) \/ AnswerLost(r) PROVE EditInv'
<1>1. ASSUME NEW ok \in BOOLEAN, Answer(r, ok), ok => r.to = "page", r.kind # "tasks" /\ ok => r.ok
      PROVE  EditInv'
  <2>1. CASE r.kind = "tasks"
    BY <1>1, <2>1, TasksAnswered
  <2>2. CASE r.kind \in Buttons
    BY <1>1, <2>2, ButtonAnswered
  <2>3. CASE r.kind \in {"extend", "relock"}
    <3>1. PICK dialog : RenewAnswer(r, ok, dialog)
      BY <1>1, <2>3 DEF Answer, Buttons
    <3> QED
      BY <1>1, <2>3, <3>1, RenewAnswered DEF Answer
  <2> QED
    BY <1>1, <2>1, <2>2, <2>3 DEF Answer
<1>2. ASSUME AnswerArrives(r) PROVE EditInv'
  <2>1. CASE r.ok \/ r.kind = "tasks"
    <3>1. Answer(r, TRUE)
      BY <1>2, <2>1 DEF AnswerArrives
    <3> QED
      BY <1>1, <1>2, <2>1, <3>1 DEF AnswerArrives
  <2>2. CASE ~(r.ok \/ r.kind = "tasks")
    <3>1. Answer(r, FALSE)
      BY <1>2, <2>2 DEF AnswerArrives
    <3> QED
      BY <1>1, <3>1
  <2> QED
    BY <2>1, <2>2
<1>3. AnswerLost(r) => EditInv'
  BY <1>1 DEF AnswerLost
<1> QED
  BY <1>2, <1>3

----------------------------------------------------------------------------
(* The user.                                                               *)

LEMMA OpenPageKeeps == ASSUME EditInv, NEW action, OpenPage(action) PROVE EditInv'
<1>1. /\ work.where = "away" /\ UNCHANGED <<timers, pending, clock, lock>>
      /\ work' = [work EXCEPT !.where = "loading", !.action = action, !.visit = @ + 1]
  BY DEF OpenPage, Idle
<1>2. PICK q : q = Request("tasks", work.visit + 1, 0)
  OBVIOUS
<1>3. sent' = sent \cup {q} /\ q.kind = "tasks"
  BY <1>2 DEF OpenPage, Request
<1>4. /\ DOMAIN work' = WorkFields /\ work'.where = "loading" /\ work'.visit = work.visit + 1
      /\ work'.seen = work.seen /\ work'.form = work.form
  BY <1>1 DEF EditInv, EditShape, WorkFields
<1>5. EditShape'
  <2>1. ASSUME NEW x \in sent PROVE GoodRequest(x)'
    BY <1>1, <1>4 DEF EditInv, EditShape, GoodRequest
  <2>2. GoodRequest(q)'
    BY <1>1, <1>2, <1>4 DEF Request, RequestFields, Kinds, EditInv, EditShape, GoodRequest
  <2> QED
    BY <1>1, <1>3, <1>4, <2>1, <2>2 DEF EditInv, EditShape
<1>6. \A x \in sent : ~Mounted(x)'
  BY <1>4 DEF Mounted, EditInv, EditShape, GoodRequest
<1>7. OutcomePending' /\ OneOutcome'
  BY <1>3, <1>6 DEF OutcomePending, OneOutcome, Buttons
<1>8. Latest' /\ Watched'
  BY <1>1, <1>3, <1>4 DEF Latest, Watched, EditInv
<1> QED
  BY <1>5, <1>7, <1>8 DEF EditInv

LEMMA EditMapKeeps == ASSUME EditInv, EditMap PROVE EditInv'
<1>1. work' = [work EXCEPT !.edits = ~@] /\ UNCHANGED <<timers, pending, sent, clock, lock>>
  BY DEF EditMap, Idle
<1>2. /\ DOMAIN work' = WorkFields /\ work'.where = work.where /\ work'.seen = work.seen
      /\ work'.visit = work.visit /\ work'.action = work.action /\ work'.crossed = work.crossed
      /\ work'.form = work.form
  BY <1>1 DEF EditInv, EditShape, WorkFields
<1>3. EditShape'
  BY <1>1, <1>2 DEF EditInv, EditShape, GoodRequest
<1>4. OutcomePending' /\ OneOutcome' /\ Latest'
  BY <1>1, <1>2 DEF EditInv, OutcomePending, OneOutcome, Mounted, Latest
<1>5. ASSUME NEW x \in sent, WillTell(x) PROVE WillTell(x)'
  BY <1>1, <1>2, <1>5 DEF WillTell, Mounted
<1>6. Watched'
  BY <1>1, <1>2, <1>5 DEF EditInv, Watched, At
<1> QED
  BY <1>3, <1>4, <1>6 DEF EditInv

\* A form mounted anew has nothing under way yet.
LEMMA SectionKeeps == ASSUME EditInv, setActiveSection PROVE EditInv'
<1>1. work' = [work EXCEPT !.form = @ + 1] /\ UNCHANGED <<timers, sent, clock, lock>>
  BY DEF setActiveSection, Idle
<1>2. /\ DOMAIN work' = WorkFields /\ work'.where = work.where /\ work'.seen = work.seen
      /\ work'.visit = work.visit /\ work'.action = work.action /\ work'.crossed = work.crossed
      /\ work'.form = work.form + 1
  BY <1>1 DEF EditInv, EditShape, WorkFields
<1>3. EditShape'
  <2>1. ASSUME NEW x \in sent PROVE GoodRequest(x)'
    BY <1>1, <1>2 DEF EditInv, EditShape, GoodRequest
  <2> QED
    BY <1>1, <1>2, <2>1 DEF EditInv, EditShape
<1>4. \A x : Mounted(x)' <=> Mounted(x)
  BY <1>2 DEF Mounted
<1>5. \A x \in sent : Mounted(x) => x.form # work'.form
  BY <1>2 DEF Mounted, EditInv, EditShape, GoodRequest
<1>6. OutcomePending' /\ OneOutcome' /\ Latest'
  BY <1>1, <1>2, <1>4, <1>5 DEF EditInv, OutcomePending, OneOutcome, Latest
<1>7. ASSUME NEW x \in sent, WillTell(x) PROVE WillTell(x)'
  BY <1>1, <1>2, <1>4, <1>7 DEF WillTell
<1>8. Watched'
  BY <1>1, <1>2, <1>7 DEF EditInv, Watched, At
<1> QED
  BY <1>3, <1>6, <1>8 DEF EditInv

\* A request that is sent, and is not an outcome of a validation unless no button waits for another.
LEMMA SendKeeps ==
  ASSUME EditInv, NEW kind \in Kinds, NEW f \in Nat, f <= work.form,
         sent' = sent \cup {Request(kind, work.visit, f)}, kind \in Buttons => f = work.form,
         kind \in Buttons => kind \in pending' /\ pending \subseteq pending',
         kind \in Buttons /\ work.action = "VALIDATION" => pending = {},
         kind \notin Buttons => UNCHANGED pending, UNCHANGED <<work, timers, clock, lock>>
  PROVE  EditInv'
<1>1. PICK q : q = Request(kind, work.visit, f)
  OBVIOUS
<1>2. q.kind = kind /\ q.to = "server" /\ q.form = f /\ sent' = sent \cup {q} /\ GoodRequest(q)
  BY <1>1, TasksRequest DEF Request, EditInv, EditShape
<1>3. EditShape' /\ Latest'
  BY <1>2 DEF EditInv, EditShape, GoodRequest, Latest
<1>4. OutcomePending' /\ OneOutcome'
  BY <1>2 DEF EditInv, OutcomePending, OneOutcome, Mounted
<1>5. ASSUME NEW x \in sent, WillTell(x) PROVE x \in sent' /\ WillTell(x)'
  BY <1>2, <1>5 DEF WillTell, Mounted
<1>6. Watched'
  BY <1>5 DEF EditInv, Watched, At
<1> QED
  BY <1>3, <1>4, <1>6 DEF EditInv

LEMMA ButtonKeeps ==
  ASSUME EditInv, NEW button \in Buttons, Run(button), work.action = "VALIDATION" => pending = {}
  PROVE  EditInv'
<1>1. UNCHANGED <<work, timers, clock, lock>>
  BY DEF Run, Idle
<1>2. CASE Send(Request(button, work.visit, work.form)) /\ pending' = pending \cup {button}
  BY <1>1, <1>2, SendKeeps DEF Send, Kinds, EditInv, EditShape
<1>3. CASE pending' = pending \ {button} /\ UNCHANGED sent
  <2>1. EditShape' /\ OutcomePending' /\ OneOutcome' /\ Latest'
    BY <1>1, <1>3 DEF EditInv, EditShape, GoodRequest, OutcomePending, OneOutcome, Mounted, Latest
  <2>2. ASSUME NEW x \in sent, WillTell(x) PROVE x \in sent' /\ WillTell(x)'
    BY <1>1, <1>3, <2>2 DEF WillTell, Mounted
  <2>3. Watched'
    BY <1>1, <2>2 DEF EditInv, Watched, At
  <2> QED
    BY <2>1, <2>3 DEF EditInv
<1> QED
  BY <1>2, <1>3 DEF Run

LEMMA PageKeeps == ASSUME EditInv, TaskMapAction PROVE EditInv'
<1>1. CASE WarnAboutToExpire \/ TellExpired
  BY <1>1, TimersKeep
<1>2. CASE CompletionTabForMapping \/ CompletionTabForValidation
  <2>1. PICK button \in Buttons : Run(button) /\ (work.action = "VALIDATION" => pending = {})
    BY <1>2 DEF CompletionTabForMapping, CompletionTabForValidation, submitTask, splitTask, stopTask,
                StopEnabled, Buttons
  <2> QED
    BY <2>1, ButtonKeeps
<1>3. CASE SessionAboutToExpire \/ SessionExpired
  <2>1. ASSUME NEW dialog, NEW kind \in {"extend", "relock"}, Renew(dialog, kind) PROVE EditInv'
    BY <2>1, SendKeeps DEF Renew, Send, Idle, Kinds, Buttons, EditInv, EditShape
  <2>2. ASSUME NEW dialog, CloseDialog(dialog) PROVE EditInv'
    <3>1. UNCHANGED <<work, timers, pending, sent, clock, lock>>
      BY <2>2 DEF CloseDialog, Idle
    <3> QED
      BY <3>1 DEF EditInv, EditShape, GoodRequest, OutcomePending, OneOutcome, Mounted, Latest, Watched, WillTell, At
  <2> QED
    BY <1>3, <2>1, <2>2 DEF SessionAboutToExpire, SessionExpired
<1> QED
  BY <1>1, <1>2, <1>3, SectionKeeps DEF TaskMapAction

LEMMA EditKeeps == ASSUME EditInv, [EditNext]_editVars PROVE EditInv'
<1>1. ASSUME NEW r \in sent, ServerActs(r) \/ AnswerArrives(r) \/ AnswerLost(r) PROVE EditInv'
  BY <1>1, ServerKeeps, AnswerKeeps
<1>2. CASE LeavePage
  <2>1. Gone("away") /\ UNCHANGED <<sent, clock, lock>>
    BY <1>2 DEF LeavePage, Idle
  <2> QED
    BY <2>1, GoneKeeps
<1>3. CASE UNCHANGED editVars
  BY <1>3 DEF editVars, EditInv, EditShape, GoodRequest, OutcomePending, OneOutcome, Mounted, Latest, Watched,
              WillTell, At
<1> QED
  BY <1>1, <1>2, <1>3, TickKeeps, CommentKeeps, AutoUnlockKeeps, EditMapKeeps, PageKeeps, OpenPageKeeps DEF EditNext

LEMMA EditInvHolds == EditSpec => []EditInv
  BY EditStarts, EditKeeps, PTL DEF EditSpec

----------------------------------------------------------------------------
\* Two outcomes of a validation are never under way from one form, whatever fails, is
\* late or is pressed, and however often the form is left (CompletionTabForValidation in
\* actionSidebars.js).
THEOREM OutcomesExclude == EditSpec => []OneOutcome
<1>1. EditInv => OneOutcome
  BY DEF EditInv
<1> QED
  BY EditInvHolds, <1>1, PTL

\* The page keeps the timer that tells of the expiry, or is about to learn another
\* time, for any warning time, any number of extensions and any delays (action.js,
\* extendSession.js).
THEOREM ExpiryIsWatched == EditSpec => []ExpiryWatched
<1>1. EditInv => ExpiryWatched
  BY DEF EditInv, Watched, ExpiryWatched, WillTell
<1> QED
  BY EditInvHolds, <1>1, PTL

----------------------------------------------------------------------------
(***************************************************************************)
(* The form with the verdicts: what is submitted was chosen for every task, *)
(* and bad imagery by those who may.                                       *)
(***************************************************************************)

\* The fields of the form, and what it takes for the tasks to be counted right: tasks are only lost, and the
\* statuses chosen are of the tasks that are left, unless some were lost.
FormFields == {"action", "opened", "tasks", "history", "level", "status", "comments", "chosen", "early", "alert"}
Choices == {"none", "MAPPED", "READY", "BADIMAGERY"}
FormShape ==
  /\ DOMAIN form = FormFields
  /\ form.opened \subseteq Tasks /\ form.tasks \subseteq form.opened
  /\ form.chosen \in Choices
Counted == /\ form.tasks = form.opened => DOMAIN form.status \subseteq form.tasks
           /\ \A t \in DOMAIN form.status : form.status[t] \in Verdict
\* Nothing is chosen before the form is open; bad imagery was chosen by who may, or before the history was known.
Informed == form.chosen # "none" /\ form.history = {} => form.early
AllowedChoice == form.chosen = "BADIMAGERY" =>
                   form.level = "ADVANCED" /\ (useDisableBadImagery(form.history) => form.early)
Untouched == form.action = "none" => form.status = <<>> /\ form.chosen = "none" /\ form.history = {}
FormInv == FormShape /\ Counted /\ Informed /\ AllowedChoice /\ Untouched
VerdictsInv == FormInv /\ VerdictsSound

----------------------------------------------------------------------------
\* A step of the form that submits nothing keeps what was submitted.
LEMMA FormStep == ASSUME VerdictsInv, FormInv', UNCHANGED submitted PROVE VerdictsInv'
  BY DEF VerdictsInv, VerdictsSound, VerdictsComplete, BadImageryOnce

LEMMA VerdictsStart == ASSUME VerdictsInit PROVE VerdictsInv
  BY DEF VerdictsInit, VerdictsInv, FormInv, FormShape, FormFields, Choices, Counted, Informed, AllowedChoice,
         Untouched, VerdictsSound, VerdictsComplete, BadImageryOnce

LEMMA OpenKeeps ==
  ASSUME VerdictsInv, NEW action \in {"MAPPING", "VALIDATION"}, NEW ts \in SUBSET Tasks,
         NEW level, OpenForm(action, ts, level)
  PROVE  VerdictsInv'
<1>1. /\ form.status = <<>> /\ form.chosen = "none" /\ form.history = {}
  BY DEF VerdictsInv, FormInv, Untouched, OpenForm
<1>2. /\ DOMAIN form' = FormFields /\ form'.action = action /\ form'.opened = ts /\ form'.tasks = ts
      /\ form'.status = form.status /\ form'.chosen = form.chosen
  BY DEF VerdictsInv, FormInv, FormShape, FormFields, OpenForm
<1>3. FormInv'
  BY <1>1, <1>2 DEF FormInv, FormShape, Choices, Counted, Informed, AllowedChoice, Untouched
<1> QED
  BY <1>3, FormStep DEF OpenForm

LEMMA HistoryKeeps ==
  ASSUME VerdictsInv, NEW history, HistoryArrives(history) PROVE VerdictsInv'
<1>1. /\ DOMAIN form' = FormFields /\ form'.action = form.action /\ form'.opened = form.opened
      /\ form'.tasks = form.tasks /\ form'.level = form.level /\ form'.early = form.early
      /\ form'.status = form.status /\ form'.chosen = form.chosen
  BY DEF VerdictsInv, FormInv, FormShape, FormFields, HistoryArrives
<1>2. form.history = {} /\ form.action # "none"
  BY DEF HistoryArrives
<1>3. FormInv'
  BY <1>1, <1>2 DEF VerdictsInv, FormInv, FormShape, Counted, Informed, AllowedChoice, Untouched, Choices
<1> QED
  BY <1>3, FormStep DEF HistoryArrives

LEMMA TasksKeeps ==
  ASSUME VerdictsInv, NEW ts, TasksArrive(ts) PROVE VerdictsInv'
<1>1. /\ DOMAIN form' = FormFields /\ form'.action = form.action /\ form'.opened = form.opened
      /\ form'.tasks = ts /\ form'.level = form.level /\ form'.early = form.early
      /\ form'.status = form.status /\ form'.chosen = form.chosen /\ form'.history = form.history
  BY DEF VerdictsInv, FormInv, FormShape, FormFields, TasksArrive
<1>2. ts \subseteq form.tasks /\ form.action # "none"
  BY DEF TasksArrive
<1>3. Counted'
  BY <1>1, <1>2 DEF VerdictsInv, FormInv, FormShape, Counted
<1>4. FormInv'
  BY <1>1, <1>2, <1>3 DEF VerdictsInv, FormInv, FormShape, Informed, AllowedChoice, Untouched
<1> QED
  BY <1>4, FormStep DEF TasksArrive

\* Reading and writing comments, and the advice, touch nothing of the outcome.
LEMMA CommentsKeep ==
  ASSUME VerdictsInv, ReadComments \/ (\E t \in Tasks : updateComment(t) \/ (\E same \in BOOLEAN : copyCommentToTasks(t, same)))
  PROVE  VerdictsInv'
<1>1. /\ DOMAIN form' = FormFields /\ form'.action = form.action /\ form'.opened = form.opened
      /\ form'.tasks = form.tasks /\ form'.level = form.level /\ form'.early = form.early
      /\ form'.status = form.status /\ form'.chosen = form.chosen /\ form'.history = form.history
      /\ UNCHANGED submitted
  BY DEF VerdictsInv, FormInv, FormShape, FormFields, ReadComments, updateComment, copyCommentToTasks
<1>2. FormInv'
  BY <1>1 DEF VerdictsInv, FormInv, FormShape, Counted, Informed, AllowedChoice, Untouched
<1> QED
  BY <1>1, <1>2, FormStep

LEMMA ChoiceKeeps ==
  ASSUME VerdictsInv, NEW s \in {"MAPPED", "READY", "BADIMAGERY"}, setSelectedStatus(s) PROVE VerdictsInv'
<1>1. /\ DOMAIN form' = FormFields /\ form'.action = form.action /\ form'.opened = form.opened
      /\ form'.tasks = form.tasks /\ form'.level = form.level /\ form'.early = (form.history = {})
      /\ form'.status = form.status /\ form'.chosen = s /\ form'.history = form.history
  BY DEF VerdictsInv, FormInv, FormShape, FormFields, setSelectedStatus
<1>2. form.action # "none"
  BY DEF setSelectedStatus
<1>3. Informed'
  BY <1>1 DEF Informed
<1>4. s = "BADIMAGERY" => form.level = "ADVANCED" /\ ~useDisableBadImagery(form.history)
  BY DEF setSelectedStatus, disableBadImagery
<1>5. AllowedChoice'
  <2> SUFFICES ASSUME s = "BADIMAGERY"
               PROVE  form'.level = "ADVANCED" /\ ~useDisableBadImagery(form'.history)
    BY <1>1 DEF AllowedChoice
  <2> QED
    BY <1>1, <1>4
<1>6. FormInv'
  BY <1>1, <1>2, <1>3, <1>5 DEF VerdictsInv, FormInv, FormShape, Counted, Untouched, Choices
<1> QED
  BY <1>6, FormStep DEF setSelectedStatus

\* A verdict on one task, or on all.
LEMMA StatusKeeps ==
  ASSUME VerdictsInv, NEW status, form.action # "none",
         form.tasks = form.opened => DOMAIN status \subseteq form.tasks,
         \A t \in DOMAIN status : status[t] \in Verdict,
         form' = [form EXCEPT !.status = status], UNCHANGED submitted
  PROVE  VerdictsInv'
<1>1. /\ DOMAIN form' = FormFields /\ form'.action = form.action /\ form'.opened = form.opened
      /\ form'.tasks = form.tasks /\ form'.level = form.level /\ form'.early = form.early
      /\ form'.status = status /\ form'.chosen = form.chosen /\ form'.history = form.history
  BY DEF VerdictsInv, FormInv, FormShape, FormFields
<1>2. Counted'
  BY <1>1 DEF Counted
<1>3. FormInv'
  BY <1>1, <1>2 DEF VerdictsInv, FormInv, FormShape, Informed, AllowedChoice, Untouched
<1> QED
  BY <1>3, FormStep

LEMMA UpdateKeeps ==
  ASSUME VerdictsInv, NEW t \in Tasks, NEW s \in Verdict, updateStatus(t, s) PROVE VerdictsInv'
<1> DEFINE status == WithStatus({t}, s)
<1>1. DOMAIN status = DOMAIN form.status \cup {t} /\ \A u \in DOMAIN status : status[u] \in Verdict
  BY DEF WithStatus, VerdictsInv, FormInv, Counted
<1>2. form.tasks = form.opened => DOMAIN status \subseteq form.tasks
  BY <1>1 DEF VerdictsInv, FormInv, Counted, updateStatus
<1>3. form.action # "none" /\ form' = [form EXCEPT !.status = status] /\ UNCHANGED submitted
  BY DEF updateStatus
<1> QED
  BY <1>1, <1>2, <1>3, StatusKeeps

LEMMA SetAllKeeps == ASSUME VerdictsInv, NEW s \in Verdict, SetAll(s) PROVE VerdictsInv'
<1> DEFINE status == [t \in form.tasks |-> s]
<1>1. form.action # "none" /\ form' = [form EXCEPT !.status = status] /\ UNCHANGED submitted
  BY DEF SetAll
<1>2. DOMAIN status = form.tasks /\ \A t \in DOMAIN status : status[t] \in Verdict
  OBVIOUS
<1> HIDE DEF status
<1> QED
  BY <1>1, <1>2, StatusKeeps

----------------------------------------------------------------------------
\* As many verdicts as tasks, and no lock lost: every task has its verdict.
LEMMA AllVerified ==
  ASSUME VerdictsInv, areAllTasksVerified, form.tasks = form.opened, NEW t \in form.tasks
  PROVE  StatusOf(t) \in Verdict
<1>1. DOMAIN form.status \subseteq form.tasks /\ form.tasks \subseteq Tasks
  BY DEF VerdictsInv, FormInv, FormShape, Counted
<1>2. IsFiniteSet(form.tasks)
  BY <1>1, FS_Subset, VerdictsAssumption
<1>3. DOMAIN form.status = form.tasks
  BY <1>1, <1>2, FS_Subset DEF areAllTasksVerified
<1> QED
  BY <1>3 DEF StatusOf, VerdictsInv, FormInv, Counted

\* What is submitted is sound when the form is, and its verdicts are those it shows.
LEMMA SubmitKeeps ==
  ASSUME VerdictsInv, NEW payload, Submit(payload),
         form.tasks = form.opened => \A t \in form.tasks : payload[t] # NoVerdict,
         \A t \in form.tasks : payload[t] = "BADIMAGERY" => form.chosen = "BADIMAGERY"
  PROVE  VerdictsInv'
<1>1. /\ DOMAIN form' = FormFields /\ form'.action = "done" /\ form'.opened = form.opened
      /\ form'.tasks = form.tasks /\ form'.level = form.level /\ form'.early = form.early
      /\ form'.status = form.status /\ form'.chosen = form.chosen /\ form'.history = form.history
  BY DEF VerdictsInv, FormInv, FormShape, FormFields, Submit
<1>2. FormInv'
  BY <1>1 DEF VerdictsInv, FormInv, FormShape, Counted, Informed, AllowedChoice, Untouched
<1> DEFINE r == [of |-> form, verdicts |-> payload]
<1>3. submitted' = {r} /\ r.of = form /\ r.verdicts = payload
  BY DEF Submit
<1> HIDE DEF r
<1>4. VerdictsComplete'
  BY <1>3 DEF VerdictsComplete, NoVerdict
<1>5. AllowedChoice
  BY DEF VerdictsInv, FormInv
<1>6. BadImageryOnce'
  <2> SUFFICES ASSUME NEW t \in form.tasks, payload[t] = "BADIMAGERY"
               PROVE  form.level = "ADVANCED" /\ (useDisableBadImagery(form.history) => form.early)
    BY <1>3 DEF BadImageryOnce, useDisableBadImagery
  <2> QED
    BY <1>5 DEF AllowedChoice
<1> QED
  BY <1>2, <1>4, <1>6 DEF VerdictsInv, VerdictsSound

LEMMA MappingKeeps == ASSUME VerdictsInv, submitMapping PROVE VerdictsInv'
<1> DEFINE payload == [t \in form.tasks |-> form.chosen]
<1>1. Submit(payload) /\ form.chosen # NoVerdict
  BY DEF submitMapping, VerdictsInv, FormInv, FormShape, Choices, NoVerdict
<1>2. \A t \in form.tasks : payload[t] = form.chosen
  OBVIOUS
<1> HIDE DEF payload
<1> QED
  BY <1>1, <1>2, SubmitKeeps

LEMMA ValidationKeeps == ASSUME VerdictsInv, submitValidation PROVE VerdictsInv'
<1> DEFINE payload == [t \in form.tasks |-> StatusOf(t)]
<1>1. Submit(payload) /\ areAllTasksVerified
  BY DEF submitValidation
<1>2. \A t \in form.tasks : payload[t] = StatusOf(t)
  OBVIOUS
<1>3. \A t \in form.tasks : StatusOf(t) # "BADIMAGERY"
  BY DEF StatusOf, VerdictsInv, FormInv, Counted, Verdict, NoVerdict
<1>4. form.tasks = form.opened => \A t \in form.tasks : StatusOf(t) # NoVerdict
  BY <1>1, AllVerified DEF Verdict, NoVerdict
<1> HIDE DEF payload
<1> QED
  BY <1>1, <1>2, <1>3, <1>4, SubmitKeeps

LEMMA VerdictsStep == ASSUME VerdictsInv, [VerdictsNext]_verdictVars PROVE VerdictsInv'
<1>1. CASE \E action \in {"MAPPING", "VALIDATION"}, ts \in SUBSET Tasks,
             level \in {"BEGINNER", "ADVANCED"} : OpenForm(action, ts, level)
  BY <1>1, OpenKeeps
<1>2. CASE \E h \in Histories : HistoryArrives(h)
  BY <1>2, HistoryKeeps
<1>3. CASE \E ts \in SUBSET Tasks : TasksArrive(ts)
  BY <1>3, TasksKeeps
<1>4. CASE ReadComments
  BY <1>4, CommentsKeep
<1>5. CASE \E s \in {"MAPPED", "READY", "BADIMAGERY"} : setSelectedStatus(s)
  BY <1>5, ChoiceKeeps
<1>6. CASE \E s \in Verdict : SetAll(s)
  BY <1>6, SetAllKeeps
<1>7. CASE \E t \in Tasks : TaskValidationSelector(t)
  BY <1>7, UpdateKeeps, CommentsKeep DEF TaskValidationSelector
<1>8. CASE submitMapping
  BY <1>8, MappingKeeps
<1>9. CASE submitValidation
  BY <1>9, ValidationKeeps
<1>10. CASE UNCHANGED verdictVars
  BY <1>10 DEF verdictVars, VerdictsInv, FormInv, FormShape, Counted, Informed, AllowedChoice, Untouched,
               VerdictsSound, VerdictsComplete, BadImageryOnce
<1> QED
  BY <1>1, <1>2, <1>3, <1>4, <1>5, <1>6, <1>7, <1>8, <1>9, <1>10 DEF VerdictsNext

\* What is submitted, from the form for a mapped task or for validated ones, has a verdict on each task unless a
\* lock was lost meanwhile, and bad imagery is only said by those who may (actionSidebars.js).
THEOREM VerdictsCorrect == VerdictsSpec => []VerdictsSound
<1>1. VerdictsInit => VerdictsInv
  BY VerdictsStart
<1>2. VerdictsInv /\ [VerdictsNext]_verdictVars => VerdictsInv'
  BY VerdictsStep
<1>3. VerdictsInv => VerdictsSound
  BY DEF VerdictsInv
<1> QED
  BY <1>1, <1>2, <1>3, PTL DEF VerdictsSpec
=============================================================================
