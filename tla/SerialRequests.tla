--------------------------- MODULE SerialRequests ---------------------------
(***************************************************************************)
(* RequestSteps with what the database held when no request was under way. *)
(* Served one at a time, the requests in steps do what TaskLifecycle says  *)
(* of the requests as wholes.                                              *)
(***************************************************************************)
EXTENDS RequestSteps

VARIABLE settled    \* the committed state when last all workers were idle

serialVars == <<tasks, project, tally, request, crashes, settled>>

Committed == [tasks |-> tasks, project |-> project, tally |-> tally]

SerialInit == StepsInit /\ settled = Committed

SerialNext ==
  /\ StepsNext
  /\ settled' = IF \A w \in Workers : request'[w] = Idle THEN Committed' ELSE settled

SerialSpec == SerialInit /\ [][SerialNext]_serialVars

Whole == INSTANCE TaskLifecycle WITH
  tasks <- settled.tasks, project <- settled.project, tally <- settled.tally

\* From one idle moment to the next, a single worker changes the database as
\* one request of TaskLifecycle does, or not at all: the intermediate commits,
\* the columns left out of an UPDATE and the counters written back late add up.
WholeRequests == Whole!Spec
=============================================================================
