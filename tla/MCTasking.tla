------------------------------ MODULE MCTasking ------------------------------
(* One task, which may be split, and the states in which a user may find it. *)
EXTENDS TaskSelection
CONSTANTS t1, t2, t3
Mapper == [role |-> "MAPPER", level |-> "ADVANCED", author |-> FALSE, manages |-> FALSE,
           listed |-> FALSE, teams |-> {}]
Open == [private |-> FALSE, draft |-> FALSE, hasOrg |-> TRUE, mappingPermission |-> "ANY",
         validationPermission |-> "ANY", allMapped |-> FALSE, allValidated |-> FALSE]
R(s, l, m, b) == [status |-> s, lockedBy |-> l, mappedBy |-> m, before |-> b]
NewRow == R("READY", "none", "none", "READY")
One(r) == [t \in {t1} |-> r]
MappedRow == R("MAPPED", "none", "other", "MAPPED")

\* With others about, and one request or answer lost.
Crowded ==
  {[table |-> One(NewRow), elsewhere |-> e] : e \in {{}, {NoTask}}} \cup
  {[table |-> One(r), elsewhere |-> {}] :
     r \in {MappedRow, R("MAPPED", "none", "me", "MAPPED"),
            R("VALIDATED", "none", "other", "VALIDATED"),
            R("LOCKED_FOR_MAPPING", "me", "none", "READY"),
            R("LOCKED_FOR_MAPPING", "other", "none", "READY")}}
\* Alone, with one request more, and one more lost.
Alone ==
  {[table |-> One(NewRow), elsewhere |-> {}], [table |-> One(MappedRow), elsewhere |-> {t1}]}

Spent(start, c, f, m) ==
  [table |-> start.table, elsewhere |-> start.elsewhere, changes |-> c, faults |-> f, moves |-> m]
OneTaskStarts ==
  {Spent(s, 0, 1, 1) : s \in Crowded} \cup {Spent(s, MaxChanges, 0, 0) : s \in Alone}
=============================================================================
