----------------------------- MODULE TaskLedger -----------------------------
(***************************************************************************)
(* What the task store promises its callers: a single map of records that  *)
(* operations change one at a time, each wholly or not at all, and that    *)
(* nothing else changes.                                                   *)
(***************************************************************************)
EXTENDS TaskCalls

VARIABLE records

Init == records \in Store /\ WellFormed(records)

Perform(c) == Accepts(records, c) /\ records' = Apply(records, c)

Next == \E c \in Calls : Perform(c)

Spec == Init /\ [][Next]_records

-----------------------------------------------------------------------------
(* The records are a map from task ids to well-typed records.              *)
TypeOK == records \in Store

(* Dependencies exist, are older than their dependents, and creation       *)
(* orders stay unique, whatever sequence of operations is accepted.        *)
LedgerWellFormed == WellFormed(records)

(* No operation makes a record disappear or gives it another root, other   *)
(* dependencies or another creation order.                                 *)
NeverForgets ==
  [][\A t \in Tasks : Present(records, t) =>
       /\ Present(records', t)
       /\ records'[t].root = records[t].root
       /\ records'[t].deps = records[t].deps
       /\ records'[t].order = records[t].order]_records

(* An outcome once recorded is not rewritten to another outcome: a         *)
(* finished task either stays as it is or is active again.                 *)
OutcomesFixed ==
  [][\A t \in Tasks :
       records[t].status \in Terminal =>
         records'[t].status \in Active \cup {records[t].status}]_records
=============================================================================
