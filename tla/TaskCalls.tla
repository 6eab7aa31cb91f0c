------------------------------ MODULE TaskCalls ------------------------------
(***************************************************************************)
(* The calls of the task store's mutating operations: when one is accepted *)
(* and what it makes of the records.                                       *)
(***************************************************************************)
EXTENDS TaskRecords

(* A call of a mutating operation: op, the task id, and the arguments.     *)
CreateCall == [op : {"create"}, id : Tasks, root : Roots, deps : SUBSET Tasks,
               child : Children, key : Keys, bg : BOOLEAN, exec : Executions,
               asg : Assignments, initial : {"derived", "queued", "running"}]
TransitionCall == [op : {"transition"}, id : Tasks, to : Stored]
RestartCall == [op : {"restart"}, id : Tasks, child : Children, key : Keys,
                bg : BOOLEAN, exec : Executions, asg : Assignments,
                initial : {"derived", "queued", "running"}]
UpdateCall == [op : {"update"}, id : Tasks, exec : Executions, asg : Assignments]
Call == CreateCall \cup TransitionCall \cup RestartCall \cup UpdateCall

CONSTANT Calls     \* the calls that are made

ASSUME CallsAssumption == Calls \subseteq Call

Accepts(s, c) ==
  \/ c.op = "create" /\ CreateAccepted(s, c)
  \/ c.op = "transition" /\ TransitionAccepted(s, c)
  \/ c.op = "restart" /\ RestartAccepted(s, c)
  \/ c.op = "update" /\ UpdateAccepted(s, c)

Apply(s, c) ==
  CASE c.op = "create" -> Created(s, c)
    [] c.op = "transition" -> Transitioned(s, c)
    [] c.op = "restart" -> Restarted(s, c)
    [] c.op = "update" -> Updated(s, c)
=============================================================================
