---------------------------- MODULE TaskRecords ----------------------------
(***************************************************************************)
(* The records of the delegation package's task store and what its         *)
(* operations do to them, src/packages/delegation/src/state.ts.  A store   *)
(* maps every possible task id to a record; the status "absent" stands for *)
(* an id that has no record.  The fields kept are those some decision      *)
(* reads: titles, prompts, models, timestamps and result texts are not.    *)
(***************************************************************************)
EXTENDS Integers, FiniteSets

CONSTANTS
  Tasks,          \* task ids
  Roots,          \* root sessions
  Children,       \* child sessions
  Keys,           \* concurrency keys (agent names)
  Executions,     \* values of TaskRecord.execution
  Assignments     \* values of TaskRecord.assignment

ASSUME TasksFinite == IsFiniteSet(Tasks)

Stored   == {"queued", "blocked", "running", "succeeded", "failed", "cancelled"}
Terminal == {"succeeded", "failed", "cancelled"}
Active   == {"queued", "blocked", "running"}

Record == [status : Stored \cup {"absent"}, root : Roots, deps : SUBSET Tasks,
           order : Nat, child : Children, key : Keys, bg : BOOLEAN,
           exec : Executions, asg : Assignments]

Store == [Tasks -> Record]

Present(s, t) == s[t].status # "absent"

ValidTransitions ==
  [queued    |-> {"blocked", "running", "failed", "cancelled"},
   blocked   |-> {"queued", "running", "failed", "cancelled"},
   running   |-> {"blocked", "succeeded", "failed", "cancelled"},
   succeeded |-> {}, failed |-> {}, cancelled |-> {}]

(* Mutant of TransitionAllowed: the table is not consulted.                *)
TransitionUnchecked(from, to) == TRUE

TransitionAllowed(from, to) == from = to \/ to \in ValidTransitions[from]

(* collectBlockingDependencies: absent dependencies block as well.         *)
Blockers(s, deps) == {d \in deps : s[d].status # "succeeded"}

Orders(s) == {s[t].order : t \in {u \in Tasks : Present(s, u)}} \cup {0}

(* Mutant of NextOrder: the largest order is given again.                  *)
LargestOrder(s) == CHOOSE n \in Orders(s) : \A m \in Orders(s) : m <= n

(* One more than the largest created_order in the store.                   *)
NextOrder(s) == 1 + CHOOSE n \in Orders(s) : \A m \in Orders(s) : m <= n

(* hasDependencyPath from any of the tasks in start: what is in every set  *)
(* of tasks that contains start and the dependencies of its members.       *)
DependsOn(s, start) ==
  {t \in Tasks : \A C \in SUBSET Tasks :
     start \subseteq C /\ (\A d \in C : s[d].deps \subseteq C) => t \in C}

HasCycle(s, id, deps) == id \in DependsOn(s, deps)

(* Mutant of StatusOnEntry: the status is not derived.                     *)
StatusAsGiven(s, initial, deps) == initial

StatusOnEntry(s, initial, deps) ==
  IF initial # "derived" THEN initial
  ELSE IF Blockers(s, deps) = {} THEN "queued" ELSE "blocked"

-----------------------------------------------------------------------------
(* The operations; c holds the arguments, with the id of the task as c.id. *)

(* Mutant of CreateAccepted: dependencies need not be there.               *)
CreateUnchecked(s, c) == ~Present(s, c.id) /\ ~HasCycle(s, c.id, c.deps)

(* createTask *)
CreateAccepted(s, c) ==
  /\ ~Present(s, c.id)
  /\ \A d \in c.deps : Present(s, d) /\ s[d].root = c.root
  /\ ~HasCycle(s, c.id, c.deps)

Created(s, c) ==
  [s EXCEPT ![c.id] =
     [status |-> StatusOnEntry(s, c.initial, c.deps), root |-> c.root,
      deps |-> c.deps, order |-> NextOrder(s), child |-> c.child,
      key |-> c.key, bg |-> c.bg, exec |-> c.exec, asg |-> c.asg]]

(* transitionTask: the same status again is accepted and keeps the record. *)
TransitionAccepted(s, c) ==
  Present(s, c.id) /\ TransitionAllowed(s[c.id].status, c.to)

Transitioned(s, c) == [s EXCEPT ![c.id].status = c.to]

(* restartTask, as its only caller uses it: the dependencies stay.         *)
RestartAccepted(s, c) ==
  Present(s, c.id) /\ s[c.id].status \notin {"queued", "running"}

Restarted(s, c) ==
  [s EXCEPT ![c.id] =
     [@ EXCEPT !.status = StatusOnEntry(s, c.initial, s[c.id].deps),
               !.child = c.child, !.key = c.key, !.bg = c.bg,
               !.exec = c.exec, !.asg = c.asg]]

(* updateTask replaces execution and assignment wholesale.                 *)
UpdateAccepted(s, c) == Present(s, c.id)

Updated(s, c) ==
  [s EXCEPT ![c.id] = [@ EXCEPT !.exec = c.exec, !.asg = c.asg]]

-----------------------------------------------------------------------------
(* Every dependency has a record, of the same root and created earlier: so *)
(* dependencies never form a cycle and a dependency can always be found.   *)
DepsOlder(s) ==
  \A t \in Tasks : Present(s, t) =>
    \A d \in s[t].deps :
      Present(s, d) /\ s[d].root = s[t].root /\ s[d].order < s[t].order

(* No two records share a creation order, and none has order 0.            *)
OrdersDistinct(s) ==
  \A t, u \in Tasks :
    Present(s, t) /\ Present(s, u) =>
      s[t].order > 0 /\ (s[t].order = s[u].order => t = u)

WellFormed(s) == DepsOlder(s) /\ OrdersDistinct(s)
=============================================================================
