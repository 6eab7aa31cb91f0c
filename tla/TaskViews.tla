------------------------------ MODULE TaskViews -------------------------------
(***************************************************************************)
(* What is shown of the tasks: the graph of delegation/src/task-graph.ts   *)
(* and the health of delegation/src/agent-status.ts.  `records' is the     *)
(* sequence of the records, `now' the time; a time that a record does not  *)
(* have, or that cannot be parsed, is Missing.                             *)
(***************************************************************************)
EXTENDS Integers, Sequences, FiniteSets, SequencesExt, TLC

CONSTANTS Missing, stuckAfterMs, queueDegradedAfterMs, failureWindowMs

Ended == {"succeeded", "failed", "cancelled"}
Statuses == Ended \cup {"queued", "blocked", "running"}

(* Ids are compared when the times of creation are the same.               *)
compareRecords(a, b) ==
  a.created_at < b.created_at \/ (a.created_at = b.created_at /\ a.id < b.id)

Count(list, status) == Cardinality({i \in DOMAIN list : list[i].status = status})

(* A dependency that has no record blocks, too.                            *)
BlockedBy(records, record) ==
  SelectSeq(record.depends_on, LAMBDA d :
    ~\E i \in DOMAIN records : records[i].id = d /\ records[i].status = "succeeded")

buildTaskGraph(records, includeCompleted) ==
  LET sorted == SortSeq(records, compareRecords)
      filtered == SelectSeq(sorted, LAMBDA r : includeCompleted \/ r.status \notin Ended)
      nodes == [i \in DOMAIN filtered |->
                  [id |-> filtered[i].id, status |-> filtered[i].status, depends_on |-> filtered[i].depends_on,
                   blocked_by |-> BlockedBy(records, filtered[i])]]
      ids == {nodes[i].id : i \in DOMAIN nodes}
  IN [nodes |-> nodes,
      edges |-> FlattenSeq([i \in DOMAIN nodes |->
                  LET shown == SelectSeq(nodes[i].depends_on, LAMBDA d : d \in ids)
                  IN [k \in DOMAIN shown |-> [from |-> shown[k], to |-> nodes[i].id]]]),
      summary |-> [total |-> Len(nodes), counts |-> [s \in Statuses |-> Count(nodes, s)]]]
-----------------------------------------------------------------------------
(* The lists of the store.  A filter that is "" does not filter; no limit  *)
(* is Missing, and the least limit is one.                                 *)
compareTaskCreationAscending(a, b) ==
  IF a.created_order # b.created_order /\ Missing \notin {a.created_order, b.created_order}
  THEN a.created_order < b.created_order ELSE compareRecords(a, b)

Limited(list, limit) ==
  IF limit = Missing THEN list
  ELSE SubSeq(list, 1, LET n == IF limit < 1 THEN 1 ELSE limit IN IF n < Len(list) THEN n ELSE Len(list))

listTasks(records, filter) ==
  LET listed == SelectSeq(records, LAMBDA r : /\ filter.root \in {"", r.root}
                                              /\ filter.status \in {"", r.status}
                                              /\ filter.background \in {"", r.background})
  IN Limited(SortSeq(listed, LAMBDA a, b : compareTaskCreationAscending(b, a)), filter.limit)

listRunnableBlockedTasks(records, filter) ==
  LET listed == SelectSeq(records, LAMBDA r : /\ r.status = "blocked" /\ filter.root \in {"", r.root}
                                              /\ BlockedBy(records, r) = <<>>)
  IN Limited(SortSeq(listed, compareTaskCreationAscending), filter.limit)

listRunnableQueuedTasks(records, limit) ==
  Limited(SortSeq(SelectSeq(records, LAMBDA r : r.status = "queued"), compareTaskCreationAscending), limit)
-----------------------------------------------------------------------------
parseIsoAgeMs(time, now) ==
  IF time = Missing THEN Missing ELSE IF now < time THEN 0 ELSE now - time

(* The first age that is known.                                            *)
Age(times, now) ==
  LET known == SelectSeq(times, LAMBDA t : t # Missing)
  IN IF known = <<>> THEN Missing ELSE parseIsoAgeMs(known[1], now)

RunningAge(t, now) == Age(<<t.started_at, t.updated_at, t.created_at>>, now)

staleRunning(t, now) == t.status = "running" /\ RunningAge(t, now) >= stuckAfterMs
runningAgeUnknown(t, now) == t.status = "running" /\ RunningAge(t, now) = Missing
staleQueued(t, now) == t.status = "queued" /\ parseIsoAgeMs(t.created_at, now) >= queueDegradedAfterMs
staleBlocked(t, now) == t.status = "blocked" /\ parseIsoAgeMs(t.updated_at, now) >= queueDegradedAfterMs
recentFailure(t, now) ==
  LET age == Age(<<t.completed_at, t.updated_at>>, now)
  IN t.status = "failed" /\ age # Missing /\ age <= failureWindowMs

summarizeAgentStatus(tasks, now) ==
  LET Some(Holds(_, _)) == \E i \in DOMAIN tasks : Holds(tasks[i], now)
      ages == {RunningAge(tasks[i], now) : i \in {j \in DOMAIN tasks : tasks[j].status = "running"}} \ {Missing}
  IN [status |-> IF Some(staleRunning) THEN "stuck"
                 ELSE IF Some(recentFailure) \/ Some(staleQueued) \/ Some(staleBlocked) \/ Some(runningAgeUnknown)
                 THEN "degraded" ELSE "healthy",
      counts |-> [s \in Statuses |-> Count(tasks, s)],
      oldest_running_age_ms |-> IF ages = {} THEN Missing ELSE CHOOSE a \in ages : \A b \in ages : b <= a]
-----------------------------------------------------------------------------
(* Every record is shown once, after those it depends on if it was created *)
(* after them, and the edges are those between tasks that are shown.       *)
GraphIsComplete(records, includeCompleted) ==
  LET graph == buildTaskGraph(records, includeCompleted)
      shown == {records[i] : i \in {j \in DOMAIN records : includeCompleted \/ records[j].status \notin Ended}}
  IN /\ {graph.nodes[i].id : i \in DOMAIN graph.nodes} = {r.id : r \in shown}
     /\ Len(graph.nodes) = Cardinality(shown) /\ graph.summary.total = Cardinality(shown)
     /\ ToSet(graph.edges) = {[from |-> d.id, to |-> r.id] : d, r \in shown} \cap
                             UNION {{[from |-> d, to |-> r.id] : d \in ToSet(r.depends_on)} : r \in shown}
     /\ \A i, j \in DOMAIN graph.nodes : i < j => graph.nodes[j].id \notin ToSet(graph.nodes[i].depends_on)

(* The lists agree with each other and with the order of creation: what is *)
(* listed as runnable is what is listed under its status, turned round and *)
(* without the tasks that wait for another; a limit takes from the end.    *)
ListsAgree(records, root, limit) ==
  LET filter == [root |-> root, status |-> "blocked", background |-> "", limit |-> Missing]
      blocked == listTasks(records, filter)
      runnable == listRunnableBlockedTasks(records, filter)
      queued == listTasks(records, [filter EXCEPT !.status = "queued", !.root = ""])
      few == listRunnableQueuedTasks(records, limit)
  IN /\ runnable = SelectSeq(Reverse(blocked), LAMBDA r : BlockedBy(records, r) = <<>>)
     /\ IsPrefix(few, Reverse(queued)) /\ (few = <<>> <=> queued = <<>>)
     /\ IsPrefix(listTasks(records, [filter EXCEPT !.limit = limit]), blocked)

(* The health of some tasks is the worst of the healths of each of them,   *)
(* and does not get better with time while only running tasks are there.   *)
Healths == <<"healthy", "degraded", "stuck">>
HealthIsTheWorst(tasks, now) ==
  LET Level(list, time) ==
        CHOOSE i \in DOMAIN Healths : Healths[i] = summarizeAgentStatus(list, time).status
      alone == {Level(<<tasks[i]>>, now) : i \in DOMAIN tasks}
  IN /\ \A l \in alone : l <= Level(tasks, now)
     /\ Level(tasks, now) \in alone \cup {1}
     /\ (\A i \in DOMAIN tasks : tasks[i].status # "failed") => Level(tasks, now) <= Level(tasks, now + 1)
=============================================================================
