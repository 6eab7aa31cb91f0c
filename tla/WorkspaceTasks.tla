---------------------------- MODULE WorkspaceTasks ----------------------------
(***************************************************************************)
(* The older copy of the tasks that the workspace plugin keeps: the store  *)
(* of workspace/src/delegation/state.ts, its router, its graph and its     *)
(* status.  The store differs from that of the delegation plugin: there is *)
(* one file of version 2, a version is not asked for when it is read,      *)
(* a blocked task is not queued again, and nothing restarts or updates     *)
(* one.  The router is the same code, the graph and the status are the     *)
(* same but for the fields shown.  Call returns the store and the answer;  *)
(* calls go one after the other (mutationQueue).                           *)
(***************************************************************************)
EXTENDS TaskCodec

CONSTANTS NotATime, stuckAfter, degradedAfter, failureWindow
Router == INSTANCE DelegationRouter
Views == INSTANCE TaskViews WITH Missing <- NotATime, stuckAfterMs <- stuckAfter,
  queueDegradedAfterMs <- degradedAfter, failureWindowMs <- failureWindow

WorkspacePaths == Paths \ {"frontend-reroute"}
WorkspaceRequired ==
  [f \in DOMAIN RequiredSchema \ {"description", "run_in_background"} |-> RequiredSchema[f]]
WorkspaceOptional ==
  [tmux_session_name |-> Text, tmux_window_name |-> Text] @@
  [f \in DOMAIN OptionalSchema \ {"authoritative_context", "command", "concurrency_key"} |-> OptionalSchema[f]]

normalizeDelegationRecord(x, now) ==
  LET required == Taken(WorkspaceRequired, x)
  IN IF \E f \in DOMAIN required : required[f] = Undefined THEN Undefined
     ELSE Object(required @@ Taken(WorkspaceOptional, x) @@
            [routing |-> normalizeRoutingTelemetry(Categories, WorkspacePaths, Get(x, "routing")),
             created_at |-> Unless(Accepted(Text, Get(x, "created_at")), now),
             updated_at |-> Unless(Accepted(Text, Get(x, "updated_at")), now)])

normalizeDelegations(x, now) ==
  LET records == Fields(Get(x, "delegations"))
  IN Fields(Object([k \in DOMAIN records |-> normalizeDelegationRecord(records[k], now)]))
-----------------------------------------------------------------------------
(* A store in memory: the records that are there, as functions of their    *)
(* fields; status, root, child, deps, created and started are those the    *)
(* calls look at.                                                          *)
Ended == {"succeeded", "failed", "cancelled"}
VALID_TRANSITIONS ==
  [queued |-> {"blocked", "running", "failed", "cancelled"}, blocked |-> {"running", "failed", "cancelled"},
   running |-> Ended, succeeded |-> {}, failed |-> {}, cancelled |-> {}]
isTransitionAllowed(from, to) == from = to \/ to \in VALID_TRANSITIONS[from]

DependsOn(store, from) ==
  LET Next(S) == S \cup UNION {store[d].deps : d \in S \cap DOMAIN store}
      after[n \in 0..Cardinality(DOMAIN store)] == IF n = 0 THEN {from} ELSE Next(after[n - 1])
  IN after[Cardinality(DOMAIN store)]
hasDependencyCycle(store, id, deps) == \E d \in deps : id \in DependsOn(store, d)

collectBlockingDependencies(store, deps) ==
  {d \in deps : d \notin DOMAIN store \/ store[d].status # "succeeded"}

Answer(store, answer) == [store |-> store, answer |-> answer]

createDelegation(store, input, now) ==
  LET deps == {Trim(d) : d \in input.deps} \ {""}
      blocked == collectBlockingDependencies(store, deps) # {}
  IN IF \/ input.id \in DOMAIN store
        \/ \E d \in deps : d \notin DOMAIN store \/ store[d].root # input.root
        \/ hasDependencyCycle(store, input.id, deps)
     THEN Answer(store, "error")
     ELSE Answer((input.id :> [status |-> IF input.initial # "" THEN input.initial
                                          ELSE IF blocked THEN "blocked" ELSE "queued",
                               root |-> input.root, child |-> input.child, deps |-> deps,
                               created |-> now, updated |-> now, started |-> 0, completed |-> 0]) @@ store,
                 "created")

(* A time of zero is one that is not set.                                  *)
transitionDelegation(store, id, status, now) ==
  IF id \notin DOMAIN store THEN Answer(store, "error")
  ELSE IF store[id].status = status THEN Answer(store, "same")
  ELSE IF ~isTransitionAllowed(store[id].status, status) THEN Answer(store, "error")
  ELSE Answer([store EXCEPT ![id].status = status, ![id].updated = now,
                            ![id].started = IF status = "running" /\ @ = 0 THEN now ELSE @,
                            ![id].completed = IF status \in Ended THEN now ELSE @], "moved")

listDelegations(store, root, status) ==
  LET listed == {id \in DOMAIN store : root \in {"", store[id].root} /\ status \in {"", store[id].status}}
  IN SetToSortSeq(listed, LAMBDA a, b : store[a].created > store[b].created)

listRunnableBlockedDelegations(store, root) ==
  LET listed == {id \in DOMAIN store : /\ store[id].status = "blocked" /\ root \in {"", store[id].root}
                                       /\ collectBlockingDependencies(store, store[id].deps) = {}}
  IN SetToSortSeq(listed, LAMBDA a, b : store[a].created < store[b].created)

getDelegationByChildSessionID(store, child) == {id \in DOMAIN store : store[id].child = child}
-----------------------------------------------------------------------------
route(input) == Router!resolveDelegationRouting(input)
classify(text) == Router!classifyDelegationCategory(text)
buildTaskGraph(records, includeCompleted) == Views!buildTaskGraph(records, includeCompleted)
summarizeAgentStatus(records, now) == Views!summarizeAgentStatus(records, now)
-----------------------------------------------------------------------------
(* What a sequence of calls does from an empty store, the i-th at time i.  *)
Done(calls) ==
  LET step[i \in 0..Len(calls)] ==
        IF i = 0 THEN <<Answer(<<>>, "none")>>
        ELSE LET c == calls[i]
                 store == step[i - 1][i].store
             IN Append(step[i - 1], IF c.op = "create" THEN createDelegation(store, c, i)
                                    ELSE transitionDelegation(store, c.id, c.to, i))
  IN step[Len(calls)]

(* Over any calls: tasks depend on tasks of their root that were there     *)
(* before, so never on themselves; an outcome stands; an ended task has    *)
(* its time of completion, and one that succeeded was started; a task that *)
(* waits for none, and was given no status, is not blocked when it enters. *)
TasksAreOrderly(calls) ==
  LET done == Done(calls)
  IN \A i \in 1..Len(done) :
       LET store == done[i].store
       IN \A id \in DOMAIN store :
            /\ \A d \in store[id].deps : store[d].root = store[id].root /\ store[d].created < store[id].created
            /\ id \notin UNION {DependsOn(store, d) : d \in store[id].deps}
            /\ (store[id].completed # 0) = (store[id].status \in Ended)
            /\ store[id].status = "succeeded" => store[id].started \in 1..(store[id].completed - 1)
            /\ \A j \in i..Len(done) :
                 store[id].status \in Ended => done[j].store[id] = store[id]

(* Nothing but a transition takes a blocked task out of the queue, and the *)
(* two places that say whether its turn has come agree: it is listed as    *)
(* runnable when the graph shows nothing it is blocked by.                 *)
RunnableIsUnblocked(calls) ==
  LET store == Done(calls)[Len(calls) + 1].store
      records == [i \in 1..Cardinality(DOMAIN store) |->
                    LET id == SetToSeq(DOMAIN store)[i]
                    IN [id |-> id, status |-> store[id].status, created_at |-> store[id].created,
                        depends_on |-> SetToSeq(store[id].deps)]]
      nodes == ToSet(buildTaskGraph(records, FALSE).nodes)
  IN ToSet(listRunnableBlockedDelegations(store, "")) =
       {n.id : n \in {m \in nodes : m.status = "blocked" /\ m.blocked_by = <<>>}}
=============================================================================
