----------------------------- MODULE Delegation -----------------------------
(***************************************************************************)
(* The delegation plugin, src/packages/delegation/src/index.ts: background *)
(* and foreground tasks run by child sessions, followed by session events, *)
(* promotion passes and the tools task, background_output and              *)
(* background_cancel, which all run at once.  A step ends at an await that *)
(* others can overtake; every await on the task store is one.  An actor    *)
(* keeps the record it read last, as the code keeps it in a variable, and  *)
(* what it writes back is computed from that copy.                         *)
(* Left out: tasks of the manager workflow (assignment), permission        *)
(* prompts, routing, metadata and every text.                              *)
(***************************************************************************)
EXTENDS TaskRecords, Sequences

CONSTANTS
  MaxRunning,   \* MAX_RUNNING_PER_AGENT
  MaxSessions,  \* bound: child sessions ever created
  Handlers,     \* concurrent activations of the event hook
  Callers,      \* concurrent tool calls
  Promoter,     \* the chain promotionQueue
  MaxCalls,     \* bound: tool calls ever made
  MaxCount,     \* bound: what passes and told count up to
  Tools,        \* the tools called: subset of ToolNames
  Modes,        \* executions a launch may get: subset of {"direct", "worktree"}
  TinyTasks,    \* tasks isTinyFrontendImplementationTask holds of
  PassLimit,    \* the limit of listPromotableTasks, 100
  Failures      \* remote calls that may fail: subset of FailureNames

Exec == [mode : {"direct", "worktree"},
         merge : {"pending", "bypassed", "merged", "conflicted", "failed", "deferred"},
         ft : {"none", "pending", "delivered", "waived"}]
(* Passes and prompts are counted up to MaxCount.                          *)
More(n) == IF n < MaxCount THEN n + 1 ELSE n

ToolNames == {"background", "foreground", "continue", "output", "cancel", "cancelAll", "stop"}
(* A prompt to a child or to the root answers with an error; any other     *)
(* call, and a prompt to the root, rejects.                                *)
FailureNames == {"child", "root", "rejected"}
Actors == Handlers \cup Callers \cup {Promoter}

ASSUME DelegationAssumption ==
  /\ MaxRunning \in Nat \ {0} /\ PassLimit \in Nat \ {0} /\ MaxSessions \in Nat
  /\ MaxCalls \in Nat /\ MaxCount \in Nat \ {0}
  /\ Children = 0..MaxSessions /\ Executions = Exec
  /\ Tools \subseteq ToolNames /\ Modes \subseteq {"direct", "worktree"}
  /\ Failures \subseteq FailureNames
  /\ TinyTasks \subseteq Tasks /\ Roots # {} /\ Keys # {} /\ Assignments # {}
  /\ Promoter \notin Handlers \cup Callers /\ Handlers \cap Callers = {}

VARIABLES
  store,      \* the task records
  session,    \* child session -> what it is doing
  owed,       \* session events on their way, in no order
  act,        \* actor -> its activation
  passes,     \* promotion passes requested and not begun
  calls,      \* tool calls still to be made
  tree,       \* tasks whose worktree exists
  branches,   \* tasks whose branch exists
  merged,     \* tasks whose branch was merged into the root
  told,       \* child session -> follow-through prompts sent to the root
  stopped,    \* the root's continuation mode is not "running"
  unlisted    \* ghost: tasks that the latest pass found ready and cut off its list

git == <<tree, branches, merged>>
runtime == <<session, owed>>
vars == <<store, runtime, act, passes, calls, git, told, stopped, unlisted>>

Idle == [pc |-> "idle"]

NoRecord == [status |-> "absent", root |-> CHOOSE r \in Roots : TRUE, deps |-> {},
             order |-> 0, child |-> 0, key |-> CHOOSE k \in Keys : TRUE, bg |-> FALSE,
             exec |-> [mode |-> "direct", merge |-> "bypassed", ft |-> "none"],
             asg |-> CHOOSE m \in Assignments : TRUE]

Init ==
  /\ store = [t \in Tasks |-> NoRecord]
  /\ session = [c \in Children |-> "unused"]
  /\ owed = {}
  /\ act = [a \in Actors |-> Idle]
  /\ passes = 0 /\ calls = MaxCalls
  /\ tree = {} /\ branches = {} /\ merged = {}
  /\ told = [c \in Children |-> 0]
  /\ stopped = FALSE /\ unlisted = {}

-----------------------------------------------------------------------------
(* Activations.                                                            *)
Activation(kind, pc, t, rec) ==
  [pc |-> pc, kind |-> kind, t |-> t, rec |-> rec, out |-> "none", todo |-> <<>>]

At(a, pc) == act[a].pc = pc
My(a) == act[a].rec

(* Activation a goes on at pc, with record rec in hand.                    *)
Go(a, pc, rec) == act' = [act EXCEPT ![a] = [@ EXCEPT !.pc = pc, !.rec = rec]]
Leave(a) == act' = [act EXCEPT ![a] = Idle]

(* An exception: the foreground task tool fails its task, the event hook   *)
(* and the other tools give up.                                            *)
Throw(a) ==
  IF act[a].kind = "foreground" THEN Go(a, "launchFailed", My(a)) ELSE Leave(a)

(* refreshTaskFromRuntime or integrateWorktreeTask returns rec.            *)
Back(a, rec) ==
  CASE act[a].kind \in {"error", "interrupt"} -> Go(a, "follow", rec)
    [] act[a].kind = "idle" /\ rec.status # "running" -> Go(a, "follow", rec)
    [] act[a].kind = "output" -> Go(a, IF rec.status \in Active THEN "look" ELSE "consume", rec)
    [] OTHER -> Leave(a)

SetExec(t, e) == store' = Updated(store, [id |-> t, exec |-> e, asg |-> store[t].asg])
SetFollowThrough(a, status) == SetExec(act[a].t, [My(a).exec EXCEPT !.ft = status])

CanMove(a, status) == TransitionAccepted(store, [id |-> act[a].t, to |-> status])
Move(a, status) == store' = Transitioned(store, [id |-> act[a].t, to |-> status])

(* transitionTask, then the record it returns goes Back.                   *)
MoveBack(a, status) ==
  \/ CanMove(a, status) /\ Move(a, status) /\ Back(a, store'[act[a].t])
  \/ ~CanMove(a, status) /\ Throw(a) /\ UNCHANGED store

-----------------------------------------------------------------------------
(* refreshTaskFromRuntime; asking for the status or the transcript may     *)
(* throw.                                                                  *)
SessionSeen(c) ==
  CASE session[c] = "busy" -> {"busy", "unknown"}
    [] session[c] = "error" -> {"error", "idle", "unknown"}
    [] OTHER -> {"idle", "unknown"}

ReadStatus(a) ==
  /\ At(a, "status")
  /\ \/ My(a).status # "running" /\ Back(a, My(a))
     \/ /\ My(a).status = "running"
        /\ \E seen \in SessionSeen(My(a).child) :
             LET now == IF seen = "unknown" /\ act[a].kind = "idle" THEN "idle" ELSE seen
             IN act' = [act EXCEPT ![a].pc = IF now = "error" THEN "sessionFailed" ELSE "telemetry",
                                   ![a].out = now]
     \/ My(a).status = "running" /\ "rejected" \in Failures /\ Throw(a)
  /\ UNCHANGED <<store, runtime, passes, calls, git, told, stopped, unlisted>>

SessionFailed(a) ==
  /\ At(a, "sessionFailed") /\ MoveBack(a, "failed")
  /\ UNCHANGED <<runtime, passes, calls, git, told, stopped, unlisted>>

(* persistExecutionTelemetry writes the copy's execution back when a count *)
(* changed; maybeBlockStaleTinyFrontendTask may then find the task stale.  *)
Telemetry(a) ==
  LET t == act[a].t
      Then(rec) ==
        IF act[a].out # "idle" THEN Back(a, rec)
        ELSE \/ Go(a, "integrate", rec)
             \/ t \in TinyTasks /\ rec.status = "running" /\ Go(a, "stale", rec)
  IN /\ At(a, "telemetry")
     /\ \/ /\ (My(a).exec.mode = "worktree" /\ t \notin tree) \/ "rejected" \in Failures
           /\ Throw(a) /\ UNCHANGED store
        \/ /\ My(a).exec.mode = "direct" \/ t \in tree
           /\ \/ SetExec(t, My(a).exec) /\ Then(store'[t])
              \/ Then(My(a)) /\ UNCHANGED store
     /\ UNCHANGED <<runtime, passes, calls, git, told, stopped, unlisted>>

SaveStale(a) ==
  /\ At(a, "stale")
  /\ SetExec(act[a].t, My(a).exec) /\ Go(a, "block", My(a))
  /\ UNCHANGED <<runtime, passes, calls, git, told, stopped, unlisted>>

BlockStale(a) ==
  /\ At(a, "block") /\ MoveBack(a, "blocked")
  /\ UNCHANGED <<runtime, passes, calls, git, told, stopped, unlisted>>

-----------------------------------------------------------------------------
(* integrateWorktreeTask: how it can end, and what each ending records.    *)
MergeStatus == [unchanged |-> "bypassed", uncheckable |-> "failed", unverified |-> "failed",
                deferred |-> "deferred", conflicted |-> "conflicted", merged |-> "merged"]
Outcome == [unchanged |-> "succeeded", uncheckable |-> "failed", unstaged |-> "failed",
            unverified |-> "failed", deferred |-> "succeeded", conflicted |-> "blocked",
            merged |-> "succeeded"]
Cleaned == {"unchanged", "uncheckable", "unstaged", "unverified", "merged"}
DeletesBranch == {"unchanged", "merged"}

(* A direct execution just succeeds.  A worktree is compared with its base *)
(* and verified; git in a directory that is gone throws, a test run that   *)
(* loses its directory fails.                                              *)
Integrate(a) ==
  /\ At(a, "integrate")
  /\ \/ My(a).exec.mode = "direct" /\ MoveBack(a, "succeeded")
     \/ /\ My(a).exec.mode = "worktree"
        /\ UNCHANGED store
        /\ \/ act[a].t \notin tree /\ Throw(a)
           \/ \E verdict \in IF act[a].t \in tree
                             THEN {"unchanged", "uncheckable", "unstaged", "unverified", "passed"}
                             ELSE {"unverified"} :
                act' = [act EXCEPT ![a].out = verdict,
                                   ![a].pc = CASE verdict = "passed" -> "root"
                                               [] verdict = "unstaged" -> "settle"
                                               [] OTHER -> "record"]
  /\ UNCHANGED <<runtime, passes, calls, git, told, stopped, unlisted>>

CheckRoot(a) ==
  /\ At(a, "root")
  /\ \/ act' = [act EXCEPT ![a].out = "deferred", ![a].pc = "record"]
     \/ Go(a, "merge", My(a))
  /\ UNCHANGED <<store, runtime, passes, calls, git, told, stopped, unlisted>>

(* Mutant of Merge: the exit status of git merge is not looked at.         *)
MergeUnchecked(a) ==
  /\ At(a, "merge")
  /\ act' = [act EXCEPT ![a].out = "merged", ![a].pc = "record"]
  /\ \/ act[a].t \in branches /\ merged' = merged \cup {act[a].t}
     \/ UNCHANGED merged
  /\ UNCHANGED <<store, runtime, passes, calls, tree, branches, told, stopped, unlisted>>

Merge(a) ==
  /\ At(a, "merge")
  /\ \/ /\ act[a].t \in branches
        /\ merged' = merged \cup {act[a].t}
        /\ act' = [act EXCEPT ![a].out = "merged", ![a].pc = "record"]
     \/ /\ act' = [act EXCEPT ![a].out = "conflicted", ![a].pc = "record"]
        /\ UNCHANGED merged
  /\ UNCHANGED <<store, runtime, passes, calls, tree, branches, told, stopped, unlisted>>

RecordMerge(a) ==
  LET t == act[a].t
  IN /\ At(a, "record")
     /\ SetExec(t, [My(a).exec EXCEPT !.merge = MergeStatus[act[a].out]])
     /\ Go(a, "settle", store'[t])
     /\ UNCHANGED <<runtime, passes, calls, git, told, stopped, unlisted>>

SettleOutcome(a) ==
  LET to == Outcome[act[a].out]
  IN /\ At(a, "settle")
     /\ IF act[a].out \in Cleaned /\ CanMove(a, to)
        THEN Move(a, to) /\ Go(a, "cleanup", store'[act[a].t])
        ELSE MoveBack(a, to)
     /\ UNCHANGED <<runtime, passes, calls, git, told, stopped, unlisted>>

(* settleWorktreeCleanup: the worktree is removed, unless that fails, and  *)
(* the record's execution is written back.                                 *)
Cleanup(a) ==
  LET t == act[a].t
  IN /\ At(a, "cleanup")
     /\ \/ /\ tree' = tree \ {t}
           /\ branches' = IF act[a].out \in DeletesBranch THEN branches \ {t} ELSE branches
        \/ UNCHANGED <<tree, branches>>
     /\ SetExec(t, My(a).exec) /\ Back(a, store'[t])
     /\ UNCHANGED <<runtime, passes, calls, merged, told, stopped, unlisted>>

-----------------------------------------------------------------------------
(* Mutant of AfterFollow: a task that has ended starts no promotion pass.  *)
AfterFollowNoPass(a) ==
  IF a = Promoter
  THEN /\ act' = [act EXCEPT ![a] = IF Len(@.todo) = 1 THEN Idle
                                    ELSE LET one == @.todo[2] IN
                                         [Activation("pass", "count", one.t, one.rec)
                                            EXCEPT !.todo = Tail(act[a].todo)]]
       /\ UNCHANGED passes
  ELSE Leave(a) /\ UNCHANGED passes

(* handleRootFollowThrough, and what its two callers do after it.          *)
AfterFollow(a) ==
  IF a = Promoter
  THEN /\ act' = [act EXCEPT ![a] = IF Len(@.todo) = 1 THEN Idle
                                    ELSE LET one == @.todo[2] IN
                                         [Activation("pass", "count", one.t, one.rec)
                                            EXCEPT !.todo = Tail(act[a].todo)]]
       /\ UNCHANGED passes
  ELSE Leave(a) /\ passes' = More(passes)

(* Mutant of Owes: a follow-through noted as pending counts as sent.       *)
OwesUnlessNoted(rec) ==
  rec.bg /\ rec.status \in Terminal \cup {"blocked"} /\ rec.exec.ft = "none"

Owes(rec) ==
  /\ rec.bg /\ rec.status \in Terminal \cup {"blocked"}
  /\ rec.exec.ft \notin {"delivered", "waived"}

Follow(a) ==
  /\ At(a, "follow")
  /\ \/ ~Owes(My(a)) /\ AfterFollow(a) /\ UNCHANGED store
     \/ /\ Owes(My(a))
        /\ SetFollowThrough(a, "pending")
        /\ Go(a, "mode", store'[act[a].t])
        /\ UNCHANGED passes
  /\ UNCHANGED <<runtime, calls, git, told, stopped, unlisted>>

ReadMode(a) ==
  /\ At(a, "mode")
  /\ act' = IF stopped THEN [act EXCEPT ![a].out = "pending", ![a].pc = "followed"]
            ELSE [act EXCEPT ![a].pc = "tell"]
  /\ UNCHANGED <<store, runtime, passes, calls, git, told, stopped, unlisted>>

(* A prompt that is answered with an error is noted; one that rejects ends *)
(* the handler before it asks for a pass, or the pass with all its list.   *)
TellRoot(a) ==
  /\ At(a, "tell")
  /\ \/ /\ told' = [told EXCEPT ![My(a).child] = More(@)]
        /\ act' = [act EXCEPT ![a].out = "delivered", ![a].pc = "followed"]
     \/ /\ "root" \in Failures
        /\ act' = [act EXCEPT ![a].out = "pending", ![a].pc = "followed"]
        /\ UNCHANGED told
     \/ "rejected" \in Failures /\ Throw(a) /\ UNCHANGED told
  /\ UNCHANGED <<store, runtime, passes, calls, git, stopped, unlisted>>

Followed(a) ==
  /\ At(a, "followed")
  /\ SetFollowThrough(a, act[a].out) /\ AfterFollow(a)
  /\ UNCHANGED <<runtime, calls, git, told, stopped, unlisted>>

-----------------------------------------------------------------------------
(* Session events.                                                         *)
RunningWith(c) == {t \in Tasks : store[t].status = "running" /\ store[t].child = c}

(* The event hook reads the task of the session and drops the event when   *)
(* that task is not running.                                               *)
Deliver(h, type, c) ==
  /\ h \in Handlers /\ act[h] = Idle
  /\ <<type, c>> \in owed /\ owed' = owed \ {<<type, c>>}
  /\ IF RunningWith(c) = {} THEN UNCHANGED act
     ELSE \E t \in RunningWith(c) :
            act' = [act EXCEPT ![h] =
              Activation(type, IF type = "idle" THEN "status" ELSE type, t, store[t])]
  /\ UNCHANGED <<store, session, passes, calls, git, told, stopped, unlisted>>

(* Mutant of EndByEvent: the transition is not written to the store.       *)
EndInMemory(a, type, status) ==
  LET t == act[a].t
  IN /\ At(a, type)
     /\ IF CanMove(a, status)
        THEN Go(a, IF store[t].exec.mode = "worktree" THEN "cleanup" ELSE "follow",
                [store[t] EXCEPT !.status = status])
        ELSE Throw(a)
     /\ UNCHANGED <<store, runtime, passes, calls, git, told, stopped, unlisted>>

(* session.error fails the task; session.interrupt and session.deleted     *)
(* cancel it; then its worktree is cleaned up, keeping the branch.         *)
EndByEvent(a, type, status) ==
  LET t == act[a].t
  IN /\ At(a, type)
     /\ IF CanMove(a, status)
        THEN /\ Move(a, status)
             /\ Go(a, IF store[t].exec.mode = "worktree" THEN "cleanup" ELSE "follow", store'[t])
        ELSE Throw(a) /\ UNCHANGED store
     /\ UNCHANGED <<runtime, passes, calls, git, told, stopped, unlisted>>

SessionEvent(a) == EndByEvent(a, "error", "failed") \/ EndByEvent(a, "interrupt", "cancelled")

(* A child session ends its turn by itself, by an error or by the user.    *)
SessionEnds(c) ==
  /\ session[c] = "busy"
  /\ \/ session' = [session EXCEPT ![c] = "idle"] /\ owed' = owed \cup {<<"idle", c>>}
     \/ /\ session' = [session EXCEPT ![c] = "error"]
        /\ owed' = owed \cup {<<"error", c>>, <<"idle", c>>}
     \/ /\ session' = [session EXCEPT ![c] = "idle"]
        /\ owed' = owed \cup {<<"interrupt", c>>}
  /\ UNCHANGED <<store, act, passes, calls, git, told, stopped, unlisted>>

-----------------------------------------------------------------------------
(* promoteRunnableTasks: a pass lists the tasks that could run and goes    *)
(* through that list, however the records change meanwhile.                *)
Promotable(t) ==
  /\ store[t].status \in {"queued", "blocked"}
  /\ Blockers(store, store[t].deps) = {}
  /\ ~(store[t].status = "blocked" /\ store[t].exec.merge = "conflicted")

Running(k) == {t \in Tasks : store[t].bg /\ store[t].status = "running" /\ store[t].key = k}

ByOrder(S) ==
  CHOOSE q \in [1..Cardinality(S) -> S] :
    \A i, j \in DOMAIN q : i < j => store[q[i]].order < store[q[j]].order

(* The oldest of S, at most PassLimit.                                     *)
Oldest(S) ==
  {t \in S : Cardinality({u \in S : store[u].order < store[t].order}) < PassLimit}

(* The list is cut before the foreground tasks on it are passed over.      *)
BeginPass ==
  LET ready == {t \in Tasks : Promotable(t)}
      list == ByOrder({t \in Oldest(ready) : store[t].bg})
  IN /\ act[Promoter] = Idle /\ passes > 0
     /\ passes' = passes - 1
     /\ unlisted' = ready \ Oldest(ready)
     /\ act' = IF list = <<>> THEN act
               ELSE [act EXCEPT ![Promoter] =
                      [Activation("pass", "count", list[1], store[list[1]])
                         EXCEPT !.todo = [i \in DOMAIN list |-> [t |-> list[i], rec |-> store[list[i]]]]]]
     /\ UNCHANGED <<store, runtime, calls, git, told, stopped>>

(* Mutant of Promote: the limit is off by one.                             *)
PromoteOneTooMany ==
  LET one == Head(act[Promoter].todo)
  IN /\ At(Promoter, "count")
     /\ IF Cardinality(Running(one.rec.key)) > MaxRunning
        THEN AfterFollow(Promoter) /\ UNCHANGED session
        ELSE /\ \/ /\ session' = [session EXCEPT ![one.rec.child] = "busy"]
                   /\ act' = [act EXCEPT ![Promoter] = [@ EXCEPT !.pc = "launched", !.t = one.t, !.rec = one.rec]]
                \/ /\ "child" \in Failures
                   /\ act' = [act EXCEPT ![Promoter] = [@ EXCEPT !.pc = "unlaunched", !.t = one.t, !.rec = one.rec]]
                   /\ UNCHANGED session
             /\ UNCHANGED passes
     /\ UNCHANGED <<store, owed, calls, git, told, stopped, unlisted>>

(* getRunningCount, then startTaskSession when there is room.              *)
Promote ==
  LET one == Head(act[Promoter].todo)
  IN /\ At(Promoter, "count")
     /\ IF Cardinality(Running(one.rec.key)) >= MaxRunning
        THEN AfterFollow(Promoter) /\ UNCHANGED session
        ELSE /\ \/ /\ session' = [session EXCEPT ![one.rec.child] = "busy"]
                   /\ act' = [act EXCEPT ![Promoter] = [@ EXCEPT !.pc = "launched", !.t = one.t, !.rec = one.rec]]
                \/ /\ "child" \in Failures
                   /\ act' = [act EXCEPT ![Promoter] = [@ EXCEPT !.pc = "unlaunched", !.t = one.t, !.rec = one.rec]]
                   /\ UNCHANGED session
             /\ UNCHANGED passes
     /\ UNCHANGED <<store, owed, calls, git, told, stopped, unlisted>>

MarkRunning ==
  /\ At(Promoter, "launched")
  /\ IF CanMove(Promoter, "running")
     THEN Move(Promoter, "running") /\ AfterFollow(Promoter)
     ELSE Go(Promoter, "unlaunched", My(Promoter)) /\ UNCHANGED <<store, passes>>
  /\ UNCHANGED <<runtime, calls, git, told, stopped, unlisted>>

(* The task fails and the root hears of it; a task that has ended cannot   *)
(* fail, and that exception ends the pass.                                 *)
LaunchFailed ==
  /\ At(Promoter, "unlaunched")
  /\ IF CanMove(Promoter, "failed")
     THEN Move(Promoter, "failed") /\ Go(Promoter, "follow", store'[act[Promoter].t])
     ELSE Leave(Promoter) /\ UNCHANGED store
  /\ UNCHANGED <<runtime, passes, calls, git, told, stopped, unlisted>>

-----------------------------------------------------------------------------
(* The tools.  Invoke: caller a begins a call of the tool.                 *)
Invoke(a, tool) ==
  /\ a \in Callers /\ act[a] = Idle /\ tool \in Tools
  /\ calls > 0 /\ calls' = calls - 1

NewSession(c) ==
  /\ c # 0 /\ session[c] = "unused"
  /\ \A d \in 1..(c - 1) : session[d] # "unused"

(* prepareTaskExecution and withInitialRootFollowThrough, e being the      *)
(* execution of the record that is continued.  A worktree that still       *)
(* exists is used again with all it recorded; where only the branch is     *)
(* left git refuses to add the worktree and the task runs directly.        *)
Prepared(t, e, mode, bg) ==
  LET x == CASE mode = "worktree" /\ e.mode = "worktree" /\ t \in tree -> e
             [] mode = "worktree" /\ ~(e.mode = "worktree" /\ t \in tree)
                /\ (t \in tree \/ t \notin branches) ->
                  [mode |-> "worktree", merge |-> "pending", ft |-> "none"]
             [] OTHER -> [mode |-> "direct", merge |-> "bypassed", ft |-> "none"]
  IN IF bg THEN [x EXCEPT !.ft = "pending"] ELSE x

(* The worktree and branch exist from now on when the execution uses them. *)
Checkout(t, e) ==
  /\ tree' = IF e.mode = "worktree" THEN tree \cup {t} ELSE tree
  /\ branches' = IF e.mode = "worktree" THEN branches \cup {t} ELSE branches

(* After the record is stored: a background task asks for a promotion      *)
(* pass, a foreground task goes on to prompt its session.                  *)
Started(a, t, bg) ==
  IF bg THEN Leave(a) /\ passes' = More(passes)
  ELSE act' = [act EXCEPT ![a] = Activation("foreground", "send", t, store'[t])] /\ UNCHANGED passes

Launch(a, t, k, bg, mode, c) ==
  LET e == Prepared(t, NoRecord.exec, mode, bg)
  IN /\ Invoke(a, IF bg THEN "background" ELSE "foreground")
     /\ ~Present(store, t) /\ NewSession(c)
     /\ Checkout(t, e)
     /\ session' = [session EXCEPT ![c] = "created"]
     /\ store' = Created(store, [id |-> t, root |-> NoRecord.root, deps |-> {}, child |-> c,
                                 key |-> k, bg |-> bg, exec |-> e, asg |-> NoRecord.asg,
                                 initial |-> IF bg THEN "queued" ELSE "running"])
     /\ Started(a, t, bg)
     /\ UNCHANGED <<owed, merged, told, stopped, unlisted>>

(* task(continue_task_id): an active task is refused.                      *)
Continue(a, t) ==
  /\ Invoke(a, "continue") /\ store[t].status \in Terminal
  /\ act' = [act EXCEPT ![a] = Activation("continue", "restart", t, store[t])]
  /\ UNCHANGED <<store, runtime, passes, git, told, stopped, unlisted>>

Restart(a, k, bg, mode, c) ==
  LET t == act[a].t
      e == Prepared(t, My(a).exec, mode, bg)
      new == [id |-> t, child |-> c, key |-> k, bg |-> bg, exec |-> e, asg |-> store[t].asg,
              initial |-> IF bg THEN "queued" ELSE "running"]
  IN /\ At(a, "restart") /\ NewSession(c)
     /\ Checkout(t, e)
     /\ session' = [session EXCEPT ![c] = "created"]
     /\ IF RestartAccepted(store, new)
        THEN store' = Restarted(store, new) /\ Started(a, t, bg)
        ELSE Throw(a) /\ UNCHANGED <<store, passes>>
     /\ UNCHANGED <<owed, calls, merged, told, stopped, unlisted>>

(* session.prompt of a foreground task returns when the turn has ended.    *)
Send(a) ==
  /\ At(a, "send")
  /\ \/ session' = [session EXCEPT ![My(a).child] = "busy"] /\ Go(a, "await", My(a))
     \/ "child" \in Failures /\ Throw(a) /\ UNCHANGED session
  /\ UNCHANGED <<store, owed, passes, calls, git, told, stopped, unlisted>>

Answered(a) ==
  /\ At(a, "await") /\ session[My(a).child] # "busy"
  /\ Go(a, IF session[My(a).child] = "error" THEN "launchFailed" ELSE "integrate", My(a))
  /\ UNCHANGED <<store, runtime, passes, calls, git, told, stopped, unlisted>>

(* Mutant of FailForeground: the tool gives up without failing the task.   *)
AbandonForeground(a) ==
  /\ At(a, "launchFailed")
  /\ Leave(a)
  /\ UNCHANGED <<store, runtime, passes, calls, git, told, stopped, unlisted>>

FailForeground(a) ==
  /\ At(a, "launchFailed")
  /\ IF CanMove(a, "failed") THEN Move(a, "failed") ELSE UNCHANGED store
  /\ Leave(a)
  /\ UNCHANGED <<runtime, passes, calls, git, told, stopped, unlisted>>

(* background_output, blocking or not.                                     *)
Output(a, t) ==
  /\ Invoke(a, "output") /\ Present(store, t)
  /\ \E pc \in IF store[t].status \in Active THEN {"status", "consume"} ELSE {"consume"} :
       act' = [act EXCEPT ![a] = Activation("output", pc, t, store[t])]
  /\ UNCHANGED <<store, runtime, passes, git, told, stopped, unlisted>>

(* After a second it reads the task again, and may find its time is up.    *)
LookAgain(a) ==
  LET now == store[act[a].t]
  IN /\ At(a, "look")
     /\ \/ now.status \in Active /\ Go(a, "status", now)
        \/ Go(a, "consume", now)
     /\ UNCHANGED <<store, runtime, passes, calls, git, told, stopped, unlisted>>

(* Only the root session's reading of a terminal task delivers it.         *)
Consume(a) ==
  /\ At(a, "consume")
  /\ \/ My(a).status \in Terminal /\ My(a).exec.ft = "pending" /\ SetFollowThrough(a, "delivered")
     \/ UNCHANGED store
  /\ Leave(a)
  /\ UNCHANGED <<runtime, passes, calls, git, told, stopped, unlisted>>

(* background_cancel, for one task or all active ones: todo.               *)
CancelList(a, list) ==
  act' = [act EXCEPT ![a] =
    [Activation("cancel", "abort", list[1], store[list[1]])
       EXCEPT !.todo = [i \in DOMAIN list |-> [t |-> list[i], rec |-> store[list[i]]]]]]

Cancel(a, t) ==
  /\ Invoke(a, "cancel") /\ Present(store, t)
  /\ IF store[t].status \in Active THEN CancelList(a, <<t>>)
     ELSE act' = [act EXCEPT ![a] = Activation("waive", "waive", t, store[t])]
  /\ UNCHANGED <<store, runtime, passes, git, told, stopped, unlisted>>

CancelAll(a) ==
  LET active == {t \in Tasks : store[t].bg /\ store[t].status \in Active}
  IN /\ Invoke(a, "cancelAll") /\ active # {}
     /\ \E list \in {q \in [1..Cardinality(active) -> active] :
                       \A i, j \in DOMAIN q : i < j => store[q[i]].order > store[q[j]].order} :
          CancelList(a, list)
     /\ UNCHANGED <<store, runtime, passes, git, told, stopped, unlisted>>

(* session.abort when the task was running: its turn ends, unless the call *)
(* fails, which nobody notices.                                            *)
Abort(a) ==
  LET one == Head(act[a].todo)
      c == one.rec.child
  IN /\ At(a, "abort")
     /\ \/ /\ one.rec.status = "running" /\ session[c] = "busy"
           /\ session' = [session EXCEPT ![c] = "idle"]
           /\ owed' = owed \cup {<<"idle", c>>}
        \/ /\ ~(one.rec.status = "running" /\ session[c] = "busy") \/ "rejected" \in Failures
           /\ UNCHANGED runtime
     /\ act' = [act EXCEPT ![a] = [@ EXCEPT !.pc = "cancel", !.t = one.t, !.rec = one.rec]]
     /\ UNCHANGED <<store, passes, calls, git, told, stopped, unlisted>>

CancelTask(a) ==
  /\ At(a, "cancel")
  /\ IF CanMove(a, "cancelled")
     THEN Move(a, "cancelled") /\ Go(a, "waive", store'[act[a].t])
     ELSE Throw(a) /\ UNCHANGED store
  /\ UNCHANGED <<runtime, passes, calls, git, told, stopped, unlisted>>

Waive(a) ==
  /\ At(a, "waive") /\ SetFollowThrough(a, "waived")
  /\ IF act[a].kind = "cancel" /\ Len(act[a].todo) > 1
     THEN act' = [act EXCEPT ![a].pc = "abort", ![a].todo = Tail(@)] /\ UNCHANGED passes
     ELSE Leave(a) /\ passes' = IF act[a].kind = "cancel" THEN More(passes) ELSE passes
  /\ UNCHANGED <<runtime, calls, git, told, stopped, unlisted>>

(* The user stops the root's continuation.                                 *)
Stop ==
  /\ "stop" \in Tools /\ ~stopped /\ stopped' = TRUE
  /\ UNCHANGED <<store, runtime, act, passes, calls, git, told, unlisted>>

-----------------------------------------------------------------------------
Refresh(a) == ReadStatus(a) \/ SessionFailed(a) \/ Telemetry(a) \/ SaveStale(a) \/ BlockStale(a)
Integration(a) == Integrate(a) \/ CheckRoot(a) \/ Merge(a) \/ RecordMerge(a) \/ SettleOutcome(a) \/ Cleanup(a)
FollowThrough(a) == Follow(a) \/ ReadMode(a) \/ TellRoot(a) \/ Followed(a)
Pass == BeginPass \/ Promote \/ MarkRunning \/ LaunchFailed

Foreground(a) ==
  \/ \E k \in Keys, bg \in BOOLEAN, mode \in Modes, c \in Children : Restart(a, k, bg, mode, c)
  \/ Send(a) \/ Answered(a) \/ FailForeground(a)
ToolStep(a) == Foreground(a) \/ LookAgain(a) \/ Consume(a) \/ Abort(a) \/ CancelTask(a) \/ Waive(a)

ToolCall(a) ==
  \/ \E t \in Tasks, k \in Keys, bg \in BOOLEAN, mode \in Modes, c \in Children :
       Launch(a, t, k, bg, mode, c)
  \/ \E t \in Tasks : Continue(a, t) \/ Output(a, t) \/ Cancel(a, t)
  \/ CancelAll(a)

Event == \E h \in Handlers, type \in {"idle", "error", "interrupt"}, c \in Children : Deliver(h, type, c)

Work(a) ==
  Refresh(a) \/ Integration(a) \/ FollowThrough(a) \/ SessionEvent(a) \/ ToolStep(a)

Next ==
  \/ \E a \in Actors : Work(a)
  \/ Pass
  \/ Event
  \/ \E a \in Callers : ToolCall(a)
  \/ \E c \in Children : SessionEnds(c)
  \/ Stop

Spec == Init /\ [][Next]_vars

-----------------------------------------------------------------------------
Pcs == {"status", "sessionFailed", "telemetry", "stale", "block", "integrate", "root", "merge",
        "record", "settle", "cleanup", "follow", "mode", "tell", "followed", "error", "interrupt",
        "count", "launched", "unlaunched", "restart", "send", "await", "launchFailed", "look",
        "consume", "abort", "cancel", "waive"}

Kinds == {"idle", "error", "interrupt", "pass", "foreground", "continue", "output", "cancel", "waive"}

Outs == {"none", "busy", "unknown", "idle", "error", "passed", "pending", "delivered"} \cup DOMAIN Outcome

Activations == [pc : Pcs, kind : Kinds, t : Tasks, rec : Record, out : Outs,
                todo : Seq([t : Tasks, rec : Record])]

(* Types; the records stay well formed, and a worktree has its branch.     *)
TypeOK ==
  /\ store \in Store /\ WellFormed(store)
  /\ session \in [Children -> {"unused", "created", "busy", "idle", "error"}]
  /\ owed \subseteq {"idle", "error", "interrupt"} \X Children
  /\ calls \in 0..MaxCalls /\ passes \in Nat
  /\ act \in [Actors -> {Idle} \cup Activations]
  /\ tree \subseteq branches /\ branches \subseteq Tasks /\ merged \subseteq Tasks
  /\ told \in [Children -> Nat] /\ stopped \in BOOLEAN
  /\ unlisted \subseteq Tasks

(* No agent has more background tasks running than the limit allows, as    *)
(* long as no task changes its agent: a pass counts for the agent that the *)
(* task had when it was listed, also when it was continued meanwhile.      *)
AgentsStay == "continue" \notin Tools \/ \A k, l \in Keys : k = l

RunningCap == AgentsStay => \A k \in Keys : Cardinality(Running(k)) <= MaxRunning

(* An outcome changes only when the task is continued in a new session.    *)
OutcomesFixed ==
  [][\A t \in Tasks : store[t].status \in Terminal /\ store'[t].status # store[t].status
                        => store'[t].child # store[t].child]_store

Quiet == passes = 0 /\ owed = {} /\ \A a \in Actors : act[a] = Idle

(* When nothing is going on, a background task that could run waits only   *)
(* because its agent is at the limit, or because the latest pass saw it    *)
(* and cut it off its list.  Not so with background_output, with a         *)
(* continued task, with cancel-all or when a call rejects: then a task may *)
(* end and no pass is asked for.                                           *)
PassesAsked == Tools \cap {"continue", "output", "cancelAll"} = {} /\ "rejected" \notin Failures

NoIdleCapacity ==
  PassesAsked /\ Quiet => \A t \in Tasks : store[t].bg /\ Promotable(t) /\ t \notin unlisted
                            => Cardinality(Running(store[t].key)) >= MaxRunning

(* A foreground call that is over leaves nothing running in its session.   *)
ForegroundEnds ==
  [][\A a \in Callers : ~At(a, "idle") /\ act'[a] = Idle =>
       ~(act[a].kind = "foreground" /\ store'[act[a].t].status = "running"
         /\ store'[act[a].t].child = My(a).child)]_act

(* The root hears of a child session only when its task no longer runs in  *)
(* it.  Not so when the task could be blocked, as it may be promoted again *)
(* in that session, nor when tasks are continued: the prompt is sent for   *)
(* the record that noting it returns, which may be of the next run.        *)
CanBeBlocked(t) == t \in TinyTasks \/ store[t].exec.mode = "worktree"

ToldWhenOver ==
  [][\A c \in Children : "continue" \notin Tools /\ told'[c] # told[c] =>
       \A t \in RunningWith(c) : CanBeBlocked(t)]_vars

(* However the writes to a record overlap, it says merged only of a task   *)
(* whose branch has been merged into the root.                             *)
MergedIsTrue == \A t \in Tasks : store[t].exec.merge = "merged" => t \in merged

(* "waives root follow-through when background work is explicitly          *)
(* cancelled": a waiver stands as long as the session does.                *)
WaiverStands ==
  [][\A t \in Tasks : store[t].status = "cancelled" /\ store[t].exec.ft = "waived" =>
       store'[t].exec.ft = "waived" \/ store'[t].child # store[t].child]_store

(* Every step that is due is taken, sessions end their turns and their     *)
(* events arrive.  Nobody has to call a tool.                              *)
Fairness ==
  /\ \A a \in Actors : WF_vars(Work(a))
  /\ WF_vars(Pass) /\ WF_vars(Event)
  /\ \A c \in Children : WF_vars(SessionEnds(c))

FairSpec == Spec /\ Fairness

Unheard(t, c) ==
  /\ store[t].child = c /\ store[t].bg /\ store[t].status \in {"succeeded", "failed"}
  /\ store[t].exec.ft = "pending" /\ told[c] = 0

(* The root is told of a background task that ends of itself, unless its   *)
(* continuation is stopped.  Not so when the prompt fails, as it is never  *)
(* sent again, nor when another session's background_output ends the task. *)
RootHears ==
  \A t \in Tasks, c \in Children : Unheard(t, c) ~> ~Unheard(t, c) \/ stopped

(* "auto-resumes the root session once after background child completion": *)
(* a background session that completes its turn is followed by a prompt to *)
(* the root.                                                               *)
RootResumed ==
  \A t \in Tasks, c \in Children :
    store[t].child = c /\ store[t].bg /\ session[c] = "idle" ~> told[c] > 0
=============================================================================
