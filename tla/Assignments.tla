----------------------------- MODULE Assignments -----------------------------
(***************************************************************************)
(* The manager (CAID) workflow of delegation/src/index.ts: one task that   *)
(* belongs to the manager is worked on in a worktree, merged, and reviewed *)
(* before it is over; a merge that conflicts or finds a dirty root is      *)
(* retried by continuing the task.  A task becomes the manager's by the    *)
(* assignment createTask is given.  Continuations, session events and      *)
(* promotion passes are actors that keep a copy of the record, as in       *)
(* Delegation, which has what tasks without an assignment do, follow-      *)
(* through and the events error and interrupt.                             *)
(***************************************************************************)
EXTENDS Integers

CONSTANTS
  Actors,            \* tool calls and event handlers that may be under way at once
  Agents,            \* agents a continuation may name, "reviewer" among them
  Editors,           \* those that work in a worktree
  Own,               \* the task's own agent, an editor
  MaxContinuations,  \* bound: continuations ever begun
  MaxEvents          \* bound: changes a user makes in the repository

VARIABLES
  record,   \* the task
  worktree,     \* its worktree exists
  branch,   \* its branch, compared with the base branch
  rootDirty,    \* the repository root has uncommitted changes
  actor,    \* actor -> what it is doing
  ended,    \* the idle event of its child session is still to be delivered
  continuations, events,
  unreviewed, \* something has been merged that no review has looked at since
  gate        \* what has happened to the review that nothing guards against

vars == <<record, worktree, branch, rootDirty, actor, ended, continuations, events, unreviewed, gate>>
repository == <<worktree, branch, rootDirty, events>>
ghosts == <<unreviewed, gate>>

Statuses == {"queued", "running", "blocked", "succeeded", "failed", "cancelled"}
Unassigned == [review |-> "none", reason |-> "none", retry |-> "idle"]

(* A task as createTask makes it, for a call in the foreground or not.     *)
Created(bg) ==
  [status |-> IF bg THEN "queued" ELSE "running", bg |-> bg, by |-> Own, child |-> 0,
   asg |-> Unassigned, mode |-> "worktree"]

Asleep == [pc |-> "idle", by |-> Own, bg |-> FALSE, event |-> FALSE, child |-> 0,
           task |-> Created(TRUE), out |-> "none"]

(* A task in the foreground has the call that began it waiting.            *)
Started(agent, child, task) ==
  [Asleep EXCEPT !.pc = "prompt", !.by = agent, !.child = child, !.task = task]

Init ==
  /\ \E bg \in BOOLEAN : record = Created(bg)
  /\ \E a \in Actors :
       actor = [x \in Actors |-> IF x = a /\ ~record.bg THEN Started(Own, 0, record) ELSE Asleep]
  /\ worktree = TRUE /\ branch = "even" /\ rootDirty = FALSE
  /\ ended = FALSE /\ continuations = 0 /\ events = 0
  /\ unreviewed = FALSE /\ gate = {}

At(a, pc) == actor[a].pc = pc
My(a) == actor[a].task
Go(a, pc, task) == actor' = [actor EXCEPT ![a].pc = pc, ![a].task = task]
Leave(a) == actor' = [actor EXCEPT ![a] = Asleep]

(* updateTask with an assignment made from the copy of an actor.           *)
Write(a, asg, mode) ==
  /\ record' = [record EXCEPT !.asg = asg, !.mode = mode]
  /\ gate' = IF My(a).asg = record.asg THEN gate ELSE gate \cup {"overtaken"}

(* A turn is integrated while another is, or has begun: a foreground call, *)
(* the event of its session and a continuation do not know of one another. *)
Integrating == \E a \in Actors : actor[a].pc \in {"integrate", "merge", "save", "settle", "clean"}
Joined(child) == gate' = IF Integrating \/ child # record.child THEN gate \cup {"overlap"} ELSE gate

Allowed == [queued |-> {"blocked", "running", "failed", "cancelled"},
            blocked |-> {"queued", "running", "failed", "cancelled"},
            running |-> {"blocked", "succeeded", "failed", "cancelled"},
            succeeded |-> {}, failed |-> {}, cancelled |-> {}]
CanMove(status) == status = record.status \/ status \in Allowed[record.status]

-----------------------------------------------------------------------------
(* The task tool with continue_task_id.  Three gates are passed in order,  *)
(* each seen on the copy.                                                  *)
RootGate(task) == IF task.asg.reason = "dirty_root" /\ task.asg.retry = "blocked" THEN "root" ELSE "prepare"
ResyncGate(task) == IF task.asg.retry = "resync_required" THEN "resync" ELSE RootGate(task)
ReviewGate(task) == IF task.asg.review = "pending" THEN "review" ELSE ResyncGate(task)

Admitted(agent) ==
  /\ record.status \notin {"queued", "running"}
  /\ record.asg.review = "pending" => agent = "reviewer"

Continue(a, agent, bg) ==
  /\ At(a, "idle") /\ Admitted(agent)
  /\ continuations < MaxContinuations /\ continuations' = continuations + 1
  /\ actor' = [actor EXCEPT ![a] = [Asleep EXCEPT !.pc = ReviewGate(record), !.by = agent, !.bg = bg,
                                                  !.child = continuations + 1, !.task = record]]
  /\ gate' = IF record.asg.review = "running" THEN gate \cup {"unfinished"} ELSE gate
  /\ UNCHANGED <<record, repository, ended, unreviewed>>

BeginReview(a) ==
  /\ At(a, "review")
  /\ Write(a, [My(a).asg EXCEPT !.review = "running"], record.mode)
  /\ Go(a, ResyncGate(record'), record')
  /\ UNCHANGED <<repository, ended, continuations, unreviewed>>

(* resyncManagerTaskForRetry: the state of the retry is saved, then the    *)
(* base branch is merged into the worktree.                                *)
Resync(a) ==
  /\ At(a, "resync")
  /\ \/ My(a).mode # "worktree" /\ Leave(a) /\ UNCHANGED <<record, gate>>
     \/ /\ My(a).mode = "worktree"
        /\ Write(a, [My(a).asg EXCEPT !.retry = IF rootDirty THEN "blocked" ELSE "resync_required"], record.mode)
        /\ IF rootDirty THEN Leave(a) ELSE Go(a, "replay", My(a))
  /\ UNCHANGED <<repository, ended, continuations, unreviewed>>

Replay(a) ==
  /\ At(a, "replay")
  /\ \/ ~worktree /\ Leave(a) /\ UNCHANGED <<record, gate>>
     \/ /\ worktree /\ branch = "clashing"
        /\ Write(a, [My(a).asg EXCEPT !.retry = "blocked"], record.mode) /\ Leave(a)
     \/ /\ worktree /\ branch # "clashing"
        /\ Write(a, [My(a).asg EXCEPT !.retry = "ready"], My(a).mode)
        /\ Go(a, RootGate(record'), record')
  /\ UNCHANGED <<repository, ended, continuations, unreviewed>>

CheckRoot(a) ==
  /\ At(a, "root")
  /\ \/ rootDirty /\ Leave(a) /\ UNCHANGED <<record, gate>>
     \/ /\ ~rootDirty
        /\ Write(a, [My(a).asg EXCEPT !.reason = "none", !.retry = "idle"], My(a).mode)
        /\ Go(a, "prepare", record')
  /\ UNCHANGED <<repository, ended, continuations, unreviewed>>

(* prepareTaskExecution and createChildSessionForTask.  Either may fail.   *)
(* The execution is direct if the agent or the prompt asks for no more, or *)
(* git cannot do better: a branch that was kept is not created again.      *)
Prepare(a) ==
  /\ At(a, "prepare")
  /\ \/ Leave(a) /\ UNCHANGED <<worktree, branch>>
     \/ Go(a, "restart", [My(a) EXCEPT !.mode = "direct"]) /\ UNCHANGED <<worktree, branch>>
     \/ /\ actor[a].by \in Editors /\ (worktree \/ branch = "none")
        /\ Go(a, "restart", [My(a) EXCEPT !.mode = "worktree"])
        /\ worktree' = TRUE /\ branch' = IF worktree THEN branch ELSE "even"
  /\ UNCHANGED <<record, rootDirty, events, ended, continuations, ghosts>>

(* restartTask; a task in the background is left to the promotion pass.    *)
(* Events of the session it had are ignored from now on.                   *)
Restart(a) ==
  LET bg == actor[a].bg
      new == [My(a) EXCEPT !.status = IF bg THEN "queued" ELSE "running", !.bg = bg,
                           !.by = IF bg THEN Own ELSE actor[a].by, !.child = actor[a].child]
  IN /\ At(a, "restart")
     /\ \/ record.status \in {"queued", "running"} /\ Leave(a) /\ UNCHANGED <<record, ended, gate>>
        \/ /\ record.status \notin {"queued", "running"}
           /\ record' = new /\ ended' = FALSE
           /\ gate' = gate \cup (IF My(a).asg = record.asg THEN {} ELSE {"overtaken"})
                           \cup (IF Integrating THEN {"overlap"} ELSE {})
           /\ IF bg THEN Leave(a) ELSE actor' = [actor EXCEPT ![a] = Started(actor[a].by, actor[a].child, new)]
     /\ UNCHANGED <<repository, continuations, unreviewed>>

-----------------------------------------------------------------------------
(* isPromotableTask and promoteRunnableTasks, for this task.               *)
isPromotableTask ==
  /\ record.status \in {"queued", "blocked"}
  /\ record.asg.review \notin {"pending", "running"}
  /\ record.asg.retry \notin {"blocked", "resync_required"}

promoteRunnableTasks ==
  /\ record.bg /\ isPromotableTask
  /\ \E started \in {"running", "failed"} : record' = [record EXCEPT !.status = started]
  /\ UNCHANGED <<repository, actor, ended, continuations, ghosts>>

(* A session that works in the worktree leaves changes, and settles what   *)
(* clashed, or does not.                                                   *)
Worked(mode) == branch' \in IF worktree /\ mode = "worktree" THEN {branch, "ahead"} ELSE {branch}

TurnEnds ==
  /\ record.bg /\ record.status = "running" /\ ~ended
  /\ Worked(record.mode) /\ ended' = TRUE
  /\ UNCHANGED <<record, worktree, rootDirty, events, actor, continuations, ghosts>>

PromptReturns(a) ==
  /\ At(a, "prompt")
  /\ \/ Go(a, "integrate", My(a)) /\ Joined(actor[a].child)
     \/ Go(a, "fail", My(a)) /\ UNCHANGED gate
  /\ Worked(My(a).mode) /\ ended' = (ended \/ actor[a].child = record.child)
  /\ UNCHANGED <<record, worktree, rootDirty, events, continuations, unreviewed>>

(* session.idle is delivered; only that of the present child session of a  *)
(* running task matters.                                                   *)
Idle(a) ==
  /\ At(a, "idle") /\ ended /\ ended' = FALSE
  /\ IF record.status = "running"
     THEN /\ actor' = [actor EXCEPT ![a] = [Asleep EXCEPT !.pc = "integrate", !.by = record.by, !.event = TRUE,
                                                          !.child = record.child, !.task = record]]
          /\ Joined(record.child)
     ELSE UNCHANGED <<actor, gate>>
  /\ UNCHANGED <<record, repository, continuations, unreviewed>>

-----------------------------------------------------------------------------
(* integrateWorktreeTask.  An exception ends an event handler, while the   *)
(* foreground call fails its task.                                         *)
Throw(a) == IF actor[a].event THEN Leave(a) ELSE Go(a, "fail", My(a))
Out(a, out, pc) == actor' = [actor EXCEPT ![a].out = out, ![a].pc = pc]

Integrate(a) ==
  /\ At(a, "integrate") /\ My(a).mode = "worktree"
  /\ IF ~worktree THEN Throw(a)
     ELSE \/ branch = "even" /\ Out(a, "unchanged", "save")
          \/ \E pc \in {"save", "settle"} : Out(a, "unverified", pc)
          \/ branch # "even" /\ Out(a, "verified", "merge")
  /\ UNCHANGED <<record, repository, ended, continuations, ghosts>>

IntegrateReview(a) ==
  /\ At(a, "integrate") /\ My(a).mode = "direct"
  /\ Out(a, "unchanged", "settle")
  /\ IF My(a).asg.review = "running"
     THEN /\ Write(a, [My(a).asg EXCEPT !.review = "complete"], record.mode)
          /\ unreviewed' = (unreviewed /\ actor[a].by # "reviewer")
     ELSE UNCHANGED <<record, ghosts>>
  /\ UNCHANGED <<repository, ended, continuations>>

Merge(a) ==
  /\ At(a, "merge")
  /\ \/ rootDirty /\ Out(a, "deferred", "save") /\ UNCHANGED <<branch, unreviewed>>
     \/ ~rootDirty /\ branch \in {"none", "clashing"} /\ Out(a, "conflicted", "save") /\ UNCHANGED <<branch, unreviewed>>
     \/ /\ ~rootDirty /\ branch \in {"even", "ahead"} /\ Out(a, "merged", "save")
        /\ branch' = "even" /\ unreviewed' = (unreviewed \/ branch = "ahead")
  /\ UNCHANGED <<record, worktree, rootDirty, events, ended, continuations, gate>>

Outcome == [unchanged |-> "succeeded", unverified |-> "failed", deferred |-> "succeeded",
            conflicted |-> "blocked", merged |-> "blocked"]

(* Mutant of Assigned: a merge clears the retry and forgets the review.    *)
AssignedUnreviewed(asg, out) ==
  CASE out = "deferred" -> [asg EXCEPT !.reason = "dirty_root", !.retry = "blocked"]
    [] out = "conflicted" -> [asg EXCEPT !.reason = "merge_conflict", !.retry = "resync_required"]
    [] out = "merged" -> [asg EXCEPT !.reason = "none", !.retry = "idle"]
    [] OTHER -> asg

Assigned(asg, out) ==
  CASE out = "deferred" -> [asg EXCEPT !.reason = "dirty_root", !.retry = "blocked"]
    [] out = "conflicted" -> [asg EXCEPT !.reason = "merge_conflict", !.retry = "resync_required"]
    [] out = "merged" -> [asg EXCEPT !.reason = "none", !.retry = "idle", !.review = "pending"]
    [] OTHER -> asg

Save(a) ==
  /\ At(a, "save")
  /\ Write(a, Assigned(My(a).asg, actor[a].out), My(a).mode)
  /\ Go(a, "settle", record')
  /\ UNCHANGED <<repository, ended, continuations, unreviewed>>

Settle(a) ==
  LET to == Outcome[actor[a].out]
      cleaned == My(a).mode = "worktree" /\ actor[a].out \in {"unchanged", "unverified", "merged"}
  IN /\ At(a, "settle")
     /\ \/ /\ CanMove(to) /\ record' = [record EXCEPT !.status = to]
           /\ IF cleaned THEN Go(a, "clean", record') ELSE Leave(a)
        \/ ~CanMove(to) /\ Throw(a) /\ UNCHANGED record
     /\ UNCHANGED <<repository, ended, continuations, ghosts>>

(* settleWorktreeCleanup: changes are committed first, and git keeps a     *)
(* branch that is not merged; the execution of the copy is written back.   *)
Clean(a) ==
  /\ At(a, "clean")
  /\ \/ /\ worktree' = FALSE
        /\ branch' = IF actor[a].out # "unverified" /\ branch = "even" THEN "none" ELSE branch
     \/ UNCHANGED <<worktree, branch>>
  /\ record' = [record EXCEPT !.mode = My(a).mode]
  /\ Leave(a)
  /\ UNCHANGED <<rootDirty, events, ended, continuations, ghosts>>

(* The call's catch: the task failed, if it is not over already.           *)
Fail(a) ==
  /\ At(a, "fail")
  /\ record' = IF CanMove("failed") THEN [record EXCEPT !.status = "failed"] ELSE record
  /\ Leave(a)
  /\ UNCHANGED <<repository, ended, continuations, ghosts>>

-----------------------------------------------------------------------------
(* background_cancel                                                       *)
Cancel ==
  /\ record.status \in {"queued", "blocked", "running"}
  /\ record' = [record EXCEPT !.status = "cancelled"]
  /\ UNCHANGED <<repository, actor, ended, continuations, ghosts>>

(* A user edits or commits in the root; a commit may clash with the branch.*)
RootChanges ==
  /\ events < MaxEvents /\ events' = events + 1
  /\ \/ rootDirty' = ~rootDirty /\ UNCHANGED branch
     \/ branch = "ahead" /\ branch' = "clashing" /\ UNCHANGED rootDirty
  /\ UNCHANGED <<record, worktree, actor, ended, continuations, ghosts>>

Step(a) ==
  \/ BeginReview(a) \/ Resync(a) \/ Replay(a) \/ CheckRoot(a) \/ Prepare(a) \/ Restart(a)
  \/ PromptReturns(a) \/ Idle(a)
  \/ Integrate(a) \/ IntegrateReview(a) \/ Merge(a) \/ Save(a) \/ Settle(a) \/ Clean(a) \/ Fail(a)

(* Nothing is claimed of what follows a step that gate names: a behaviour  *)
(* ends with it.                                                           *)
Next ==
  /\ gate = {}
  /\ \/ \E a \in Actors : Step(a) \/ \E agent \in Agents, bg \in BOOLEAN : Continue(a, agent, bg)
     \/ promoteRunnableTasks \/ TurnEnds \/ Cancel \/ RootChanges

-----------------------------------------------------------------------------
(* Every variable has its type.                                            *)
Assignment == [review : {"none", "pending", "running", "complete"}, reason : {"none", "dirty_root", "merge_conflict"},
               retry : {"idle", "blocked", "resync_required", "ready"}]
Record == [status : Statuses, bg : BOOLEAN, by : Agents, child : 0..MaxContinuations, asg : Assignment,
           mode : {"direct", "worktree"}]
TypeOK ==
  /\ record \in Record /\ worktree \in BOOLEAN /\ rootDirty \in BOOLEAN /\ unreviewed \in BOOLEAN
  /\ branch \in {"none", "even", "ahead", "clashing"}
  /\ \A a \in Actors : My(a) \in Record
  /\ ended \in BOOLEAN /\ gate \subseteq {"overtaken", "unfinished", "overlap"}

(* A manager's task is only over successfully once a reviewer has looked   *)
(* at what was merged for it, through conflicts, retries, dirty roots,     *)
(* cancellations and failures, unless it was continued while a review that *)
(* did not finish was still noted as running, which lets anyone in, a turn was *)
(* integrated by two handlers or while the next one began, or an           *)
(* assignment was written back over a newer one.                           *)
MergedIsReviewed == record.status = "succeeded" /\ unreviewed => gate # {}
=============================================================================
