------------------------------ MODULE JobQueue ------------------------------
(***************************************************************************)
(* The priority job queue of the code-intel package,                       *)
(* src/packages/code-intel/src/indexing/job-queue.ts (createJobQueue).     *)
(*                                                                         *)
(* JavaScript runs each synchronous stretch of the queue without           *)
(* interruption, so one action is one such stretch: a public method, or    *)
(* the continuation of processJob after Promise.race has settled.  What    *)
(* interleaves is the order of those stretches: callers, executions that   *)
(* finish or fail, timeouts, and executions whose timeout has already      *)
(* been reported but whose work is still going on.                         *)
(***************************************************************************)
EXTENDS Integers, Sequences, FiniteSets

CONSTANTS
  MaxJobs,        \* bound: how many jobs are ever enqueued
  Ticks,          \* bound: clock advances between two enqueues
  Waits,          \* FALSE: callers of enqueue; TRUE: of enqueueAndWait
  Priorities,     \* the PRIORITY_WEIGHT values in use (0 is served first)
  Concurrency,    \* config.concurrency
  MaxQueueSize,   \* config.maxQueueSize
  MaxRetries      \* config.maxRetries; 0 stands for retryOnFailure = false

ASSUME ConstantsAssumption ==
  /\ MaxJobs \in Nat
  /\ Ticks \subseteq Nat
  /\ Waits \subseteq BOOLEAN
  /\ Priorities \subseteq Nat
  /\ Concurrency \in Nat \ {0}
  /\ MaxQueueSize \in Nat
  /\ MaxRetries \in Nat

VARIABLES
  jobs,           \* the ids handed out so far: 1..jobs
  priority,       \* job -> priority
  createdAt,      \* job -> Date.now() when it was enqueued
  status,         \* job -> Job.status
  pendingJobs,    \* the array of waiting jobs, in service order
  runningJobs,    \* keys of the runningJobs map
  completedJobs,  \* keys of the completedJobs map, in insertion order
  retryCount,     \* job -> failed attempts that were retried
  promise,        \* job -> state of the promise enqueueAndWait returned
  executing,      \* job -> calls of execute() that have not ended yet
  paused, shuttingDown,
  draining,       \* a drain() call is polling
  shutdownCall,   \* the shutdown() call: "none", "polling" or "returned"
  hung            \* the event loop is stuck in resume()'s while loop

vars == <<jobs, priority, createdAt, status, pendingJobs, runningJobs,
          completedJobs, retryCount, promise, executing, paused, shuttingDown,
          draining, shutdownCall, hung>>

JobId     == 1..MaxJobs
Status    == {"unused", "pending", "running", "completed", "failed", "cancelled"}
Promises  == {"none", "waiting", "resolved", "rejected"}
InQueue   == {pendingJobs[i] : i \in 1..Len(pendingJobs)}

(* Mutant of PushSorted: the queue is not sorted after the push.           *)
PushUnsorted(s, p, c, j) == Append(s, j)

(* The comparator of sortQueue: Array.prototype.sort is stable, so a job   *)
(* pushed at the end moves in front of exactly the jobs it precedes.       *)
Before(p, c, j, k) == p[j] < p[k] \/ (p[j] = p[k] /\ c[j] < c[k])

PushSorted(s, p, c, j) ==
  LET ahead == Cardinality({i \in 1..Len(s) : ~Before(p, c, j, s[i])})
  IN [i \in 1..(Len(s) + 1) |-> IF i <= ahead THEN s[i]
                                ELSE IF i = ahead + 1 THEN j ELSE s[i - 1]]

(* Map.set on the completedJobs map: a key that is there keeps its place.  *)
Record(done, j) ==
  IF \E i \in 1..Len(done) : done[i] = j THEN done ELSE Append(done, j)

(* The trim in processJob's finally: at most one entry, the oldest.        *)
Trim(done) == IF Len(done) > MaxQueueSize THEN Tail(done) ELSE done

Init ==
  /\ jobs = 0
  /\ priority = [j \in JobId |-> 0]
  /\ createdAt = [j \in JobId |-> 0]
  /\ status = [j \in JobId |-> "unused"]
  /\ pendingJobs = <<>> /\ runningJobs = {} /\ completedJobs = <<>>
  /\ retryCount = [j \in JobId |-> 0]
  /\ promise = [j \in JobId |-> "none"]
  /\ executing = [j \in JobId |-> 0]
  /\ paused = FALSE /\ shuttingDown = FALSE
  /\ draining = FALSE /\ shutdownCall = "none" /\ hung = FALSE

-----------------------------------------------------------------------------
(* Mutant of CanStart: shutdown is not looked at.                          *)
CanStartInShutdown(q, r) == ~paused /\ Cardinality(r) < Concurrency /\ q # <<>>

(* processNext and the synchronous head of processJob, on a queue, a set   *)
(* of running jobs and a status map that the calling stretch has updated.  *)
CanStart(q, r) ==
  ~paused /\ ~shuttingDown /\ Cardinality(r) < Concurrency /\ q # <<>>

ProcessNext(q, r, st) ==
  IF CanStart(q, r)
  THEN /\ pendingJobs' = Tail(q)
       /\ runningJobs' = r \cup {Head(q)}
       /\ status' = [st EXCEPT ![Head(q)] = "running"]
  ELSE pendingJobs' = q /\ runningJobs' = r /\ status' = st

(* The jobs ProcessNext has just taken from q have their execute() called. *)
Started(q) == {j \in runningJobs' : \E i \in 1..Len(q) : q[i] = j}

Enqueue(prio, tick, wait) ==
  LET j == jobs + 1
      now == (IF jobs = 0 THEN 0 ELSE createdAt[jobs]) + tick
      p == [priority EXCEPT ![j] = prio]
      c == [createdAt EXCEPT ![j] = now]
      q == PushSorted(pendingJobs, p, c, j)
  IN /\ jobs < MaxJobs
     /\ ~shuttingDown
     /\ Len(pendingJobs) < MaxQueueSize
     /\ jobs' = j /\ priority' = p /\ createdAt' = c
     /\ ProcessNext(q, runningJobs, [status EXCEPT ![j] = "pending"])
     /\ promise' = [promise EXCEPT ![j] = IF wait THEN "waiting" ELSE "none"]
     /\ executing' = [k \in JobId |->
                        executing[k] + IF k \in Started(q) THEN 1 ELSE 0]
     /\ UNCHANGED <<completedJobs, retryCount, paused, shuttingDown, draining,
                    shutdownCall, hung>>

-----------------------------------------------------------------------------
(* processJob after the race: ended says whether this attempt's execute()  *)
(* has itself ended (it has not when the timeout won).                     *)
Settle(j, q, st, ended) ==
  /\ ProcessNext(q, runningJobs \ {j}, st)
  /\ completedJobs' = Trim(Record(completedJobs, j))
  /\ executing' = [k \in JobId |->
                     (executing[k] - IF k = j /\ ended THEN 1 ELSE 0)
                        + IF k \in Started(q) THEN 1 ELSE 0]
  /\ UNCHANGED <<jobs, priority, createdAt, paused, shuttingDown, draining,
                 shutdownCall, hung>>

(* Mutant of SettlePromise: the waiter of a failed job is forgotten.       *)
SettleSuccessOnly(j, outcome) ==
  IF promise[j] = "waiting" /\ outcome = "resolved"
  THEN [promise EXCEPT ![j] = outcome] ELSE promise

SettlePromise(j, outcome) ==
  IF promise[j] = "waiting" THEN [promise EXCEPT ![j] = outcome] ELSE promise

Complete(j) ==
  /\ j \in runningJobs
  /\ Settle(j, pendingJobs, [status EXCEPT ![j] = "completed"], TRUE)
  /\ promise' = SettlePromise(j, "resolved")
  /\ UNCHANGED retryCount

(* Mutant of CanRetry: one retry too many.                                 *)
CanRetryOnceMore(j) == retryCount[j] <= MaxRetries

CanRetry(j) == retryCount[j] < MaxRetries

Retry(j, ended) ==
  /\ j \in runningJobs
  /\ CanRetry(j)
  /\ Settle(j, PushSorted(pendingJobs, priority, createdAt, j),
            [status EXCEPT ![j] = "pending"], ended)
  /\ retryCount' = [retryCount EXCEPT ![j] = @ + 1]
  /\ UNCHANGED promise

Fail(j, ended) ==
  /\ j \in runningJobs
  /\ ~CanRetry(j)
  /\ Settle(j, pendingJobs, [status EXCEPT ![j] = "failed"], ended)
  /\ promise' = SettlePromise(j, "rejected")
  /\ UNCHANGED retryCount

(* An execute() whose attempt has already timed out ends: the race is over *)
(* and nobody looks at its outcome.                                        *)
LateEnd(j) ==
  /\ executing[j] > (IF j \in runningJobs THEN 1 ELSE 0)
  /\ executing' = [executing EXCEPT ![j] = @ - 1]
  /\ UNCHANGED <<jobs, priority, createdAt, status, pendingJobs, runningJobs,
                 completedJobs, retryCount, promise, paused, shuttingDown,
                 draining, shutdownCall, hung>>

-----------------------------------------------------------------------------
(* Mutant of RejectAll: cancelled jobs leave their waiters alone.          *)
RejectNone(S) == promise

RejectAll(S) == [j \in JobId |-> IF j \in S /\ promise[j] = "waiting"
                                 THEN "rejected" ELSE promise[j]]

Cancel(i) ==
  LET j == pendingJobs[i]
  IN /\ i \in 1..Len(pendingJobs)
     /\ status' = [status EXCEPT ![j] = "cancelled"]
     /\ pendingJobs' = [k \in 1..(Len(pendingJobs) - 1) |->
                          IF k < i THEN pendingJobs[k] ELSE pendingJobs[k + 1]]
     /\ completedJobs' = Record(completedJobs, j)
     /\ promise' = RejectAll({j})
     /\ UNCHANGED <<jobs, priority, createdAt, runningJobs, retryCount,
                    executing, paused, shuttingDown, draining, shutdownCall,
                    hung>>

(* cancelAll records the cancelled jobs in queue order.                    *)
RecordAll(done, q) ==
  LET upTo[i \in 0..Len(q)] == IF i = 0 THEN done
                               ELSE Record(upTo[i - 1], q[i])
  IN upTo[Len(q)]

CancelPending ==
  /\ status' = [j \in JobId |-> IF j \in InQueue THEN "cancelled" ELSE status[j]]
  /\ completedJobs' = RecordAll(completedJobs, pendingJobs)
  /\ promise' = RejectAll(InQueue)
  /\ pendingJobs' = <<>>
  /\ UNCHANGED <<jobs, priority, createdAt, runningJobs, retryCount, executing,
                 paused, draining, hung>>

CancelAll == CancelPending /\ UNCHANGED <<shuttingDown, shutdownCall>>

Shutdown ==
  /\ shutdownCall = "none"
  /\ shuttingDown' = TRUE
  /\ shutdownCall' = IF runningJobs = {} THEN "returned" ELSE "polling"
  /\ CancelPending

ShutdownPoll ==
  /\ shutdownCall = "polling" /\ runningJobs = {}
  /\ shutdownCall' = "returned"
  /\ UNCHANGED <<jobs, priority, createdAt, status, pendingJobs, runningJobs,
                 completedJobs, retryCount, promise, executing, paused,
                 shuttingDown, draining, hung>>

Drain ==
  /\ ~draining
  /\ draining' = (pendingJobs # <<>> \/ runningJobs # {})
  /\ UNCHANGED <<jobs, priority, createdAt, status, pendingJobs, runningJobs,
                 completedJobs, retryCount, promise, executing, paused,
                 shuttingDown, shutdownCall, hung>>

DrainPoll ==
  /\ draining /\ pendingJobs = <<>> /\ runningJobs = {}
  /\ draining' = FALSE
  /\ UNCHANGED <<jobs, priority, createdAt, status, pendingJobs, runningJobs,
                 completedJobs, retryCount, promise, executing, paused,
                 shuttingDown, shutdownCall, hung>>

Pause ==
  /\ paused' = TRUE
  /\ UNCHANGED <<jobs, priority, createdAt, status, pendingJobs, runningJobs,
                 completedJobs, retryCount, promise, executing, shuttingDown,
                 draining, shutdownCall, hung>>

(* Mutant of Resume: the flag is cleared and nothing is started.           *)
ResumeIdle ==
  /\ paused' = FALSE
  /\ UNCHANGED <<jobs, priority, createdAt, status, pendingJobs, runningJobs,
                 completedJobs, retryCount, promise, executing, shuttingDown,
                 draining, shutdownCall, hung>>

(* resume() starts jobs until the queue is full or empty.  Once the queue  *)
(* is shutting down processNext starts nothing, so a non-empty queue keeps *)
(* the synchronous loop, and with it the whole process, spinning.          *)
Resume ==
  LET n == IF shuttingDown \/ Concurrency <= Cardinality(runningJobs) THEN 0
           ELSE IF Len(pendingJobs) < Concurrency - Cardinality(runningJobs)
                THEN Len(pendingJobs)
                ELSE Concurrency - Cardinality(runningJobs)
      started == {pendingJobs[i] : i \in 1..n}
  IN /\ paused' = FALSE
     /\ pendingJobs' = SubSeq(pendingJobs, n + 1, Len(pendingJobs))
     /\ runningJobs' = runningJobs \cup started
     /\ status' = [j \in JobId |-> IF j \in started THEN "running" ELSE status[j]]
     /\ executing' = [j \in JobId |->
                        executing[j] + IF j \in started THEN 1 ELSE 0]
     /\ hung' = (/\ shuttingDown /\ pendingJobs # <<>>
                 /\ Cardinality(runningJobs) < Concurrency)
     /\ UNCHANGED <<jobs, priority, createdAt, completedJobs, retryCount,
                    promise, shuttingDown, draining, shutdownCall>>

-----------------------------------------------------------------------------
Attempt(j) ==
  \/ Complete(j)
  \/ \E ended \in BOOLEAN : Retry(j, ended) \/ Fail(j, ended)

Next ==
  /\ ~hung
  /\ \/ \E prio \in Priorities, tick \in Ticks, wait \in Waits :
          Enqueue(prio, tick, wait)
     \/ \E j \in JobId : Attempt(j) \/ LateEnd(j)
     \/ \E i \in 1..MaxJobs : Cancel(i)
     \/ CancelAll \/ Pause \/ Resume
     \/ Shutdown \/ ShutdownPoll \/ Drain \/ DrainPoll

(* Fairness: every attempt ends, because the race includes jobTimeout; the *)
(* 50 ms polls of drain and shutdown run.  Callers owe nothing.            *)
Fairness ==
  /\ \A j \in JobId : WF_vars(~hung /\ Attempt(j))
  /\ WF_vars(~hung /\ ShutdownPoll)
  /\ WF_vars(~hung /\ DrainPoll)

Spec == Init /\ [][Next]_vars /\ Fairness

-----------------------------------------------------------------------------
(* Types; each job is in one place, which its status names, whatever       *)
(* retries, cancellations and shutdown do; it is never retried more than   *)
(* MaxRetries times, and at most MaxRetries + 1 of its executions go on at *)
(* once; slots and queue are bounded although a retry skips enqueue's      *)
(* check of the capacity.                                                  *)
TypeOK ==
  /\ \A i, k \in 1..Len(pendingJobs) : pendingJobs[i] = pendingJobs[k] => i = k
  /\ \A j \in JobId : /\ status[j] = "pending" <=> j \in InQueue
                      /\ status[j] = "running" <=> j \in runningJobs
  /\ Cardinality(runningJobs) <= Concurrency
  /\ Len(pendingJobs) + Cardinality(runningJobs) <= MaxQueueSize + Concurrency
  /\ jobs \in 0..MaxJobs
  /\ priority \in [JobId -> Nat]
  /\ createdAt \in [JobId -> Nat]
  /\ status \in [JobId -> Status]
  /\ pendingJobs \in Seq(JobId)
  /\ runningJobs \in SUBSET JobId
  /\ completedJobs \in Seq(JobId)
  /\ retryCount \in [JobId -> 0..MaxRetries]
  /\ promise \in [JobId -> Promises]
  /\ executing \in [JobId -> 0..(MaxRetries + 1)]
  /\ paused \in BOOLEAN /\ shuttingDown \in BOOLEAN
  /\ draining \in BOOLEAN /\ hung \in BOOLEAN
  /\ shutdownCall \in {"none", "polling", "returned"}

(* No job waits while a slot is free: processNext runs after every enqueue *)
(* and every settled attempt, and resume() fills all slots.                *)
WorkConserving ==
  ~paused /\ ~shuttingDown =>
    Cardinality(runningJobs) = Concurrency \/ pendingJobs = <<>>

(* A promise from enqueueAndWait is open exactly while its job is queued   *)
(* or running, and afterwards says what became of the job.                 *)
PromisesHonest ==
  \A j \in JobId :
    /\ promise[j] = "waiting" => j \in InQueue \cup runningJobs
    /\ promise[j] = "resolved" => status[j] = "completed"
    /\ promise[j] = "rejected" => status[j] \in {"failed", "cancelled"}

(* When a queued job starts, no job left in the queue has a stronger       *)
(* priority, nor the same priority and an earlier createdAt: a retried job *)
(* goes back in front of the younger ones.                                 *)
ServiceOrder ==
  [][\A j \in InQueue, k \in InQueue' :
       j \in runningJobs' => ~Before(priority, createdAt, k, j)]_vars

(* After shutdown() is called no execution starts any more, not even the   *)
(* retry of a job that was running when it was called.                     *)
QuietAfterShutdown ==
  [][shuttingDown => /\ runningJobs' \subseteq runningJobs
                     /\ \A j \in JobId : executing'[j] <= executing[j]]_vars

(* Every awaited job is settled if the queue is neither paused for ever    *)
(* nor shut down (the workload is finite: MaxJobs).                        *)
PromisesSettle ==
  <>[](~paused /\ ~shuttingDown) =>
    \A j \in JobId : (promise[j] = "waiting") ~> (promise[j] # "waiting")

=============================================================================
