# op1: a specification of its stateful parts

op1 is a set of plugins for the OpenCode agent runtime. Much of it turns text
into text: prompts, templates, reports. What can go wrong in ways a test hardly
reaches sits where promises, timers, files, git and session events interleave,
and in functions whose results other parts rely on. This directory models those
places in TLA+, checks them with TLC on small instances, and proves with TLAPS
what holds of them for every value of the constants.

Paths are relative to `src/packages/`.

## 1. Inventory

### Delegation (`delegation/`)

The plugin lets a *root* session hand work to *child* sessions.

- **Task store** (`state.ts`, `createTaskStateManager`). State: one JSON file,
  `task-records.json`, with a record per task (status, root session, child
  session, dependencies, creation order, concurrency key, execution,
  assignment); in memory only `mutationQueue`, a promise chain. Operations:
  `createTask`, `transitionTask`, `restartTask`, `updateTask` (each reads the
  file, changes the object and renames a new file over the old one, in the
  chain), `getTask` and the list operations (outside the chain). An older file,
  `delegations.json`, is migrated by whoever finds the current one missing.
  Hard: overlapping mutations, failing writes, crashes, the unchained migration,
  damaged and old records. Correct when: no mutation is lost, what was
  acknowledged stays, dependencies exist and are acyclic, outcomes are final,
  every call is answered.
- **Plugin** (`index.ts`). State: the store, the child sessions of the server,
  worktrees and branches in git, `promotionQueue` (a promise chain). Operations:
  the tools `task`, `background_output`, `background_cancel`; the event hook for
  `session.idle`, `session.error`, `session.interrupt` and `session.deleted`;
  promotion passes (start queued tasks, at most `MAX_RUNNING_PER_AGENT` per
  agent); follow-through (prompt the root when a background task is over);
  integration (verify a worktree, merge its branch, clean up); the manager (CAID)
  workflow with retries and a review. Hard: all of these are `async` and run at
  once; each holds a copy of a record read earlier and writes back values
  computed from it. Correct when: the limit holds, no slot stays idle, outcomes
  are final, a record that says *merged* tells the truth, a foreground call
  leaves nothing behind, the root hears of every background task that ends and
  not before it has, and what a manager's task merged was reviewed.
- **Router, task graph, agent status**: functions of texts and records. Messages,
  payloads and the TUI render.

### Code intelligence (`code-intel/`)

- **Job queue** (`indexing/job-queue.ts`): a sorted array of pending jobs, the
  maps of running and completed ones, the promises of `enqueueAndWait`, `paused`
  and `shuttingDown`. Correct when: slots are kept busy, service follows
  priority, places are bounded, each waiter is told the truth, shutdown is quiet.
  Nothing in the program creates a queue yet.
- **Index manager, hash cache, branch manager, batch processor** (`indexing/`,
  `embeddings/`): `refresh` and `rebuild`, which may run at once, write symbols,
  edges, chunks and embeddings of the files whose hash has changed. Hard: edits
  and branch switches during a run, crashes between the database and the cache
  file, failed embeddings, files that fail while the run succeeds. Correct when: what a
  refresh skips is indexed, and an undisturbed run leaves the index equal to the disk but
  for files that failed, which stay to be done. The file watcher and the
  lifecycle automaton exist but nothing starts them.
- **Extraction, queries, storage**: functions of lines and rows (chunks, inferred
  calls, fusion of ranks, token budget, graph expansion, branch comparison,
  statements over tables), and a cache of results.

### Workspace (`workspace/`)

- **Plan state** (`plan/state.ts`, `plan_save` in `index.ts`): plan registry,
  active-plan file, contexts and doc links in separate files under directory
  locks. Hard: several processes, reads that write without the lock, updates of
  two files, locks left by a crash. Correct when: the files name the same active
  plan, a plan changes its standing only by the call meant to, calls end.
- **Continuation state** (mode of each session in one file rewritten in place),
  **context scout** (patterns mined from tool outputs), **worktrees** (four tools
  over git and two tables), **hash-anchored edits**, **settings of the hooks** and the
  **hooks that follow a session** (notifications with a shared table of what was sent,
  the cutting of outputs, summaries with a cooldown), **MCP pointer** (contract,
  resolution, lifecycle manager, accounts and health), **session history** (four tools
  over what the client answers, within a scope), doctor; and an older copy of the
  delegation package.

### Others

- **LSP** (`lsp/src/client.ts`): clients with reference counts, idle cleanup,
  replacement of dead ones, timeouts, open documents; and which server a file gets.
- **Installer** (`install/`): merges three configuration files, the MCP pointer
  and its checksum, with backups. **Fast mode**: a switch per session in a file.
  **Reprompt**: layered configuration and a prompt pipeline. **ast-grep** wrapper.

How they interact: the delegation plugin reads the workspace's continuation file
before it prompts a root session; the installer writes the pointer and the
servers that the workspace plugin resolves; the rest meets only through the
OpenCode server, git and the file system. A manager's task arises only from a
record created with an assignment, which no tool of the plugin does.

`PROJECT.json` lists all components with their status, and under "hazards" every
place found where an order, a crash, a stale copy or a limit matters.

## 2. Modules

| module | models | instance for TLC |
| --- | --- | --- |
| `TaskRecords`, `TaskCalls` | records of `delegation/src/state.ts`, acceptance and effect of its operations | |
| `TaskLedger` | abstract specification: one map of records, changed by one accepted call at a time | |
| `TaskStore` | `createTaskStateManager`: file, mutation chain, readers, migration, failures, crashes; implements `TaskLedger` | `MCPlugins` |
| `JsonValues`, `TaskCodec` | what the store makes of damaged, partial and old records | `MCTaskViews` |
| `Delegation` | the plugin, `delegation/src/index.ts`, on `TaskRecords` | `MCMcp`, `MCTaskViews`, itself |
| `Assignments` | its manager workflow | `MCDiskState` |
| `DelegationRouter`, `TaskViews` | router, task graph, agent status | `MCTaskViews` |
| `WorkspaceTasks` | the older copy in `workspace/` | `MCTaskViews` |
| `JobQueue` | `job-queue.ts` | `MCCodeIntel` |
| `CodeIndex` | index manager, hash cache, branch poll, batches | `MCDiskState` |
| `Chunker`, `FileIndexing` | chunks of a file; what a run writes for its files, inferred edges, impact | `MCCodeIntel` |
| `SmartQuery` | retrieval, fusion, graph expansion, budget; the cache of results | `MCCodeIntel` |
| `Storage` | tables, statements, migration, branch comparison; vectors and their caches | `MCCodeIntel` |
| `PlanRegistry`, `PlanNotes` | the plan lifecycle and `plan_save`; merging of contexts and document links | `MCPlanRegistry` |
| `SessionModes` | continuation state | `MCDiskState` |
| `ContextScout`, `AnchoredEdit` | pattern store; anchors and edits | `MCDiskState` |
| `Worktrees` | the worktree tools and tables | `MCDiskState` |
| `Settings` | settings of the hooks and of reprompt | `MCPlugins` |
| `SessionHooks` | notifications, cutting of outputs, summaries | `MCPlugins` |
| `SessionHistory` | the tools that list, read, search and describe sessions, and paths | `MCMcp` |
| `LspManager`, `LspServers` | clients and their manager; configuration of servers | itself, `MCPlugins` |
| `FastMode` | the switch, its file and its configuration | `MCPlugins` |
| `Installer` | `main()` of the installer over the user's files | `MCDiskState` |
| `McpRuntime`, `McpAuth` | pointer contract, resolution, capability cache, lifecycle manager; servers, accounts, health | `MCMcp` |
| `*_proofs` | theorems about `TaskCalls`, `TaskStore` with its `TaskLedger`, `JobQueue`, `LspManager`, `Delegation`, `CodeIndex`, `PlanRegistry`, and the parts `MCDiskState` composes | |

Two styles. Where things interleave, a module is a state machine with an action
per stretch of code between two awaits. Where the code computes, it is a set of
operators, and the instance module states named assumptions over bounded inputs
that TLC evaluates at the start of the run (section 3).

### TaskRecords, TaskCalls, TaskLedger, TaskStore

A record keeps the fields some decision reads. `TaskRecords` defines each
operation as "accepted?" and "result"; `TaskLedger` is the store as its callers
see it; `TaskStore` has a step per `await`: `Submit` (the call joins the chain),
`Load`, `LoadLegacy`, `Migrate`, `Mutate`, `Commit` or `Reject` or `WriteFails`, the
three steps of a reader, and `Crash`. The refinement mapping is `View`: what a
reader would find on the disk now. `overwritten` records that a migration
replaced a file that had changed since it was looked for; the promises are
stated for stores where that has not happened, and the run `TaskStoreMigration`
shows that it can. `TaskCodec` is the reading of the JSON: unknown fields fall
away, a wrong enumeration drops the record, times default to now.

### Delegation

Every activation of code (a tool call, an event handler, the promotion chain) is
an actor with a program counter `pc`, the task `t`, the record `rec` it read last,
and what it has found out so far (`out`, and `todo` for a pass or a cancel-all). A
step ends at an `await` that others can overtake. Writes are those of the store:
`SetExec` replaces the whole execution by a value computed from `rec`, as
`updateTask` does; `Move` is `transitionTask`. `session` and `owed` are the server: a
session ends its turn and its event is delivered at any later time, in any
order. `tree`, `branches` and `merged` are git. `Failures` names the remote calls that
may fail: a prompt to a child or to the root that is answered with an error, and calls
that are `rejected`, which end a handler, a pass or a tool call through its `catch`; so a
handler whose prompt to the root rejects asks for no pass, and a pass loses its list. A
pass lists the `PassLimit` oldest tasks that are ready, before it leaves out those in the
foreground (`BeginPass`); `unlisted` remembers what the latest pass cut off. Preparation
of a worktree and creation of its record are one step, since nothing else knows the task
yet; so are the two awaits of `SetFollowThrough`, of `Restart` and of `Cleanup` that nothing
between them depends on. Not modelled: permission prompts, model fallback, telemetry
contents, a restart of the plugin.

`Assignments` is the part of the same file that one manager's task goes through:
continuation, merge, deferral to a dirty root, conflict and retry, review. `gate`
notes the three histories that get past the review: a review that did not finish
stays noted as running and lets anyone continue the task; two handlers integrate
one turn, the second finds nothing changed; an assignment is written back from an
old copy.

### JobQueue

JavaScript runs a synchronous stretch without interruption, so an action is one
stretch: a public method, or what `processJob` does after the race is decided,
with the `processNext` its `finally` calls. `executing` counts the calls of
`execute()` still going on: an attempt that timed out leaves its execution behind,
and `LateEnd` lets it finish whenever it likes. `promise` is what `enqueueAndWait`
handed out; `hung` is the endless loop of `resume()` when the queue is shutting
down and a retried job is pending (`job-queue.ts:377`), whose promise is then never
settled. Not modelled: statistics, a synchronous throw of `execute()`, results.

### CodeIndex, FileIndexing, Storage

In `CodeIndex` a run goes through its files one write at a time: rows, chunks,
embeddings, the stamp in the cache, and the two-step save of the cache file; edits,
branch switches and crashes come in between. A file may fail at any of its writes
(`ProcessFails`, the `catch` of `processFileInternal`): what it had written stays
(`Partly`), it gets no stamp, and the run goes on and succeeds; `failed` of the run
remembers it. `seen` notes the histories the code has no guard against (an edit under
way, a switch that no clean rebuild followed, overlap, a crash, a file that failed), and
the properties say which of them they except.
`FileIndexing` gives what one run leaves in all tables for its files, `Storage` the
keys, cascades and replacements of those tables.

### PlanRegistry, PlanNotes

The variables are the files the sessions share (`files`, `registry`, `active`,
`confirmed`), the two directory locks of `withActivePlanLifecycleMutation` and the
locks of contexts that a dead session has left. `act[s].todo` holds the steps a call
has still to take; `Program` says what each operation consists of, nested
operations are spliced in. `reg` and `seen` are the registry objects that the caller
and the nested `readActivePlanStateInternal` hold. `plan_save` chooses in one critical
section and writes in later ones. An exception releases the locks (`Throw`); a crash
leaves them for good. `overwritten` records that a list or a save has written over
something newer. Each session counts as a process of its own. Plan names are not
used again. Not modelled: imported plans, reads that see half of a file that is
being rewritten. `PlanNotes` is what one write of a context or a link makes of the
stored value.

### LspManager

A caller is one call of a tool through `withLspClient`. `slot` is the entry of the
manager's map, `refs` its count, `gate` the callers' `initPromise`; `proc`, `inbox`,
`pending` belong to a server process: it may exit at any time (`MaxExits`), answers
in any order, late or not at all. `hurt` notes that a call lost its server (it exited,
or a signal stopped it), that an initialization failed, or that two calls replaced one
client; after that the count is no longer the number of users, and `OneCountedServer`
claims nothing.

### Worktrees, SessionModes, Installer, MCDiskState

Each is the life of some files under kills, failing writes and other people:
directories and rows (`Worktrees`), one file rewritten in place with a copy beside
it (`SessionModes`), three configuration files, an index and a checksum
(`Installer`). `MCDiskState` runs these three, `CodeIndex` and `Assignments` as one
specification whose first state chooses the part: they share no file, so a
behaviour exercises one of them, and the states are the sum, not the product.
Symmetry is used there only for interchangeable runs, owners and calls.

## 3. Runs

| run | instance | states | shows |
| --- | --- | --- | --- |
| `JobQueue` | 3 jobs, 2 priorities, one slot, room for one waiting job, 1 retry | 163 k | slots busy, service order, honest promises, bounds, quiet shutdown, waiters are settled |
| `TaskStore` | 3 tasks in a dependency chain, 2 clients, 1 reader, 8 calls, 3 initial disks | 212 k | mutations are atomic and durable; refinement of the ledger |
| `TaskStoreMigration` | same | counterexample | the unchained migration loses a record |
| `Delegation` | 3 tasks, limit 1, passes that list 2, 1 handler, 1 caller, 3 tool calls, failing launches | 2.38 M | limit, no idle capacity |
| `DelegationWorktree` | 1 task, 2 sessions, every tool, 2 tool calls, all failures | 1.49 M | merges, final outcomes, foreground calls |
| `DelegationLive` | 1 task, 2 handlers, stop | 33 k | the root hears, and not too early |
| `DelegationResume` | 1 task | counterexample | an idle event that arrives too early is dropped |
| `DelegationWaiver` | 1 task | counterexample | a stale write undoes a waiver |
| `PlanRegistry` | 2 plans, 2 sessions, 2 calls, 1 crash, 1 edit by others | 390 k | files agree, guarded lifecycle, calls end |
| `PlanRegistryList` | 2 plans, 2 sessions, archive and list | counterexample | a list undoes an archive |
| `LspManager` | 2 callers, 3 calls, 1 exit | 293 k | counts, documents, answers, calls end, servers stop |
| `DiskState` | the five parts | 1.94 M | index, installation, worktrees, modes, review |

### Bounds

- `JobQueue`: three jobs are the least with one running and retried, one waiting and
  one that overtakes or is refused; with room for one waiting job a retry exceeds the
  capacity that `enqueue` checks. One retry already gives an overlap of two executions
  and a final failure. `Ticks` and `Priorities` are what clocks and callers may give.
- `TaskStore`: two queued mutations give every overlap that a chain allows, one
  reader the migration race; the calls include accepted and refused ones of all four
  operations.
- `Delegation`: `MaxSessions` and `MaxCalls` bound the child sessions and tool calls of a
  behaviour. With a limit of one, tasks compete for the slot. `PassLimit` is 100 in the
  code; at 2, three tasks that are ready are one more than a pass lists, and where there
  is one task it is 1. `MaxCount` only keeps two counters finite (passes asked for, prompts
  to a root) and is positive, or no request could be recorded; no property tells apart
  values above 1. A handler, a tool
  call and the promotion chain already overlap in threes on one record;
  `DelegationLive` has two handlers, since two events of one session (an error is
  followed by idle) are what could tell the root too early or not at all.
- `PlanRegistry`: one plan is active and one is a draft or is still to be written, so
  a fallback exists or not; the locks let two calls overlap only at their edges or
  when one is a list or a save; a crash matters through what it leaves to one later call.
- `LspManager`: two calls share a server, a third finds what they left.
- `DiskState`: one file, two branches, two runs, four runs begun, failures of a file, edits,
  switches or crashes, and contents up to version 3; two runs of the installer, one edit, three initial disks, two sets of
  answers; two sessions, two calls, two names, four tools and two changes in a worktree;
  one session with three mutations of its mode; two agents, two continuations, one
  change in the repository.
- The assumptions of the instance modules range over two or three names, files or
  records in every combination the text of the assumption names; the manager of
  `McpRuntime` is followed for 16 steps with two starts and two closes, the summaries
  of `SessionHooks` with two callers until no step adds a state.

Deadlock is checked for `TaskStore`. Everything else may come to rest when its
bounded calls are used up, or when the queue's process hangs: `CHECK_DEADLOCK FALSE`.

### Fairness

- `JobQueue`: each attempt ends, because the race includes `jobTimeout`; the 50 ms
  polls of `drain` and `shutdown` run. Nothing is assumed of callers, nor of executions
  whose timeout has passed. Liveness is claimed only for queues that end up neither
  paused nor shut down.
- `TaskStore`: the event loop goes on with the mutation at the head of the chain.
  Readers and clients owe nothing. A crash answers nobody: it ends the waiting.
- `Delegation` (`FairSpec`): a step that is due is taken, sessions end their turns,
  and their events arrive. Nobody needs to call a tool.
- `PlanRegistry`: as long as calls are under way one of them gets on; a wait for a lock
  that stays taken ends after five seconds (`GiveUp`). Nobody needs to begin a call.
- `LspManager`: a call takes its next step when it can, a request that is not answered
  times out, the cleanup timer fires. Servers owe nothing.

### Assumptions that TLC evaluates

| module | assumptions |
| --- | --- |
| `MCDiskState` | installer: `MergeKeepsSettings`, `MergeIsIdempotent`; edits: `EditsAcceptedExactly`, `EditsReplaceOnly`, `EditsCommute`, `EdgesOfPartialReads`; scout: `ScoutShowsTheBest`, `ScoutKeepsToRoots` |
| `MCPlanRegistry` | `NotesAccumulate`, `NotesOrderFree`, `TornIsForgotten`, `DocsBidirectional` |
| `MCCodeIntel` | chunks: `ChunksCoverFiles`; cache: `CacheAnswersLastSet`; queries: `GraphIsExpandedByDistance`, `ContextsAreKept`, `BudgetsAreKept`, `FusionKeepsAgreement`, `SignalsAreMonotone`, `QuestionsAreAlternatives`; indexing: `CallsOfVariablesAreLost`, `EdgesInAreLost`, `KeywordsFollowTheLast`, `InferredCallsAreNotSeen`, `ImpactGoesRound`, `BranchesAreCompared`; vectors: `VectorsAreOfOneModel`, `CachesAreTheirOwn`, `NearestAreFound`, `HybridLooksElsewhere` |
| `MCTaskViews` | `RoutingIsAccountable`, `KeywordsOnlyAdd`, `TasksAreAllDrawn`, `TaskListsAgree`, `OneTaskSetsTheHealth`, `RecordsSettle`, `DamageStaysWhereItIs`, `AssignmentsNameTheDependencies`, `OldTasksAreOrderly`, `OldReadsNew` |
| `MCPlugins` | `ServersAreListed`, `NearestServerWins`, `HookSettingsAreOne`, `NearestSettingCounts`, `SectionsReadAlike`, `RepromptIsLayered`, `FastModeFollowsTheCalls`, `SavedSwitchesReadBack`, `FastModeNeedsBoth`, `ProjectOverrulesFastMode`; sessions: `QuietHoursAreOne`, `NoticesAreTold`, `NoticesAreNotRepeated`, `OutputsAreCut`, `SummariesAreApart` |
| `MCMcp` | `RequiredMcpServersAreThere`, `PointerChecksAgree`, `InstalledPointerIsUsed`, `FreshCapabilitiesAreRecent`, `ManagerRecordIsHonest`, `AccountReadersAgree`, `McpCredentialsAreKept`, `McpHealthIsTrue`; sessions: `ScopesAreExact`, `SessionsAreFound`, `SessionsAreShown` |

Some of these state what the code loses rather than what it keeps
(`TornIsForgotten`, `CallsOfVariablesAreLost`, `EdgesInAreLost`, `InferredCallsAreNotSeen`,
`HybridLooksElsewhere`): a reader should know of it, and a change of the code that mends
it will show here.

### Findings

1. A reader's migration can overwrite records written meanwhile (`delegation/src/state.ts:932`, run `TaskStoreMigration`).
2. A background session that ends before its task is marked `running` is never
   followed up: the task keeps its slot for ever (`delegation/src/index.ts:2319`, `DelegationResume`).
3. A handler with an old copy of the record undoes the waiver of a cancelled task
   (`delegation/src/index.ts:991`, `DelegationWaiver`), so the root is prompted about work it cancelled.
4. `listPlanRecords` rewrites the registry without the lock and can undo an archive
   (`workspace/src/plan/state.ts:1764`, `PlanRegistryList`).

### What the properties of Delegation except, and why

Each exception is a history of the code that larger instances, or an attempted
proof, brought up; the property names it rather than hiding it in a bound.

- `RunningCap` assumes that no task changes its agent (`AgentsStay`). A promotion pass
  counts for the agent of the record it listed (`index.ts:2313`); a task cancelled and
  continued under another agent before it is marked running is not counted for that one.
- `NoIdleCapacity` assumes `PassesAsked`: `background_output` that waits ends a task and
  requests no pass, and the later idle event is dropped; a cancel-all that meets a
  finished task throws before its request; an idle handler in its cleanup, and a
  foreground call, find their task continued; a call to the server that rejects, the
  prompt to the root above all (`index.ts:1075`), takes the handler to its `catch`
  (`index.ts:2650`), past its request. It also excepts the tasks the latest pass has cut
  off its list (`index.ts:2308`): when everything on the list is in the foreground, at
  its agent's limit or fails to start, nobody asks again for those behind.
- `ForegroundEnds` speaks of the moment the call ends. A stale candidate of a pass can
  still mark the session's task running later, after the task was cancelled, continued
  in the foreground and blocked by a conflict.
- `ToldWhenOver` excepts tasks that can be blocked (a stale tiny task, a worktree):
  they may be promoted again in the same session while the follow-through is on its
  way. It excepts continued tasks: `handleRootFollowThrough` prompts for the record that
  its own update returns (`index.ts:1042`), which may be the next run's, and notes that
  run as delivered.
- `RootHears` does not hold when a prompt to the root fails (it is never sent again),
  nor when a session other than the root ends the task by reading its output.

## 4. Proofs

TLAPS checks the following for every value of the constants that satisfies the
named assumptions of the modules (`TasksFinite`, `CallsAssumption`,
`StoreAssumption`, `ConstantsAssumption`, `LspAssumption`, `DelegationAssumption`,
`IndexAssumption`, `DiskAssumption`, `ContentsAssumption`, `PlansAssumption`,
`BoardsAssumption`).
They say that constants are numbers, sets or finite sets, and that names the
model keeps apart are different.

**`TaskCalls_proofs`**: `NextOrderAbove` (a new order exceeds all orders), `ApplyType`,
`ApplyKeeps` (an operation keeps root, dependencies and order of every record) and
`ApplyWellFormed` (an accepted operation keeps the store well formed).

**`TaskStore_proofs`**: type correctness, `CopyIsCurrent`, `PromisesKept`,
`StoreWellFormed`, `LedgerSteps`; and `StoreImplementsLedger`: when no initial disk
holds an older file to migrate (`NothingToMigrate`), the store implements the ledger.
`CopyIsCurrent` is not inductive by itself: after `LoadLegacy` the copy is the older
file, and whether that is what a reader sees depends on who migrates next. `Inv` adds
that a mutation runs only when one is queued, that the three stores are well formed,
that whoever is about to migrate has records to migrate, and that a current file
found missing and present later was written by such a migration. The same module
proves of the ledger itself that it stays well formed, forgets nothing and fixes
outcomes (`Ledger*`), and `StoreNeverForgets` carries that over to the file, where
initial disks may also hold an older one: a step that sees no overwriting migration
loses or moves no record and replaces no outcome.

**`JobQueue_proofs`**: `TypeOK` (with one place per job and the bounds on slots, queue
and retries), `WorkConserving`, `PromisesHonest`, `ServiceOrder` and
`QuietAfterShutdown`, for any numbers of jobs, slots, places and retries. The queue is
rewritten by insertion, removal and the loop of `resume`, so the proof first says what
these do to a sequence of distinct, sorted jobs. `Inv` then adds to the types that the
queue is sorted, that an execution belongs to a running job or to a timed-out attempt
(which bounds `executing` by the attempts), and that the job `processNext` would take
next is the first; every step is one of a few shapes (a job enters, leaves, starts, or
is put back), and each property follows from the shape.

**`LspManager_proofs`**: `TypeOK`, `OneCountedServer`, `OpenBeforeAsked` and `OwnAnswer`,
for any callers, files, calls and exits. A count is the size of a set of calls, so the
lemmas say how the set changes when one call moves; the invariant ties `gate`, `ready`
and the program counters together, numbers requests uniquely and says that an answer's
number is outstanding for the call that asked.

**`Delegation_proofs`**: for any tasks, agents, sessions, handlers and callers, the types,
`RunningCap`, `MergedIsTrue`, `OutcomesFixed`, `ForegroundEnds`, `ToldWhenOver`,
`NoIdleCapacity`, and `UsesTheLedger`: the plugin's steps are steps of the abstract store or leave it alone.
The difficulty is that actors write back values computed from stale copies. The
invariant is `TypeOK /\ Records /\ Hands /\ AllReady /\ Telling /\ Room /\ RunningCap`:

- `Records`: every record fits its child session, and no two tasks share one;
- `Hands`: what an actor holds is *faithful* to the task: same identity, and if it
  says merged, the branch is merged; a stale copy stays faithful whatever others do;
- `AllReady`: at each program counter, what has been established on the way there
  (which kind of call can be there, what the copy's status is);
- `Telling`: an actor about to tell the root of a session holds a task that is over in
  it, or one that could be blocked;
- `Room`: when the promotion chain is about to mark a task running, its agent has room.

One lemma per action shows that the step is a *Good* step of one actor: it changes the
store by at most one accepted call, disturbs no other actor's copy and leaves its own
actor ready. That a Good step preserves the invariant is shown once.

`NoIdleCapacity` speaks of a moment when nothing is due any more, so its invariant says
of every actor whether it will still ask for a promotion pass. `Attended`, which builds on
the one above and was checked by TLC on small instances (with a worktree and with two
handlers) before the proof:

- either a pass is asked for or an actor is on its way to ask (`Asked`), or every
  background task that could run and whose agent has room is on the part of the current
  pass's list that is still to be tried (`Seen`). A pass that starts lists every such
  task but those it cuts off (`Oldest`, noted in `unlisted`), since `ByOrder` lists a
  set completely; a task that leaves the list was launched,
  has failed, or has found no room. A pass that meets a task that has ended is broken
  off, and its list lost, but then whoever ended the task has asked or will ask;
- a session's turn has one token (`Turns`): the turn itself, its idle event, or one handler
  that has not decided yet. So no handler takes back what another one has set running,
  and a task that stops running has its handler, which asks for a pass;
- what each kind of actor can be doing when none of the excepted tools is called
  (`Proper`, `Stands`), and the order of a pass's list (`Listed`).

Each action is then of one of a few kinds: it keeps room and waiting tasks as they are,
it ends with a request (`Serves`), or it is a step of the pass.

Induction over data is replaced by one fact, `Least` (a non-empty set of naturals has
a least member), proved from the well-foundedness theorems of the library.

**`CodeIndex_proofs`**: `SkippedIsIndexed`, `RefreshCatchesUp`, `RebuildHeals`, for any files,
branches, versions and overlaps of refresh and rebuild. None of the three is inductive:
what the cache says must follow from what each run under way has done so far, and a
rebuild makes good what came before it only while nobody disturbs it. `IndexInvariant`
has ten parts:

- `IndexTyped`, `NoneNewer` and `Scheduled`: types; no content newer than the newest; who
  is at work, and which of the events that `seen` notes have happened by then;
- `ProcessedTrue`: a file that was read is as it was read, one that was stored has its row
  and chunks, and its embedding is there or among what the run has to embed;
- `CacheTrue`, `CacheExact`: an entry of the cache that equals the disk is indexed, and
  without crashes every entry is exactly what the rows say. They hold while nothing
  happened that the code is not protected from, *or* while an undisturbed rebuild is at
  work (`Healing`), which is how `RebuildHeals` can start from any state;
- `SavedTrue`, `ListedTrue`: the same of the cache file, its half-written form, and the
  listing that a refresh compares with;
- `CleanRuns`: how far a run has come that nobody disturbed. A file it has begun with is
  still to be stamped (`InHand`), and once all are done each is stamped or has failed
  (`Settled`), in which case a refresh still finds it changed, and a rebuild has it in
  neither cache nor cache file;
- `DueTrue`: unless runs overlap, a file that a run has still to do is not in the cache as it
  is, and what the cache file knows of the disk, the cache knows. So a file that fails
  is found changed by the next refresh, also after a crash.

**`PlanRegistry_proofs`**: `TypeOK` (with the exclusion by the two directory locks),
`FilesAgree` and `GuardedLifecycle`, for any sessions, plans, calls, crashes and edits.
A call is a list of steps still to do, and what may be relied on depends on which step
comes next and which come after it. `Inv == Typed /\ Ordered /\ Born /\ Data`:

- `Ordered`: the steps a call has left fit one another (`Fits`), go with its plan and its
  target (`Belongs`), and the session holds the locks the next one needs (`Holds`). It is
  shown of whole programs by joining parts of them (`Run*`, `Join`), and of a call
  under way because taking off the first step leaves a fitting list;
- `Born`: neither the files nor any call speak of a plan whose file is not written yet;
- `Data`, unless something newer was overwritten or a kill left the registry's lock.
  `Half` and `Rest` say when the two files may differ: a save owes another look, a repair
  or a mark is next, or the active plan has just been archived and its succession is under
  way. `Knows` says how good a call's copies of the registry are: it has the archived
  plans and the drafts right (`Keeps`), the others up to new files (`Close`), and the active
  one if its file is there (`Fresh`).

What steps of a kind preserve is said once (`Quiet`, `Moved`, `Thrown`, `Loud`, `Rewritten`,
`Broken`), and then there is one lemma per action. On the way it turns out that while
`Data` holds `replace` never changes anything: the look before it has already replaced an
archived active plan. `Newest` needs that a finite set of numbers has a greatest member
(`Greatest`), hence the assumption `IsFiniteSet(Plans)`.

**`DiskState_proofs`** is about the composition in `MCDiskState`, where a behaviour exercises
one part: `PartSteps` shows that its steps are steps of that part, so an invariant of
a part is one of the whole. `IndexIsPart` says so of `CodeIndex`, whose theorems carry over.
The others are, for any sessions, calls, branches, continuations, runs and edits:

- `ModesAreKept`. `WhileMutating` says, at each step of a mutation, which of the file and
  its backup can be relied on; `OthersKept`, that the text about to be written holds of
  every other session what it may hold.
- `ChangesAreKept` and `RowsAndTreesAgree`. `Consistent`, for each branch that no cut-off call
  has touched: a directory has one row or one call that will write it; a row without a
  directory has a call that will delete it; nobody makes a directory twice.
- `MergesAreReviewed`, the longest argument. Up to the first of the steps that `gate` names,
  `InOrder`: one actor at a time prompts or integrates (`OneTurn`); every continuation has
  a child session of its own (`OwnChildren`); a due review is begun by one reviewer while
  nothing else goes on (`Reviews`); and what was merged and not reviewed is owed a review
  by the record, or by the actor about to save it (`ReviewOwed`). Each gate
  is a step that breaks one of the four.
- `UsersFilesAreKept`. What was read at the start is still in the file or its loss is noted
  (`ReadHolds`), and file by file what the user wrote has been copied once the run is past
  its copying (`ConfigSaved`, `WorkspaceSaved`, `TuiSaved`).
- `FinishedInstallationsAreWhole`. Its lemmas are about the merges: a map joined under the
  user's (`Over`), and each of the functions that merge, returns a content of its file, with
  the plugins that were chosen. The invariant has four parts: the files, what was read and
  what will be written hold contents (`FilesTyped`); what will be written is a
  content of its file that has the chosen plugins, the facade alone where it was asked for
  and the pointer (`Planned`); and the pointer (`PointerMade`), the servers (`ServersMade`)
  and the files (`FilesMade`) are this run's once it is past the step that makes them.

### Only model-checked

- Liveness, and whatever rests on fairness or `ENABLED`: `PromisesSettle`, `CallsAnswered`,
  `RootHears`, `CallsEnd` (two), `UnusedServersStop`.
- What the functions return (the assumptions of the instance modules): many are folds
  over sequences, and the induction theorems of the library take operators as
  parameters, which the provers cannot instantiate.

## 5. What the models say of the code

Facts met while modelling that are no finding, since nothing in the repository
says otherwise, but that a maintainer may want to know.

**Delegation.** A failed or abandoned review leaves the task's review *running*, after
which any agent may continue it. A foreground call and an idle event both integrate the
same turn: the second sees nothing changed and the task succeeds unreviewed. A background
review stays queued for ever (`isPromotableTask` refuses it). Restarts in the background
run the task's original agent. After a failed resync the next continuation skips the
resync. The store accepts any text as merge or verification status; the older copy
accepts any version of the file, the newer only version 3.

**Code index.** The hash cache is keyed by path and symbols have ids without branch:
after a switch, equal files are skipped although the new branch has no rows for them
(`code-intel/README.md:89` promises branch awareness). A refresh or rebuild leaves chunks
of removed files behind. Failed embeddings are not retried. A file that fails while it is
processed has lost its old rows, or has new ones without embeddings; the call reports success;
when its old content comes back before the next refresh, it is skipped. A file edited while it is
processed is stamped with its new hash. Re-indexing a file deletes all edges into it
from unchanged files, and a full index resolves edges only to files processed earlier.
Inferred calls have confidence 0.45 or 0.30 while the graph and impact tools ask for 0.5,
so they see none of them, and impact is always "low risk". Calls on lines that begin
with `const x =`, imports over several lines, `import type`, and methods of expressions
are not seen; method headers count as calls.

**Queries.** The context cache evicts the entry set first, not the one used least, and
serves results up to five minutes after a change (`invalidateCacheForFile` is not called).
The enhanced search joins the scope and the files named in the question by *or*, so
results leave the scope. In full-text questions the words bind as alternatives. Keyword
search and symbol vectors ignore the branch. Ids of symbols, edges and chunks lack the
branch, so rows move to the branch indexed last and the comparison of branches reports
unchanged symbols as added. A database of version 1 cannot be opened. The hybrid vector
store with sqlite-vec looks its results up in a table it never writes.

**Chunks.** A gap longer than the overlap ends with a redundant window; symbols are not
capped; a file's chunk and its whole-file block share an id, so one replaces the other.

**Workspace.** `plan_save` marks the active plan inactive between its turns and may revive
an archived one. A plan's unsaid confirmation counts as given; a title for a document
that is linked already is not stored. A torn context or link file reads as empty and
the next write makes the loss permanent; so does a torn file of session modes once a
mutation reads it. A session's mode read during a rewrite is *running*. `worktree_create`
always makes a new branch although its argument says "will be created if it doesn't
exist"; a row without a directory keeps its session from creating another. An anchor at
the edge of a partial read is refused; removing a line leaves an empty one. With the
default limits the scout's token budget is never reached. `features.contextScout: false`
alone has no effect, and some switches need a second one; thresholds of a file are not
clamped, those of the environment are. A notice withheld in quiet hours is not remembered
as sent; strict privacy changes what the log learns, not what the screen shows. An output
with too many lines is not limited in characters, and with the window in view the first
three lines stay, so that an output of one line is noted as cut and kept whole. The hook
that cuts outputs adds up the tokens of all answers, the one that summarizes takes the
last answer's, so the first finds a window full that the second does not. A session marked
while its summary is made is not looked at again before the cooldown is over. A session
without a title is never reported as lacking it.

**LSP.** A failed initialization leaves an entry whose promise stays rejected. Files
opened once are not sent again after an edit. A server disabled by the project's file
comes back through an entry of the user's file.

**Installer, MCP.** A backup that fails is ignored. In facade mode the user's own servers
and tool switches are replaced. A failure of the pointer writes `enabled: false`, which
later runs keep. Version 0 of the index is refused before the migration that exists for
it. An OAuth server with an `Authorization` header that can be translated loses it. A start
that overlaps a close can leave a running server recorded as closed. Of the two readers
of account times, the installer counts a token that expires now, the plugin does not.

**Fast mode.** A failed save leaves the memo changed; two spellings of one provider: the
later replaces the earlier.

## 6. Not modelled

Vendored templates, rendering, the TUI, doctor, the hooks that only rewrite text,
redaction, parsing, external binaries, SQLite and git themselves, and the prompt
pipeline of reprompt (see the notes in `PROJECT.json`). The semaphore of the index
manager, which can exceed its limit for one microtask, is wider than the files of a run
here.

Hazards without a property, each with its reason in `PROJECT.json`: tasks that were
running when the plugin died; files edited while they are processed; equal files after a
branch switch; documents a server is not told of; a user's edit during the prompts of
the installer; two parallel edits of one file; torn context files. The code has no guard
against them, so there is nothing to promise; the models contain the histories where
they can, and the properties name them. What can go wrong with notices (one table of
what was sent serves hooks with three lifetimes), with the cutting of outputs and with a
mark made during a summary is covered by assumptions of `MCPlugins` instead.
