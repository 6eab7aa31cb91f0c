------------------------------ MODULE TaskStore ------------------------------
(***************************************************************************)
(* createTaskStateManager of src/packages/delegation/src/state.ts: the     *)
(* task records in a JSON file.  Mutations are chained on mutationQueue    *)
(* and each one reads the whole file, changes its copy and replaces the    *)
(* file by a rename.  Reads are not chained.  Both migrate the records of  *)
(* the older delegations.json when the current file does not exist yet.    *)
(* A step ends at an await of the code; the process may crash between any  *)
(* two steps, and a write may fail.                                        *)
(***************************************************************************)
EXTENDS TaskCalls, Sequences

CONSTANTS
  Clients,        \* concurrent callers of mutations
  Readers,        \* concurrent callers of getTask and the list operations
  InitialDisks    \* what the first process finds on the disk

VARIABLES
  exists,         \* task-records.json exists
  primary,        \* its records
  legacy,         \* the records of delegations.json (EmptyStore: none)
  queue,          \* mutationQueue: <<client, call>>, the head is running
  pc,             \* where the running mutation stands
  copy,           \* its copy of the store
  reader,         \* reader -> "idle", "legacy" or "migrate"
  waiting,        \* clients whose call has not been answered
  promised,       \* ids whose creation was acknowledged
  overwritten     \* a migration has replaced a file that had changed since

vars == <<exists, primary, legacy, queue, pc, copy, reader, waiting, promised,
          overwritten>>

NoTask == [status |-> "absent", root |-> CHOOSE r \in Roots : TRUE, deps |-> {},
           order |-> 0, child |-> CHOOSE c \in Children : TRUE,
           key |-> CHOOSE k \in Keys : TRUE, bg |-> FALSE,
           exec |-> CHOOSE e \in Executions : TRUE,
           asg |-> CHOOSE a \in Assignments : TRUE]
EmptyStore == [t \in Tasks |-> NoTask]
HasRecords(s) == \E t \in Tasks : Present(s, t)

ASSUME StoreAssumption ==
  /\ Roots # {} /\ Children # {} /\ Keys # {}
  /\ Executions # {} /\ Assignments # {}
  /\ \A d \in InitialDisks :
       /\ d \in [exists : BOOLEAN, primary : Store, legacy : Store]
       /\ WellFormed(d.primary) /\ WellFormed(d.legacy)
       /\ ~d.exists => d.primary = EmptyStore
       /\ ~HasRecords(d.legacy) => d.legacy = EmptyStore

Init ==
  /\ \E d \in InitialDisks :
       exists = d.exists /\ primary = d.primary /\ legacy = d.legacy
  /\ queue = <<>> /\ pc = "idle" /\ copy = EmptyStore
  /\ reader = [r \in Readers |-> "idle"]
  /\ waiting = {} /\ promised = {} /\ overwritten = FALSE

-----------------------------------------------------------------------------
(* Mutations, in the order they were asked for.                            *)
Submit(c, call) ==
  /\ c \notin waiting
  /\ waiting' = waiting \cup {c}
  /\ queue' = Append(queue, <<c, call>>)
  /\ UNCHANGED <<exists, primary, legacy, pc, copy, reader, promised,
                 overwritten>>

(* Mutant of Load: the copy of the mutation before is used again.          *)
LoadCached ==
  /\ pc = "idle" /\ queue # <<>>
  /\ IF exists THEN pc' = "loaded" /\ copy' = IF HasRecords(copy) THEN copy ELSE primary
               ELSE pc' = "legacy" /\ UNCHANGED copy
  /\ UNCHANGED <<exists, primary, legacy, queue, reader, waiting, promised,
                 overwritten>>

Load ==
  /\ pc = "idle" /\ queue # <<>>
  /\ IF exists THEN pc' = "loaded" /\ copy' = primary
               ELSE pc' = "legacy" /\ UNCHANGED copy
  /\ UNCHANGED <<exists, primary, legacy, queue, reader, waiting, promised,
                 overwritten>>

LoadLegacy ==
  /\ pc = "legacy"
  /\ pc' = IF HasRecords(legacy) THEN "migrate" ELSE "loaded"
  /\ copy' = IF HasRecords(legacy) THEN legacy ELSE EmptyStore
  /\ UNCHANGED <<exists, primary, legacy, queue, reader, waiting, promised,
                 overwritten>>

(* writeStore: a temporary file, then a rename over task-records.json.     *)
Write(s) == exists' = TRUE /\ primary' = s

(* Migration writes the older records without looking at the file again.   *)
WriteLegacy ==
  /\ Write(legacy)
  /\ overwritten' = (overwritten \/ (exists /\ primary # legacy))

Migrate ==
  /\ pc = "migrate"
  /\ WriteLegacy
  /\ pc' = "loaded"
  /\ UNCHANGED <<legacy, queue, copy, reader, waiting, promised>>

(* Mutant of Mutate: the call is carried out whether or not it is allowed. *)
MutateUnchecked ==
  /\ pc = "loaded"
  /\ copy' = Apply(copy, Head(queue)[2])
  /\ pc' = "write"
  /\ UNCHANGED <<exists, primary, legacy, queue, reader, waiting, promised,
                 overwritten>>

Mutate ==
  /\ pc = "loaded"
  /\ Accepts(copy, Head(queue)[2])
  /\ copy' = Apply(copy, Head(queue)[2])
  /\ pc' = "write"
  /\ UNCHANGED <<exists, primary, legacy, queue, reader, waiting, promised,
                 overwritten>>

(* The head of the queue is answered and the next mutation may run.        *)
Answer ==
  /\ queue' = Tail(queue)
  /\ waiting' = waiting \ {Head(queue)[1]}
  /\ pc' = "idle"

Commit ==
  /\ pc = "write"
  /\ Write(copy)
  /\ Answer
  /\ promised' = promised \cup
       (IF Head(queue)[2].op = "create" THEN {Head(queue)[2].id} ELSE {})
  /\ UNCHANGED <<legacy, copy, reader, overwritten>>

(* Mutant of Reject: the next mutation runs and the caller is forgotten.   *)
RejectSilently ==
  /\ pc = "loaded"
  /\ ~Accepts(copy, Head(queue)[2])
  /\ queue' = Tail(queue) /\ pc' = "idle"
  /\ UNCHANGED <<exists, primary, legacy, copy, reader, waiting, promised,
                 overwritten>>

Reject ==
  /\ pc = "loaded"
  /\ ~Accepts(copy, Head(queue)[2])
  /\ Answer
  /\ UNCHANGED <<exists, primary, legacy, copy, reader, promised, overwritten>>

(* Mutant of WriteFails: the error is swallowed.                           *)
WriteFailsSilently ==
  /\ pc \in {"migrate", "write"}
  /\ Answer
  /\ promised' = promised \cup
       (IF Head(queue)[2].op = "create" THEN {Head(queue)[2].id} ELSE {})
  /\ UNCHANGED <<exists, primary, legacy, copy, reader, overwritten>>

WriteFails ==
  /\ pc \in {"migrate", "write"}
  /\ Answer
  /\ UNCHANGED <<exists, primary, legacy, copy, reader, promised, overwritten>>

-----------------------------------------------------------------------------
(* readStore called by getTask and the list operations, outside the queue. *)
Read(r) ==
  /\ reader[r] = "idle" /\ ~exists
  /\ reader' = [reader EXCEPT ![r] = "legacy"]
  /\ UNCHANGED <<exists, primary, legacy, queue, pc, copy, waiting, promised,
                 overwritten>>

ReadLegacy(r) ==
  /\ reader[r] = "legacy"
  /\ reader' = [reader EXCEPT ![r] =
                  IF HasRecords(legacy) THEN "migrate" ELSE "idle"]
  /\ UNCHANGED <<exists, primary, legacy, queue, pc, copy, waiting, promised,
                 overwritten>>

ReadMigrate(r) ==
  /\ reader[r] = "migrate"
  /\ \/ WriteLegacy
     \/ UNCHANGED <<exists, primary, overwritten>>   \* the write fails
  /\ reader' = [reader EXCEPT ![r] = "idle"]
  /\ UNCHANGED <<legacy, queue, pc, copy, waiting, promised>>

(* The process dies: everything but the disk is lost.  A rename is atomic, *)
(* so a mutation is on the disk entirely or not at all.                    *)
Crash ==
  /\ queue' = <<>> /\ pc' = "idle"
  /\ reader' = [r \in Readers |-> "idle"]
  /\ waiting' = {}
  /\ UNCHANGED <<exists, primary, legacy, copy, promised, overwritten>>

Worker == Load \/ LoadLegacy \/ Migrate \/ Mutate \/ Commit \/ Reject \/ WriteFails
Reading(r) == Read(r) \/ ReadLegacy(r) \/ ReadMigrate(r)

Next ==
  \/ \E c \in Clients, call \in Calls : Submit(c, call)
  \/ Worker
  \/ \E r \in Readers : Reading(r)
  \/ Crash

(* The event loop keeps running the mutation at the head of the queue.     *)
Spec == Init /\ [][Next]_vars /\ WF_vars(Worker)

-----------------------------------------------------------------------------
(* The records a reader that starts now gets.                              *)
View == IF exists THEN primary ELSE legacy

Ledger == INSTANCE TaskLedger WITH records <- View

(* Types: the disk, the copy and the chain of mutations hold records and   *)
(* calls of the declared shapes.                                           *)
TypeOK ==
  /\ exists \in BOOLEAN /\ overwritten \in BOOLEAN
  /\ primary \in Store /\ legacy \in Store /\ copy \in Store
  /\ queue \in Seq(Clients \X Calls)
  /\ pc \in {"idle", "legacy", "migrate", "loaded", "write"}
  /\ reader \in [Readers -> {"idle", "legacy", "migrate"}]
  /\ waiting \subseteq Clients
  /\ promised \subseteq Tasks

(* The copy the running mutation works on is the current content of the    *)
(* disk: mutationQueue lets no other mutation between its read and its     *)
(* rename, and only a migration by an unchained reader can.                *)
CopyIsCurrent ==
  ~overwritten =>
    /\ pc = "loaded" => copy = View
    /\ pc = "write" => /\ Accepts(View, Head(queue)[2])
                       /\ copy = Apply(View, Head(queue)[2])

(* As long as no migration got in between, an acknowledged creation stays  *)
(* on the disk, across crashes and failed writes.                          *)
PromisesKept == ~overwritten => \A t \in promised : Present(View, t)

(* As long as no migration got in between, each step of the store is one   *)
(* accepted operation of the ledger, or leaves the records alone.          *)
LedgerSteps == [][~overwritten' => [Ledger!Next]_View]_vars

(* Dependencies on the disk stay older than their dependents and creation  *)
(* orders distinct, migrations and crashes included.                       *)
StoreWellFormed == WellFormed(View)

(* Every call is answered, or lost in a crash.                             *)
CallsAnswered == \A c \in Clients : c \in waiting ~> c \notin waiting

(* No process finds an older store that is still to be migrated.           *)
NothingToMigrate ==
  \A d \in InitialDisks : d.exists \/ d.legacy = EmptyStore

(* packages/delegation/README.md: task-records.json holds "durable task    *)
(* lifecycle records": a task whose creation was acknowledged is there.    *)
RecordsDurable == \A t \in promised : Present(View, t)
=============================================================================
