-------------------------- MODULE TaskStore_proofs --------------------------
(***************************************************************************)
(* The task store file, for every set of tasks, calls, clients, readers    *)
(* and initial disks: as long as no migration replaces a newer file, the   *)
(* file behaves like the ledger.                                           *)
(***************************************************************************)
EXTENDS TaskStore, TaskCalls_proofs

(* A store without records is well typed and well formed.                  *)
LEMMA EmptyStoreType == EmptyStore \in Store /\ WellFormed(EmptyStore)
<1>1. NoTask \in Record
  BY StoreAssumption DEF NoTask, Record
<1>2. EmptyStore \in Store
  BY <1>1 DEF EmptyStore, Store
<1>3. \A t \in Tasks : ~Present(EmptyStore, t)
  BY DEF EmptyStore, NoTask, Present
<1> QED BY <1>2, <1>3 DEF WellFormed, DepsOlder, OrdersDistinct

(* What the steps rely on besides the types and the two properties: a      *)
(* mutation is running only when one is queued, stores are well formed,    *)
(* and only records there are get migrated.                                *)
Inv ==
  /\ TypeOK
  /\ pc # "idle" => queue # <<>>
  /\ WellFormed(primary) /\ WellFormed(legacy) /\ WellFormed(copy)
  /\ ~HasRecords(legacy) => legacy = EmptyStore
  /\ pc = "legacy" /\ exists => HasRecords(legacy)
  /\ pc = "migrate" => HasRecords(legacy) /\ copy = legacy
  /\ \A r \in Readers : reader[r] = "migrate" => HasRecords(legacy)
  /\ CopyIsCurrent
  /\ PromisesKept

(* The invariant holds of every initial disk.                              *)
LEMMA InitInv == Init => Inv
<1> SUFFICES ASSUME Init PROVE Inv
  OBVIOUS
<1>1. PICK d \in InitialDisks :
        exists = d.exists /\ primary = d.primary /\ legacy = d.legacy
  BY DEF Init
<1>2. /\ d \in [exists : BOOLEAN, primary : Store, legacy : Store]
      /\ WellFormed(d.primary) /\ WellFormed(d.legacy)
      /\ ~HasRecords(d.legacy) => d.legacy = EmptyStore
  BY StoreAssumption
<1>3. TypeOK
  <2>1. d.exists \in BOOLEAN /\ d.primary \in Store /\ d.legacy \in Store
    BY <1>2
  <2>2. copy \in Store
    BY EmptyStoreType DEF Init
  <2>3. queue \in Seq(Clients \X Calls)
    BY DEF Init
  <2>4. reader \in [Readers -> {"idle", "legacy", "migrate"}]
    BY DEF Init
  <2> QED BY <1>1, <2>1, <2>2, <2>3, <2>4 DEF Init, TypeOK
<1>4. CopyIsCurrent /\ PromisesKept
  BY DEF Init, CopyIsCurrent, PromisesKept
<1> QED BY <1>1, <1>2, <1>3, <1>4, EmptyStoreType DEF Init, Inv

(* The call at the head of the queue is one of Calls.                      *)
LEMMA HeadCall ==
  ASSUME TypeOK, queue # <<>>
  PROVE  /\ Head(queue)[2] \in Calls /\ Head(queue)[2] \in Call
         /\ Head(queue)[1] \in Clients
         /\ Tail(queue) \in Seq(Clients \X Calls)
  BY CallsAssumption DEF TypeOK

(* A migration that does not replace a newer file leaves the view alone.   *)
LEMMA MigrationView ==
  ASSUME TypeOK, WriteLegacy, ~overwritten', legacy' = legacy
  PROVE  View' = View
  BY DEF WriteLegacy, Write, View, TypeOK

(* Every step preserves the invariant: one step of the proof per action,   *)
(* in the order of Next.                                                   *)
LEMMA NextInv == Inv /\ [Next]_vars => Inv'
<1> SUFFICES ASSUME Inv, [Next]_vars PROVE Inv'
  OBVIOUS
<1> USE DEF Inv
<1>1. CASE UNCHANGED vars
  BY <1>1 DEF vars, TypeOK, CopyIsCurrent, PromisesKept, View
<1>2. ASSUME NEW c \in Clients, NEW call \in Calls, Submit(c, call)
      PROVE  Inv'
  <2>1. TypeOK'
    BY <1>2 DEF Submit, TypeOK
  <2>2. pc # "idle" => Head(queue') = Head(queue) /\ queue' # <<>>
    BY <1>2 DEF Submit, TypeOK
  <2>3. View' = View
    BY <1>2 DEF Submit, View
  <2>4. CopyIsCurrent' /\ PromisesKept'
    BY <1>2, <2>2, <2>3 DEF Submit, CopyIsCurrent, PromisesKept
  <2> QED BY <1>2, <2>1, <2>2, <2>4 DEF Submit
<1>3. CASE Load
  <2>1. TypeOK'
    BY <1>3 DEF Load, TypeOK
  <2>2. View' = View
    BY <1>3 DEF Load, View
  <2>3. CopyIsCurrent' /\ PromisesKept'
    BY <1>3, <2>2 DEF Load, CopyIsCurrent, PromisesKept, View
  <2> QED BY <1>3, <2>1, <2>3 DEF Load
<1>4. CASE LoadLegacy
  <2>1. TypeOK'
    BY <1>4, EmptyStoreType DEF LoadLegacy, TypeOK
  <2>2. View' = View
    BY <1>4 DEF LoadLegacy, View
  <2>3. CopyIsCurrent' /\ PromisesKept'
    BY <1>4, <2>2 DEF LoadLegacy, CopyIsCurrent, PromisesKept, View
  <2> QED BY <1>4, <2>1, <2>3, EmptyStoreType DEF LoadLegacy
<1>5. CASE Migrate
  <2>1. TypeOK'
    BY <1>5 DEF Migrate, WriteLegacy, Write, TypeOK
  <2>2. legacy' = legacy /\ View' = legacy
    BY <1>5 DEF Migrate, WriteLegacy, Write, View
  <2>3. ~overwritten' => View' = View /\ ~overwritten
    BY <1>5, <2>2, MigrationView DEF Migrate, WriteLegacy
  <2>4. CopyIsCurrent' /\ PromisesKept'
    BY <1>5, <2>2, <2>3 DEF Migrate, CopyIsCurrent, PromisesKept
  <2> QED BY <1>5, <2>1, <2>4 DEF Migrate, WriteLegacy, Write
<1>6. CASE Mutate
  <2>1. copy' \in Store /\ WellFormed(copy')
    BY <1>6, HeadCall, ApplyType, ApplyWellFormed DEF Mutate, TypeOK
  <2>2. TypeOK'
    BY <1>6, <2>1 DEF Mutate, TypeOK
  <2>3. View' = View
    BY <1>6 DEF Mutate, View
  <2>4. CopyIsCurrent' /\ PromisesKept'
    BY <1>6, <2>3 DEF Mutate, CopyIsCurrent, PromisesKept
  <2> QED BY <1>6, <2>1, <2>2, <2>4 DEF Mutate
<1>7. CASE Commit
  <2>1. Head(queue)[2] \in Call /\ Head(queue)[1] \in Clients
    BY <1>7, HeadCall DEF Commit
  <2>2. Head(queue)[2].op = "create" => Head(queue)[2].id \in Tasks
    BY <2>1 DEF Call, CreateCall, TransitionCall, RestartCall, UpdateCall
  <2>3. TypeOK'
    BY <1>7, <2>2, HeadCall DEF Commit, Write, Answer, TypeOK
  <2>4. View \in Store
    BY DEF View, TypeOK
  <2>5. ~overwritten => /\ Accepts(View, Head(queue)[2])
                        /\ View' = Apply(View, Head(queue)[2])
    BY <1>7 DEF Commit, Write, View, CopyIsCurrent
  <2>6. ~overwritten => \A t \in promised' : Present(View', t)
    <3> SUFFICES ASSUME ~overwritten, NEW t \in promised'
                 PROVE  Present(View', t)
      OBVIOUS
    <3>1. t \in Tasks
      BY <2>3 DEF TypeOK
    <3>2. CASE t \in promised
      BY <3>1, <3>2, <2>1, <2>4, <2>5, ApplyKeeps DEF PromisesKept
    <3>3. CASE t \notin promised
      <4>1. Head(queue)[2].op = "create" /\ t = Head(queue)[2].id
        BY <1>7, <3>3 DEF Commit
      <4> QED BY <4>1, <3>1, <2>1, <2>4, <2>5, ApplyKeeps
    <3> QED BY <3>2, <3>3
  <2>7. CopyIsCurrent' /\ PromisesKept'
    BY <1>7, <2>6 DEF Commit, Answer, CopyIsCurrent, PromisesKept
  <2> QED BY <1>7, <2>3, <2>7 DEF Commit, Write, Answer
<1>8. CASE Reject
  <2>1. TypeOK'
    BY <1>8, HeadCall DEF Reject, Answer, TypeOK
  <2>2. CopyIsCurrent' /\ PromisesKept'
    BY <1>8 DEF Reject, Answer, CopyIsCurrent, PromisesKept, View
  <2> QED BY <1>8, <2>1, <2>2 DEF Reject, Answer
<1>9. CASE WriteFails
  <2>1. TypeOK'
    BY <1>9, HeadCall DEF WriteFails, Answer, TypeOK
  <2>2. CopyIsCurrent' /\ PromisesKept'
    BY <1>9 DEF WriteFails, Answer, CopyIsCurrent, PromisesKept, View
  <2> QED BY <1>9, <2>1, <2>2 DEF WriteFails, Answer
<1>10. ASSUME NEW r \in Readers, Read(r)
       PROVE  Inv'
  <2>1. TypeOK'
    BY <1>10 DEF Read, TypeOK
  <2>2. CopyIsCurrent' /\ PromisesKept'
    BY <1>10 DEF Read, CopyIsCurrent, PromisesKept, View
  <2> QED BY <1>10, <2>1, <2>2 DEF Read, TypeOK
<1>11. ASSUME NEW r \in Readers, ReadLegacy(r)
       PROVE  Inv'
  <2>1. TypeOK'
    BY <1>11 DEF ReadLegacy, TypeOK
  <2>2. CopyIsCurrent' /\ PromisesKept'
    BY <1>11 DEF ReadLegacy, CopyIsCurrent, PromisesKept, View
  <2> QED BY <1>11, <2>1, <2>2 DEF ReadLegacy, TypeOK
<1>12. ASSUME NEW r \in Readers, ReadMigrate(r)
       PROVE  Inv'
  <2>1. TypeOK'
    BY <1>12 DEF ReadMigrate, WriteLegacy, Write, TypeOK
  <2>2. legacy' = legacy /\ HasRecords(legacy) /\ WellFormed(primary')
    BY <1>12 DEF ReadMigrate, WriteLegacy, Write
  <2>3. ~overwritten' => View' = View /\ ~overwritten
    <3>1. CASE WriteLegacy
      BY <3>1, <2>2, MigrationView DEF WriteLegacy
    <3>2. CASE UNCHANGED <<exists, primary, overwritten>>
      BY <3>2, <2>2 DEF View
    <3> QED BY <3>1, <3>2, <1>12 DEF ReadMigrate
  <2>4. CopyIsCurrent' /\ PromisesKept'
    BY <1>12, <2>3 DEF ReadMigrate, CopyIsCurrent, PromisesKept
  <2> QED BY <1>12, <2>1, <2>2, <2>4 DEF ReadMigrate, TypeOK
<1>13. CASE Crash
  <2>1. TypeOK'
    BY <1>13 DEF Crash, TypeOK
  <2>2. CopyIsCurrent' /\ PromisesKept'
    BY <1>13 DEF Crash, CopyIsCurrent, PromisesKept, View
  <2> QED BY <1>13, <2>1, <2>2 DEF Crash
<1> QED BY <1>1, <1>2, <1>3, <1>4, <1>5, <1>6, <1>7, <1>8, <1>9, <1>10,
           <1>11, <1>12, <1>13 DEF Next, Worker, Reading

(* So it holds in every reachable state.                                   *)
LEMMA SpecInv == Spec => []Inv
BY InitInv, NextInv, PTL DEF Spec

(* The variables keep their types.                                         *)
THEOREM StoreTypeOK == Spec => []TypeOK
<1>1. Inv => TypeOK
  BY DEF Inv
<1> QED BY <1>1, SpecInv, PTL

(* mutationQueue isolates a mutation from its read to its rename.          *)
THEOREM StoreCopyIsCurrent == Spec => []CopyIsCurrent
<1>1. Inv => CopyIsCurrent
  BY DEF Inv
<1> QED BY <1>1, SpecInv, PTL

(* An acknowledged creation survives crashes and failed writes.            *)
THEOREM StorePromisesKept == Spec => []PromisesKept
<1>1. Inv => PromisesKept
  BY DEF Inv
<1> QED BY <1>1, SpecInv, PTL

(* The dependency graph on the disk stays acyclic, migrations included.    *)
THEOREM StoreStaysWellFormed == Spec => []StoreWellFormed
<1>1. Inv => StoreWellFormed
  BY DEF Inv, StoreWellFormed, View
<1> QED BY <1>1, SpecInv, PTL

-----------------------------------------------------------------------------
(* The operations of the instantiated ledger are those of TaskRecords.     *)
LEMMA LedgerOperations ==
  ASSUME NEW s, NEW c
  PROVE  /\ Ledger!Accepts(s, c) <=> Accepts(s, c)
         /\ Ledger!Apply(s, c) = Apply(s, c)
         /\ Ledger!WellFormed(s) <=> WellFormed(s)
         /\ Ledger!Store = Store
<1>1. Ledger!NextOrder(s) = NextOrder(s)
  BY DEF Ledger!NextOrder, NextOrder, Ledger!Orders, Orders, Ledger!Present,
         Present
<1>2. Ledger!HasCycle(s, c.id, c.deps) <=> HasCycle(s, c.id, c.deps)
  BY DEF Ledger!HasCycle, HasCycle, Ledger!DependsOn, DependsOn
<1>3. \A i, d : Ledger!StatusOnEntry(s, i, d) = StatusOnEntry(s, i, d)
  BY DEF Ledger!StatusOnEntry, StatusOnEntry, Ledger!Blockers, Blockers
<1>4. Ledger!CreateAccepted(s, c) <=> CreateAccepted(s, c)
  BY <1>2 DEF Ledger!CreateAccepted, CreateAccepted, Ledger!Present, Present
<1>5. Ledger!TransitionAccepted(s, c) <=> TransitionAccepted(s, c)
  BY DEF Ledger!TransitionAccepted, TransitionAccepted, Ledger!Present, Present,
         Ledger!TransitionAllowed, TransitionAllowed, Ledger!ValidTransitions,
         ValidTransitions
<1>6. Ledger!Accepts(s, c) <=> Accepts(s, c)
  BY <1>4, <1>5 DEF Ledger!Accepts, Accepts, Ledger!RestartAccepted,
     RestartAccepted, Ledger!UpdateAccepted, UpdateAccepted, Ledger!Present,
     Present
<1>7. Ledger!Created(s, c) = Created(s, c)
  BY <1>1, <1>3 DEF Ledger!Created, Created
<1>8. Ledger!Restarted(s, c) = Restarted(s, c)
  BY <1>3 DEF Ledger!Restarted, Restarted
<1>9. Ledger!Apply(s, c) = Apply(s, c)
  BY <1>7, <1>8 DEF Ledger!Apply, Apply, Ledger!Transitioned, Transitioned,
     Ledger!Updated, Updated
<1>10. Ledger!WellFormed(s) <=> WellFormed(s)
  BY DEF Ledger!WellFormed, WellFormed, Ledger!DepsOlder, DepsOlder,
         Ledger!OrdersDistinct, OrdersDistinct, Ledger!Present, Present
<1>11. Ledger!Store = Store
  BY DEF Ledger!Store, Store, Ledger!Record, Record, Ledger!Stored, Stored
<1> QED BY <1>6, <1>9, <1>10, <1>11

(* A step that replaces no newer file is a step of the ledger or leaves    *)
(* the view alone.                                                         *)
LEMMA StepSimulates ==
  Inv /\ [Next]_vars /\ ~overwritten' => [Ledger!Next]_View
<1> SUFFICES ASSUME Inv, [Next]_vars, ~overwritten' PROVE Ledger!Next \/ View' = View
  OBVIOUS
<1>1. CASE UNCHANGED vars
  BY <1>1 DEF vars, View
<1>2. ASSUME NEW c \in Clients, NEW call \in Calls, Submit(c, call)
      PROVE  View' = View
  BY <1>2 DEF Submit, View
<1>3. CASE Load
  BY <1>3 DEF Load, View
<1>4. CASE LoadLegacy
  BY <1>4 DEF LoadLegacy, View
<1>5. CASE Migrate
  BY <1>5, MigrationView DEF Migrate, Inv
<1>6. CASE Mutate
  BY <1>6 DEF Mutate, View
<1>7. CASE Commit
  <2>1. Head(queue)[2] \in Calls
    BY <1>7, HeadCall DEF Commit, Inv
  <2>2. /\ Accepts(View, Head(queue)[2])
        /\ View' = Apply(View, Head(queue)[2])
    BY <1>7 DEF Commit, Write, View, CopyIsCurrent, Inv
  <2>3. Ledger!Perform(Head(queue)[2])
    BY <2>2, LedgerOperations DEF Ledger!Perform
  <2> QED BY <2>1, <2>3 DEF Ledger!Next
<1>8. CASE Reject
  BY <1>8 DEF Reject, View
<1>9. CASE WriteFails
  BY <1>9 DEF WriteFails, View
<1>10. ASSUME NEW r \in Readers, Reading(r)
       PROVE  View' = View
  <2>1. CASE Read(r)
    BY <2>1 DEF Read, View
  <2>2. CASE ReadLegacy(r)
    BY <2>2 DEF ReadLegacy, View
  <2>3. CASE ReadMigrate(r) /\ WriteLegacy
    BY <2>3, MigrationView DEF ReadMigrate, Inv
  <2>4. CASE ReadMigrate(r) /\ UNCHANGED <<exists, primary, overwritten>>
    BY <2>4 DEF ReadMigrate, View
  <2> QED BY <1>10, <2>1, <2>2, <2>3, <2>4 DEF Reading, ReadMigrate
<1>11. CASE Crash
  BY <1>11 DEF Crash, View
<1> QED BY <1>1, <1>2, <1>3, <1>4, <1>5, <1>6, <1>7, <1>8, <1>9, <1>10,
           <1>11 DEF Next, Worker

(* Without an interfering migration every step is an atomic operation.     *)
THEOREM StoreLedgerSteps == Spec => LedgerSteps
<1>1. Inv /\ [Next]_vars => [~overwritten' => [Ledger!Next]_View]_vars
  BY StepSimulates
<1> QED BY <1>1, SpecInv, PTL DEF Spec, LedgerSteps

(* When no process finds an older store to migrate, nothing is ever        *)
(* overwritten.                                                            *)
NoMigration ==
  /\ exists \/ legacy = EmptyStore
  /\ pc # "migrate" /\ \A r \in Readers : reader[r] # "migrate"
  /\ ~exists => \A r \in Readers : reader[r] # "migrate"
  /\ pc = "legacy" => legacy = EmptyStore
  /\ \A r \in Readers : reader[r] = "legacy" => legacy = EmptyStore
  /\ ~overwritten

(* When no initial disk holds records to migrate, no migration ever        *)
(* writes.                                                                 *)
LEMMA NoMigrationInvariant ==
  ASSUME NothingToMigrate
  PROVE  Spec => []NoMigration
<1>1. ~HasRecords(EmptyStore)
  BY DEF HasRecords, EmptyStore, NoTask, Present
<1>2. Init => NoMigration
  BY DEF Init, NoMigration, NothingToMigrate
<1>3. Inv /\ NoMigration /\ [Next]_vars => NoMigration'
  <2> SUFFICES ASSUME Inv, NoMigration, [Next]_vars PROVE NoMigration'
    OBVIOUS
  <2> USE DEF NoMigration
  <2>1. CASE UNCHANGED vars
    BY <2>1 DEF vars
  <2>2. ASSUME NEW c \in Clients, NEW call \in Calls, Submit(c, call)
        PROVE  NoMigration'
    BY <2>2 DEF Submit
  <2>3. CASE Load
    BY <2>3 DEF Load
  <2>4. CASE LoadLegacy
    BY <1>1, <2>4 DEF LoadLegacy
  <2>5. CASE Migrate
    BY <2>5 DEF Migrate
  <2>6. CASE Mutate
    BY <2>6 DEF Mutate
  <2>7. CASE Commit
    BY <2>7 DEF Commit, Write, Answer
  <2>8. CASE Reject
    BY <2>8 DEF Reject, Answer
  <2>9. CASE WriteFails
    BY <2>9 DEF WriteFails, Answer
  <2>10. ASSUME NEW r \in Readers, Reading(r)
         PROVE  NoMigration'
    <3>1. CASE Read(r)
      BY <3>1 DEF Read, Inv, TypeOK
    <3>2. CASE ReadLegacy(r)
      BY <1>1, <3>2 DEF ReadLegacy, Inv, TypeOK
    <3>3. CASE ReadMigrate(r)
      BY <3>3 DEF ReadMigrate
    <3> QED BY <2>10, <3>1, <3>2, <3>3 DEF Reading
  <2>11. CASE Crash
    BY <2>11 DEF Crash
  <2> QED BY <2>1, <2>2, <2>3, <2>4, <2>5, <2>6, <2>7, <2>8, <2>9, <2>10,
             <2>11 DEF Next, Worker
<1> QED BY <1>2, <1>3, SpecInv, PTL DEF Spec

(* An established store, or one without a predecessor, implements the      *)
(* ledger.                                                                 *)
THEOREM StoreImplementsLedger ==
  ASSUME NothingToMigrate
  PROVE  Spec => Ledger!Spec
<1>1. Init => Ledger!Init
  BY InitInv, LedgerOperations DEF Ledger!Init, Inv, TypeOK, View
<1>2. Inv /\ NoMigration' /\ [Next]_vars => [Ledger!Next]_View
  BY StepSimulates DEF NoMigration
<1>3. Spec => []NoMigration
  BY NoMigrationInvariant
<1> QED BY <1>1, <1>2, <1>3, SpecInv, PTL DEF Spec, Ledger!Spec

-----------------------------------------------------------------------------
(* The ledger.  What View is does not matter to it: these are facts about  *)
(* any map of records that calls change one at a time.                     *)

(* Type correctness and well-formedness are inductive together.            *)
LEMMA LedgerInductive == Ledger!Spec => [](View \in Store /\ WellFormed(View))
<1>1. Ledger!Init => View \in Store /\ WellFormed(View)
  BY LedgerOperations DEF Ledger!Init
<1>2. View \in Store /\ WellFormed(View) /\ [Ledger!Next]_View
        => (View \in Store /\ WellFormed(View))'
  <2> SUFFICES ASSUME View \in Store, WellFormed(View), [Ledger!Next]_View
               PROVE  (View \in Store)' /\ WellFormed(View)'
    OBVIOUS
  <2>1. CASE Ledger!Next
    <3>1. PICK c \in Calls : View' = Apply(View, c) /\ Accepts(View, c)
      BY <2>1, LedgerOperations DEF Ledger!Next, Ledger!Perform
    <3>2. View' \in Store /\ WellFormed(View')
      BY <3>1, CallsAssumption, ApplyType, ApplyWellFormed
    <3> QED BY <3>2 DEF Store, WellFormed, DepsOlder, OrdersDistinct, Present
  <2>2. CASE View' = View
    BY <2>2 DEF Store, WellFormed, DepsOlder, OrdersDistinct, Present
  <2> QED BY <2>1, <2>2
<1> QED BY <1>1, <1>2, PTL DEF Ledger!Spec

(* Dependencies stay older than their dependents and creation orders       *)
(* distinct: the dependency graph of the ledger is always acyclic.         *)
THEOREM LedgerStaysWellFormed == Ledger!Spec => []Ledger!LedgerWellFormed
<1>1. WellFormed(View) => Ledger!LedgerWellFormed
  BY LedgerOperations DEF Ledger!LedgerWellFormed
<1> QED BY <1>1, LedgerInductive, PTL

(* No operation of the ledger removes a record or changes where it belongs.*)
THEOREM LedgerNeverForgets == Ledger!Spec => Ledger!NeverForgets
<1>1. View \in Store /\ [Ledger!Next]_View =>
        [\A t \in Tasks : Ledger!Present(View, t) =>
           /\ Ledger!Present(View', t)
           /\ View'[t].root = View[t].root
           /\ View'[t].deps = View[t].deps
           /\ View'[t].order = View[t].order]_View
  <2> SUFFICES ASSUME View \in Store, Ledger!Next, NEW t \in Tasks, Present(View, t)
               PROVE  /\ Present(View', t)
                      /\ View'[t].root = View[t].root
                      /\ View'[t].deps = View[t].deps
                      /\ View'[t].order = View[t].order
    BY DEF Ledger!Present, Present
  <2>1. PICK c \in Calls : View' = Apply(View, c) /\ Accepts(View, c)
    BY LedgerOperations DEF Ledger!Next, Ledger!Perform
  <2> QED BY <2>1, CallsAssumption, ApplyKeeps
<1> QED BY <1>1, LedgerInductive, PTL DEF Ledger!Spec, Ledger!NeverForgets

(* An outcome in the ledger is never replaced by a different outcome.      *)
THEOREM LedgerOutcomesFixed == Ledger!Spec => Ledger!OutcomesFixed
<1>1. View \in Store /\ [Ledger!Next]_View =>
        [\A t \in Tasks : View[t].status \in Ledger!Terminal =>
           View'[t].status \in Ledger!Active \cup {View[t].status}]_View
  <2> SUFFICES ASSUME View \in Store, Ledger!Next, NEW t \in Tasks, View[t].status \in Terminal
               PROVE  View'[t].status \in Active \cup {View[t].status}
    BY DEF Ledger!Terminal, Terminal, Ledger!Active, Active
  <2>1. PICK c \in Calls : View' = Apply(View, c) /\ Accepts(View, c)
    BY LedgerOperations DEF Ledger!Next, Ledger!Perform
  <2> QED BY <2>1, CallsAssumption, ApplyKeeps
<1> QED BY <1>1, LedgerInductive, PTL DEF Ledger!Spec, Ledger!OutcomesFixed

(* The file keeps the promises of the ledger: as long as no migration got  *)
(* in between, no step of any process, no crash and no failed write loses  *)
(* a record or moves it, and no outcome is replaced by another.            *)
FileKeepsRecords ==
  [][~overwritten' => \A t \in Tasks :
       /\ Present(View, t) =>
            /\ Present(View', t)
            /\ View'[t].root = View[t].root
            /\ View'[t].deps = View[t].deps
            /\ View'[t].order = View[t].order
       /\ View[t].status \in Terminal => View'[t].status \in Active \cup {View[t].status}]_vars

(* What is acknowledged and settled in state.ts's file stays so, for any    *)
(* clients, readers, crashes and failed writes.                            *)
THEOREM StoreNeverForgets == Spec => FileKeepsRecords
<1>1. Inv /\ [Next]_vars =>
        [~overwritten' => \A t \in Tasks :
           /\ Present(View, t) =>
                /\ Present(View', t)
                /\ View'[t].root = View[t].root
                /\ View'[t].deps = View[t].deps
                /\ View'[t].order = View[t].order
           /\ View[t].status \in Terminal => View'[t].status \in Active \cup {View[t].status}]_vars
  <2> SUFFICES ASSUME Inv, [Next]_vars, ~overwritten', NEW t \in Tasks
               PROVE  /\ Present(View, t) =>
                           /\ Present(View', t)
                           /\ View'[t].root = View[t].root
                           /\ View'[t].deps = View[t].deps
                           /\ View'[t].order = View[t].order
                      /\ View[t].status \in Terminal => View'[t].status \in Active \cup {View[t].status}
    OBVIOUS
  <2>1. View \in Store
    BY DEF Inv, TypeOK, View
  <2>2. CASE Ledger!Next
    <3>1. PICK c \in Calls : View' = Apply(View, c) /\ Accepts(View, c)
      BY <2>2, LedgerOperations DEF Ledger!Next, Ledger!Perform
    <3> QED BY <2>1, <3>1, CallsAssumption, ApplyKeeps
  <2>3. CASE View' = View
    BY <2>3
  <2> QED BY <2>2, <2>3, StepSimulates
<1> QED BY <1>1, SpecInv, PTL DEF Spec, FileKeepsRecords
=============================================================================
