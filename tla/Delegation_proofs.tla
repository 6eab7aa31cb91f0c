------------------------- MODULE Delegation_proofs --------------------------
(***************************************************************************)
(* The delegation plugin for any number of tasks, sessions, agents,        *)
(* handlers and callers: types, the limit on running tasks, outcomes,      *)
(* merges, foreground calls, what the root is told, the store it keeps to  *)
(* and the room it does not leave idle.                                    *)
(***************************************************************************)
EXTENDS Delegation, TaskCalls_proofs, SequenceTheorems

(***************************************************************************)
(* A step of the plugin is at most one call of the task store, which       *)
(* leaves all other records alone and this one changed in one of three     *)
(* ways: its execution is written back, its status is moved, or it is run  *)
(* in a session that was not used before.                                  *)
(***************************************************************************)
Rewritten(t) ==
  /\ Present(store, t)
  /\ \E e \in Exec :
       /\ store'[t] = [store[t] EXCEPT !.exec = e]
       /\ e.merge = "merged" => t \in merged'
       /\ "continue" \notin Tools => e.mode = store[t].exec.mode

Moved(t) ==
  /\ Present(store, t)
  /\ \E s \in Stored :
       /\ store'[t] = [store[t] EXCEPT !.status = s]
       /\ TransitionAllowed(store[t].status, s)
       /\ s = "running" => At(Promoter, "launched") /\ act[Promoter].t = t
       /\ s = "blocked" /\ "continue" \notin Tools => CanBeBlocked(t)

Begun(t) ==
  /\ Present(store, t) => "continue" \in Tools
  /\ store[t].status \notin {"queued", "running"}
  /\ store'[t].status \in {"queued", "running"}
  /\ store'[t].status = "running" => ~store'[t].bg
  /\ store'[t].exec.merge = "merged" => t \in merged'
  /\ session[store'[t].child] = "unused" /\ session'[store'[t].child] = "created"
  /\ \A u \in Tasks : u # t => store'[u] = store[u]

RecordStep(t) == store'[t] = store[t] \/ Rewritten(t) \/ Moved(t) \/ Begun(t)

OneCall == store' = store \/ \E c \in Call : Accepts(store, c) /\ store' = Apply(store, c)

Effects ==
  /\ OneCall
  /\ \A t \in Tasks : RecordStep(t)
  /\ merged \subseteq merged'
  /\ \A c \in Children : session[c] # "unused" => session'[c] # "unused"

(* What is in hand: the record of an activation and those on its list.     *)
InHand(x, t, r) ==
  /\ x # Idle
  /\ \/ x.t = t /\ x.rec = r
     \/ \E i \in 1..Len(x.todo) : x.todo[i].t = t /\ x.todo[i].rec = r

(* A record of task t, read at some time, and the task's record now.       *)
Faithful(t, r) ==
  /\ Present(store, t) /\ r.status # "absent" /\ session[r.child] # "unused"
  /\ r.exec.merge = "merged" => t \in merged
  /\ \A u \in Tasks : Present(store, u) /\ store[u].child = r.child => u = t
  /\ store[t].child = r.child =>
       /\ r.key = store[t].key
       /\ r.bg = store[t].bg
       /\ r.status \in Terminal => store[t].status = r.status
  /\ AgentsStay => r.key = store[t].key
  /\ "continue" \notin Tools =>
       /\ r.child = store[t].child
       /\ r.exec.mode = store[t].exec.mode
       /\ r.status = "blocked" => CanBeBlocked(t)

Records ==
  \A t \in Tasks :
    /\ Present(store, t) => Faithful(t, store[t])
    /\ store[t].exec.merge = "merged" => t \in merged

Hands ==
  \A b \in Actors, t \in Tasks, r \in Record : InHand(act[b], t, r) => Faithful(t, r)

PassPcs == {"count", "launched", "unlaunched", "follow", "mode", "tell", "followed"}
CallPcs == {"send", "await", "integrate", "root", "merge", "record", "settle", "cleanup", "launchFailed"}
MergePcs == {"root", "merge", "record", "settle"}

(* Where an activation can be, and with what.                              *)
Ready(b, x, m) ==
  \/ x = Idle
  \/ /\ x \in Activations
     /\ b = Promoter <=> x.kind = "pass"
     /\ x.kind = "pass" => x.pc \in PassPcs
     /\ x.kind = "foreground" => x.pc \in CallPcs
     /\ x.kind \in {"pass", "cancel"} => x.todo # <<>>
     /\ x.pc \in {"abort", "cancel"} => x.kind = "cancel"
     /\ x.pc = "restart" => "continue" \in Tools
     /\ x.pc \in {"stale", "block"} => x.t \in TinyTasks
     /\ x.pc \in MergePcs => x.rec.exec.mode = "worktree"
     /\ x.pc = "record" => x.out \in DOMAIN MergeStatus /\ (x.out = "merged" => x.t \in m)
     /\ x.pc = "settle" => x.out \in DOMAIN Outcome
     /\ x.pc = "followed" => x.out \in {"pending", "delivered"}
     /\ x.pc = "cleanup" => x.rec.status \in Terminal

AllReady == \A b \in Actors : Ready(b, act[b], merged)

(* Without continued tasks, a task whose end the root is being told of is  *)
(* over, unless it was blocked.                                            *)
Telling ==
  \A b \in Actors : "continue" \notin Tools /\ act[b].pc \in {"mode", "tell"} =>
    store[act[b].t].status \in Terminal \/ CanBeBlocked(act[b].t)

(* There is room for the task that has been launched.                      *)
Room ==
  At(Promoter, "launched") => Cardinality(Running(My(Promoter).key)) < MaxRunning

Inv == TypeOK /\ Records /\ Hands /\ AllReady /\ Telling /\ Room /\ RunningCap

-----------------------------------------------------------------------------
(* The calls of the store.                                                 *)

(* A typed activation stays typed when its place and its record change.    *)
LEMMA Gone ==
  ASSUME NEW x \in Activations, NEW pc \in Pcs, NEW rec \in Record, NEW out \in Outs
  PROVE  [x EXCEPT !.pc = pc, !.rec = rec, !.out = out] \in Activations
BY DEF Activations

LEMMA Fields ==
  ASSUME NEW x \in Activations
  PROVE  /\ x # Idle /\ x.pc \in Pcs /\ x.pc # "idle" /\ x.t \in Tasks /\ x.rec \in Record
         /\ x.kind \in Kinds /\ x.out \in Outs /\ x.todo \in Seq([t : Tasks, rec : Record])
BY DEF Activations, Idle, Pcs

(* updateTask: the execution is written back.                              *)
LEMMA Updates ==
  ASSUME store \in Store, WellFormed(store), NEW t \in Tasks, Present(store, t),
         NEW e \in Exec, SetExec(t, e)
  PROVE  /\ OneCall /\ store' \in Store /\ WellFormed(store')
         /\ store'[t] = [store[t] EXCEPT !.exec = e]
         /\ \A u \in Tasks : u # t => store'[u] = store[u]
<1> DEFINE c == [op |-> "update", id |-> t, exec |-> e, asg |-> store[t].asg]
<1>1. store[t] \in Record /\ e \in Executions
  BY DelegationAssumption DEF Store
<1>2. c \in Call
  BY <1>1 DEF Call, UpdateCall, Record
<1>3. Accepts(store, c)
  BY DEF Accepts, UpdateAccepted
<1>4. store' = Apply(store, c)
  BY DEF SetExec, Apply, Updated
<1>5. store'[t] = [store[t] EXCEPT !.exec = e] /\ \A u \in Tasks : u # t => store'[u] = store[u]
  BY <1>1 DEF SetExec, Updated, Store, Record
<1> HIDE DEF c
<1> QED BY <1>2, <1>3, <1>4, <1>5, ApplyType, ApplyWellFormed DEF OneCall

(* transitionTask.                                                         *)
LEMMA Moves ==
  ASSUME store \in Store, WellFormed(store), NEW a, act[a].t \in Tasks,
         NEW s \in Stored, CanMove(a, s), Move(a, s)
  PROVE  /\ OneCall /\ store' \in Store /\ WellFormed(store')
         /\ Present(store, act[a].t) /\ TransitionAllowed(store[act[a].t].status, s)
         /\ store'[act[a].t] = [store[act[a].t] EXCEPT !.status = s]
         /\ \A u \in Tasks : u # act[a].t => store'[u] = store[u]
<1> DEFINE t == act[a].t
           c == [op |-> "transition", id |-> t, to |-> s]
<1>1. c \in Call
  BY DEF Call, TransitionCall
<1>2. Present(store, t) /\ TransitionAllowed(store[t].status, s)
  BY DEF CanMove, TransitionAccepted
<1>3. Accepts(store, c)
  BY <1>2 DEF Accepts, TransitionAccepted
<1>4. store' = Apply(store, c)
  BY DEF Move, Apply, Transitioned
<1>5. store'[t] = [store[t] EXCEPT !.status = s] /\ \A u \in Tasks : u # t => store'[u] = store[u]
  BY DEF Move, Transitioned, Store, Record
<1> HIDE DEF c
<1> QED BY <1>1, <1>2, <1>3, <1>4, <1>5, ApplyType, ApplyWellFormed DEF OneCall

-----------------------------------------------------------------------------
(* What follows from the effects of a step.                                *)

(* A task that is there stays, in its session or in a new one.             *)
LEMMA Stays ==
  ASSUME store \in Store, store' \in Store, NEW t \in Tasks, RecordStep(t), Present(store, t)
  PROVE  /\ Present(store', t)
         /\ ~Begun(t) => /\ store'[t].child = store[t].child
                         /\ store'[t].key = store[t].key
                         /\ store'[t].bg = store[t].bg
                         /\ store[t].status \in Terminal => store'[t].status = store[t].status
         /\ "continue" \notin Tools =>
              ~Begun(t) /\ store'[t].exec.mode = store[t].exec.mode
<1>1. store[t] \in Record /\ store'[t] \in Record /\ store[t].status \in Stored
  BY DEF Store, Record, Present
<1>2. CASE store'[t] = store[t]
  BY <1>1, <1>2 DEF Present, Begun
<1>3. CASE Rewritten(t)
  <2>1. PICK e \in Exec : /\ store'[t] = [store[t] EXCEPT !.exec = e]
                          /\ "continue" \notin Tools => e.mode = store[t].exec.mode
    BY <1>3 DEF Rewritten
  <2> QED BY <1>1, <2>1 DEF Present, Begun, Record
<1>4. CASE Moved(t)
  <2>1. PICK s \in Stored : /\ store'[t] = [store[t] EXCEPT !.status = s]
                            /\ TransitionAllowed(store[t].status, s)
    BY <1>4 DEF Moved
  <2>2. store[t].status \in Terminal => s = store[t].status
    BY <2>1 DEF TransitionAllowed, ValidTransitions, Terminal
  <2>3. s # "absent"
    BY DEF Stored
  <2> QED BY <1>1, <2>1, <2>2, <2>3 DEF Present, Begun, Record
<1>5. CASE Begun(t)
  BY <1>5 DEF Begun, Present
<1> QED BY <1>2, <1>3, <1>4, <1>5 DEF RecordStep

(* A record read once stays faithful.                                      *)
LEMMA FaithfulKept ==
  ASSUME store \in Store, store' \in Store, Effects, NEW t \in Tasks, NEW r \in Record,
         Faithful(t, r)
  PROVE  Faithful(t, r)'
<1>1. RecordStep(t) /\ Present(store, t)
  BY DEF Effects, Faithful
<1>2. Present(store', t)
  BY <1>1, Stays
<1>3. session'[r.child] # "unused" /\ (r.exec.merge = "merged" => t \in merged')
  BY DEF Effects, Faithful, Record
<1>4. ASSUME NEW u \in Tasks, Present(store', u), store'[u].child = r.child
      PROVE  u = t
  <2>1. CASE Begun(u)
    BY <1>4, <2>1 DEF Begun, Faithful
  <2>2. CASE ~Begun(u)
    <3>1. RecordStep(u)
      BY DEF Effects
    <3>2. Present(store, u)
      BY <2>2, <3>1, <1>4 DEF RecordStep, Rewritten, Moved, Present
    <3>3. store'[u].child = store[u].child
      BY <2>2, <3>1, <3>2, Stays
    <3> QED BY <1>4, <3>2, <3>3 DEF Faithful
  <2> QED BY <2>1, <2>2
<1>5. store'[t].child = r.child => ~Begun(t)
  BY DEF Begun, Faithful
<1>6. store'[t].child = r.child =>
        /\ r.key = store'[t].key
        /\ r.bg = store'[t].bg
        /\ r.status \in Terminal => store'[t].status = r.status
  BY <1>1, <1>5, Stays DEF Faithful
<1>7. AgentsStay => r.key = store'[t].key
  <2>1. CASE Begun(t)
    <3>1. r.key \in Keys /\ store'[t].key \in Keys
      BY DEF Store, Record
    <3> QED BY <1>1, <2>1, <3>1 DEF Begun, AgentsStay
  <2>2. CASE ~Begun(t)
    BY <1>1, <2>2, Stays DEF Faithful
  <2> QED BY <2>1, <2>2
<1>8. "continue" \notin Tools =>
        /\ r.child = store'[t].child
        /\ r.exec.mode = store'[t].exec.mode
        /\ r.status = "blocked" => CanBeBlocked(t)'
  BY <1>1, Stays DEF Faithful, CanBeBlocked
<1>9. r.status # "absent"
  BY DEF Faithful
<1> QED BY <1>2, <1>3, <1>4, <1>6, <1>7, <1>8, <1>9 DEF Faithful

LEMMA RecordsKept ==
  ASSUME store \in Store, store' \in Store, Effects, Records
  PROVE  Records'
<1> SUFFICES ASSUME NEW t \in Tasks
             PROVE  /\ Present(store', t) => Faithful(t, store[t])'
                    /\ store'[t].exec.merge = "merged" => t \in merged'
  BY DEF Records
<1>0. RecordStep(t) /\ store[t] \in Record /\ store'[t] \in Record
  BY DEF Effects, Store
<1>1. CASE store'[t] = store[t]
  <2>1. store[t].exec.merge = "merged" => t \in merged'
    BY DEF Records, Effects
  <2>2. ASSUME Present(store', t)
        PROVE  Faithful(t, store[t])'
    <3>1. Faithful(t, store[t])
      BY <1>1, <2>2 DEF Records, Present
    <3>2. PICK r \in Record : r = store[t]
      BY <1>0
    <3>3. Faithful(t, r)'
      BY <3>1, <3>2, FaithfulKept
    <3> QED BY <1>1, <3>2, <3>3 DEF Faithful
  <2> QED BY <1>1, <2>1, <2>2
<1>2. CASE Rewritten(t)
  <2>1. PICK e \in Exec : /\ store'[t] = [store[t] EXCEPT !.exec = e]
                          /\ e.merge = "merged" => t \in merged'
    BY <1>2 DEF Rewritten
  <2>a. PICK r \in Record : r = store[t]
    BY <1>0
  <2>2. Faithful(t, r) /\ Present(store, t)
    BY <1>2, <2>a DEF Records, Rewritten
  <2>3. /\ store'[t].exec = e /\ store'[t].status = r.status /\ store'[t].child = r.child
        /\ store'[t].key = r.key /\ store'[t].bg = r.bg
    BY <2>1, <2>a, <1>0 DEF Record
  <2>4. Faithful(t, r)'
    BY <2>2, FaithfulKept
  <2> QED BY <2>1, <2>3, <2>4 DEF Faithful
<1>3. CASE Moved(t)
  <2>1. PICK s \in Stored : /\ store'[t] = [store[t] EXCEPT !.status = s]
                            /\ s = "blocked" /\ "continue" \notin Tools => CanBeBlocked(t)
    BY <1>3 DEF Moved
  <2>a. PICK r \in Record : r = store[t]
    BY <1>0
  <2>2. Faithful(t, r) /\ Present(store, t)
    BY <1>3, <2>a DEF Records, Moved
  <2>3. /\ store'[t].exec = r.exec /\ store'[t].status = s /\ store'[t].child = r.child
        /\ store'[t].key = r.key /\ store'[t].bg = r.bg
    BY <2>1, <2>a, <1>0 DEF Record
  <2>4. s # "absent"
    BY DEF Stored
  <2>5. CanBeBlocked(t) => CanBeBlocked(t)'
    BY <2>a, <2>3 DEF CanBeBlocked
  <2>6. Faithful(t, r)'
    BY <2>2, FaithfulKept
  <2> QED BY <2>1, <2>3, <2>4, <2>5, <2>6 DEF Faithful
<1>4. CASE Begun(t)
  <2> DEFINE c == store'[t].child
  <2>1. \A u \in Tasks : Present(store', u) /\ store'[u].child = c => u = t
    <3> SUFFICES ASSUME NEW u \in Tasks, u # t, Present(store', u), store'[u].child = c
                 PROVE  FALSE
      OBVIOUS
    <3>1. store'[u] = store[u]
      BY <1>4 DEF Begun
    <3>2. session[store[u].child] # "unused"
      BY <3>1 DEF Records, Faithful, Present
    <3> QED BY <1>4, <3>1, <3>2 DEF Begun
  <2>2. /\ Present(store', t) /\ session'[c] # "unused" /\ store'[t].status # "absent"
        /\ store'[t].status # "blocked"
        /\ store'[t].exec.merge = "merged" => t \in merged'
    BY <1>4 DEF Begun, Present
  <2> QED BY <2>1, <2>2 DEF Faithful
<1> QED BY <1>0, <1>1, <1>2, <1>3, <1>4 DEF RecordStep

(* An actor reads records only as they are.                                *)
Reads(a) ==
  /\ \A b \in Actors : b # a => act'[b] = act[b]
  /\ \A t \in Tasks, r \in Record :
       InHand(act'[a], t, r) => InHand(act[a], t, r) \/ (Present(store', t) /\ r = store'[t])

LEMMA HandsKept ==
  ASSUME store \in Store, store' \in Store, Effects, Records, Hands, NEW a \in Actors, Reads(a)
  PROVE  Hands'
<1> SUFFICES ASSUME NEW b \in Actors, NEW t \in Tasks, NEW r \in Record, InHand(act'[b], t, r)
             PROVE  Faithful(t, r)'
  BY DEF Hands
<1>1. CASE InHand(act[b], t, r)
  BY <1>1, FaithfulKept DEF Hands
<1>2. CASE Present(store', t) /\ r = store'[t]
  <2>1. Faithful(t, store[t])'
    BY <1>2, RecordsKept DEF Records
  <2> QED BY <1>2, <2>1 DEF Faithful
<1> QED BY <1>1, <1>2 DEF Reads

-----------------------------------------------------------------------------
(* The step of one actor.                                                  *)

(* The types of what is neither a record nor an activation.                *)
Base ==
  /\ session \in [Children -> {"unused", "created", "busy", "idle", "error"}]
  /\ owed \subseteq {"idle", "error", "interrupt"} \X Children
  /\ calls \in 0..MaxCalls /\ passes \in Nat
  /\ tree \subseteq branches /\ branches \subseteq Tasks /\ merged \subseteq Tasks
  /\ told \in [Children -> Nat] /\ stopped \in BOOLEAN
  /\ unlisted \subseteq Tasks

(* Only a pass that begins sets unlisted.                                  *)
Surroundings ==
  /\ Base' /\ merged \subseteq merged'
  /\ passes = 0 \/ act[Promoter] # Idle => unlisted' = unlisted
  /\ \A c \in Children : session[c] # "unused" => session'[c] # "unused"

StoreStep ==
  /\ store' \in Store /\ WellFormed(store')
  /\ OneCall /\ \A t \in Tasks : RecordStep(t)

Acts(a) ==
  /\ act' \in [Actors -> {Idle} \cup Activations]
  /\ Reads(a)
  /\ Ready(a, act'[a], merged')

(* What a step must make sure of before it tells the root, before it       *)
(* starts a task and before a foreground call is over.                     *)
Tells(a) ==
  "continue" \notin Tools /\ act'[a].pc \in {"mode", "tell"} =>
    \/ store'[act'[a].t].status \in Terminal
    \/ act'[a].t \in TinyTasks \/ store'[act'[a].t].exec.mode = "worktree"

Launches(a) ==
  act'[a].pc = "launched" =>
    a = Promoter /\ store' = store /\ Cardinality(Running(act'[a].rec.key)) < MaxRunning

Leaves(a) ==
  ~At(a, "idle") /\ act'[a] = Idle /\ act[a].kind = "foreground" =>
    store'[act[a].t].status # "running" \/ store'[act[a].t].child # My(a).child

(* A task starts to run in the background only as the launched one.        *)
Starts ==
  \A t \in Tasks :
    store'[t].bg /\ store'[t].status = "running" /\ store[t].status # "running" =>
      At(Promoter, "launched") /\ act[Promoter].t = t /\ act'[Promoter].pc # "launched"

Good(a) ==
  /\ StoreStep /\ Surroundings /\ Acts(a)
  /\ Tells(a) /\ Launches(a) /\ Leaves(a) /\ Starts

LEMMA TypesAre == TypeOK <=> /\ store \in Store /\ WellFormed(store) /\ Base
                             /\ act \in [Actors -> {Idle} \cup Activations]
BY DEF TypeOK, Base

(* An activation that is under way.                                        *)
LEMMA Busy ==
  ASSUME Inv, NEW a \in Actors, act[a].pc # "idle"
  PROVE  /\ store \in Store /\ WellFormed(store) /\ Base
         /\ act \in [Actors -> {Idle} \cup Activations]
         /\ act[a] \in Activations /\ Ready(a, act[a], merged)
         /\ act[a].t \in Tasks /\ act[a].rec \in Record /\ Faithful(act[a].t, act[a].rec)
         /\ Present(store, act[a].t) /\ act[a] # Idle
         /\ act[a].pc \in Pcs /\ act[a].kind \in Kinds /\ act[a].out \in Outs
<1>1. act[a] \in Activations
  BY DEF Inv, TypeOK, Idle
<1>2. InHand(act[a], act[a].t, act[a].rec)
  BY <1>1, Fields DEF InHand
<1>3. Faithful(act[a].t, act[a].rec)
  BY <1>1, <1>2, Fields DEF Inv, Hands
<1> QED BY <1>1, <1>3, Fields, TypesAre DEF Inv, AllReady, Faithful

(* The records are left alone.                                             *)
LEMMA Untouched ==
  ASSUME store \in Store, WellFormed(store), UNCHANGED store
  PROVE  StoreStep
BY DEF StoreStep, OneCall, RecordStep, WellFormed, DepsOlder, OrdersDistinct, Present

(* An actor goes on.                                                       *)
LEMMA GoesOn ==
  ASSUME act \in [Actors -> {Idle} \cup Activations], NEW a \in Actors, act[a] \in Activations,
         NEW pc \in Pcs, NEW rec \in Record, NEW out \in Outs,
         rec = act[a].rec \/ (Present(store', act[a].t) /\ rec = store'[act[a].t]),
         act' = [act EXCEPT ![a] = [act[a] EXCEPT !.pc = pc, !.rec = rec, !.out = out]]
  PROVE  /\ act' \in [Actors -> {Idle} \cup Activations] /\ Reads(a)
         /\ act'[a] \in Activations /\ act'[a] # Idle
         /\ act'[a].pc = pc /\ act'[a].rec = rec /\ act'[a].out = out
         /\ act'[a].t = act[a].t /\ act'[a].kind = act[a].kind /\ act'[a].todo = act[a].todo
<1> DEFINE x == [act[a] EXCEPT !.pc = pc, !.rec = rec, !.out = out]
<1>1. x \in Activations
  BY Gone
<1>2. /\ x.pc = pc /\ x.rec = rec /\ x.out = out
      /\ x.t = act[a].t /\ x.kind = act[a].kind /\ x.todo = act[a].todo
  BY DEF Activations
<1>3. act'[a] = x /\ \A b \in Actors : b # a => act'[b] = act[b]
  OBVIOUS
<1>4. act' \in [Actors -> {Idle} \cup Activations]
  BY <1>1
<1>5. x # Idle /\ act[a] # Idle
  BY <1>1, Fields
<1> HIDE DEF x
<1>6. Reads(a)
  BY <1>2, <1>3, <1>5 DEF Reads, InHand
<1> QED BY <1>1, <1>2, <1>3, <1>4, <1>5, <1>6

LEMMA Gos ==
  ASSUME act \in [Actors -> {Idle} \cup Activations], NEW a \in Actors, act[a] \in Activations,
         NEW pc \in Pcs, NEW rec \in Record, Go(a, pc, rec),
         rec = act[a].rec \/ (Present(store', act[a].t) /\ rec = store'[act[a].t])
  PROVE  /\ act' \in [Actors -> {Idle} \cup Activations] /\ Reads(a)
         /\ act'[a] \in Activations /\ act'[a] # Idle
         /\ act'[a].pc = pc /\ act'[a].rec = rec /\ act'[a].out = act[a].out
         /\ act'[a].t = act[a].t /\ act'[a].kind = act[a].kind /\ act'[a].todo = act[a].todo
<1>1. act[a].out \in Outs
  BY Fields
<1>2. act' = [act EXCEPT ![a] = [act[a] EXCEPT !.pc = pc, !.rec = rec, !.out = act[a].out]]
  <2>1. [act[a] EXCEPT !.pc = pc, !.rec = rec] = [act[a] EXCEPT !.pc = pc, !.rec = rec, !.out = act[a].out]
    BY DEF Activations
  <2> QED BY <2>1 DEF Go
<1> QED BY <1>1, <1>2, GoesOn

(* It goes on with the same record.                                        *)
Noted(a, pc, out) ==
  \/ act' = [act EXCEPT ![a].pc = pc, ![a].out = out]
  \/ act' = [act EXCEPT ![a].out = out, ![a].pc = pc]
  \/ act' = [act EXCEPT ![a].pc = pc] /\ out = act[a].out

LEMMA Notes ==
  ASSUME act \in [Actors -> {Idle} \cup Activations], NEW a \in Actors, act[a] \in Activations,
         NEW pc \in Pcs, NEW out \in Outs,
         Noted(a, pc, out)
  PROVE  /\ act' \in [Actors -> {Idle} \cup Activations] /\ Reads(a)
         /\ act'[a] \in Activations /\ act'[a] # Idle
         /\ act'[a].pc = pc /\ act'[a].rec = act[a].rec /\ act'[a].out = out
         /\ act'[a].t = act[a].t /\ act'[a].kind = act[a].kind /\ act'[a].todo = act[a].todo
<1> DEFINE x == [act[a] EXCEPT !.pc = pc, !.rec = act[a].rec, !.out = out]
<1>1. /\ [[act[a] EXCEPT !.pc = pc] EXCEPT !.out = out] = x
      /\ [[act[a] EXCEPT !.out = out] EXCEPT !.pc = pc] = x
      /\ out = act[a].out => [act[a] EXCEPT !.pc = pc] = x
  BY DEF Activations
<1>2. act' = [act EXCEPT ![a] = x]
  <2>1. CASE act' = [act EXCEPT ![a].pc = pc, ![a].out = out]
    <3>1. act' = [act EXCEPT ![a] = [[act[a] EXCEPT !.pc = pc] EXCEPT !.out = out]]
      BY <2>1
    <3> HIDE DEF x
    <3> QED BY <1>1, <3>1
  <2>2. CASE act' = [act EXCEPT ![a].out = out, ![a].pc = pc]
    <3>1. act' = [act EXCEPT ![a] = [[act[a] EXCEPT !.out = out] EXCEPT !.pc = pc]]
      BY <2>2
    <3> HIDE DEF x
    <3> QED BY <1>1, <3>1
  <2>3. CASE act' = [act EXCEPT ![a].pc = pc] /\ out = act[a].out
    <3>1. act' = [act EXCEPT ![a] = [act[a] EXCEPT !.pc = pc]]
      BY <2>3
    <3> HIDE DEF x
    <3> QED BY <1>1, <2>3, <3>1
  <2> QED BY <2>1, <2>2, <2>3 DEF Noted
<1>3. act[a].rec \in Record
  BY Fields
<1> QED BY <1>2, <1>3, GoesOn

LEMMA Left ==
  ASSUME act \in [Actors -> {Idle} \cup Activations], NEW a \in Actors, Leave(a)
  PROVE  /\ Acts(a) /\ act'[a] = Idle /\ act'[a].pc = "idle"
<1>1. act'[a] = Idle /\ \A b \in Actors : b # a => act'[b] = act[b]
  BY DEF Leave
<1> QED BY <1>1 DEF Leave, Acts, Reads, InHand, Ready, Idle

LEMMA Throws ==
  ASSUME act \in [Actors -> {Idle} \cup Activations], NEW a \in Actors, act[a] \in Activations,
         Ready(a, act[a], merged), Throw(a)
  PROVE  /\ Acts(a) /\ Tells(a) /\ Launches(a) /\ Leaves(a)
<1>1. CASE act[a].kind = "foreground"
  <2>1. Go(a, "launchFailed", act[a].rec) /\ "launchFailed" \in Pcs /\ act[a].rec \in Record
    BY <1>1, Fields DEF Throw, My, Pcs
  <2>2. act' \in [Actors -> {Idle} \cup Activations] /\ Reads(a)
         /\ act'[a] \in Activations /\ act'[a] # Idle
         /\ act'[a].pc = "launchFailed"
         /\ act'[a].kind = act[a].kind
    BY <2>1, Gos
  <2>3. act[a] # Idle
    BY Fields
  <2>4. Ready(a, act'[a], merged')
    BY <1>1, <2>2, <2>3 DEF Ready, CallPcs, MergePcs
  <2> QED BY <2>2, <2>4 DEF Acts, Tells, Launches, Leaves
<1>2. CASE act[a].kind # "foreground"
  BY <1>2, Left DEF Throw, Tells, Launches, Leaves
<1> QED BY <1>1, <1>2

(* refreshTaskFromRuntime or integrateWorktreeTask returns.                *)
LEMMA Backs ==
  ASSUME act \in [Actors -> {Idle} \cup Activations], NEW a \in Actors, act[a] \in Activations,
         Ready(a, act[a], merged), NEW rec \in Record, Back(a, rec),
         rec = act[a].rec \/ (Present(store', act[a].t) /\ rec = store'[act[a].t]),
         act[a].kind = "foreground" =>
           store'[act[a].t].status # "running" \/ store'[act[a].t].child # My(a).child
  PROVE  /\ Acts(a) /\ Tells(a) /\ Launches(a) /\ Leaves(a)
<1>0. act[a] # Idle
  BY Fields
<1>1. ASSUME NEW pc \in {"follow", "look", "consume"}, Go(a, pc, rec),
             act[a].kind \notin {"pass", "foreground", "cancel"}
      PROVE  Acts(a) /\ Tells(a) /\ Launches(a) /\ Leaves(a)
  <2>1. act' \in [Actors -> {Idle} \cup Activations] /\ Reads(a)
         /\ act'[a] \in Activations /\ act'[a] # Idle
         /\ act'[a].pc = pc
         /\ act'[a].kind = act[a].kind
    <3>1. pc \in Pcs
      BY DEF Pcs
    <3> QED BY <1>1, <3>1, Gos
  <2>2. Ready(a, act'[a], merged')
    BY <1>0, <1>1, <2>1 DEF Ready, MergePcs
  <2> QED BY <2>1, <2>2, <1>1 DEF Acts, Tells, Launches, Leaves
<1>2. ASSUME Leave(a) PROVE Acts(a) /\ Tells(a) /\ Launches(a) /\ Leaves(a)
  BY <1>2, Left DEF Tells, Launches, Leaves
<1>3. CASE act[a].kind \in {"error", "interrupt"}
  BY <1>1, <1>3 DEF Back
<1>4. CASE act[a].kind = "idle" /\ rec.status # "running"
  BY <1>1, <1>4 DEF Back
<1>5. CASE act[a].kind = "output"
  <2>1. CASE rec.status \in Active
    BY <1>1, <1>5, <2>1 DEF Back
  <2>2. CASE rec.status \notin Active
    BY <1>1, <1>5, <2>2 DEF Back
  <2> QED BY <2>1, <2>2
<1>6. CASE /\ act[a].kind \notin {"error", "interrupt", "output"}
           /\ ~(act[a].kind = "idle" /\ rec.status # "running")
  BY <1>2, <1>6 DEF Back
<1> QED BY <1>3, <1>4, <1>5, <1>6

(* The execution in hand, or a changed one, is written back.               *)
Saving(t, r, e) ==
  /\ store \in Store /\ WellFormed(store) /\ t \in Tasks /\ r \in Record /\ Faithful(t, r)
  /\ e \in Exec /\ SetExec(t, e) /\ e.mode = r.exec.mode
  /\ e.merge = "merged" => t \in merged'

LEMMA PreparedSaves ==
  ASSUME NEW t, NEW r, NEW e, Saving(t, r, e)
  PROVE  /\ StoreStep /\ Starts
         /\ Present(store', t) /\ store'[t] \in Record
         /\ store'[t] = [store[t] EXCEPT !.exec = e]
         /\ store'[t].status = store[t].status /\ store'[t].child = store[t].child
         /\ store'[t].exec = e
<1>1. /\ store \in Store /\ WellFormed(store) /\ t \in Tasks /\ r \in Record
      /\ e \in Exec /\ SetExec(t, e) /\ e.mode = r.exec.mode
      /\ (e.merge = "merged" => t \in merged')
      /\ Faithful(t, r) /\ Present(store, t)
  BY DEF Saving, Faithful
<1>2. /\ OneCall /\ store' \in Store /\ WellFormed(store')
      /\ store'[t] = [store[t] EXCEPT !.exec = e]
      /\ \A u \in Tasks : u # t => store'[u] = store[u]
  BY <1>1, Updates
<1>3. Rewritten(t)
  BY <1>1, <1>2 DEF Rewritten, Faithful
<1>4. StoreStep
  BY <1>1, <1>2, <1>3 DEF StoreStep, RecordStep
<1>5. /\ store'[t].status = store[t].status /\ store'[t].child = store[t].child
      /\ store'[t].exec = e /\ store'[t].bg = store[t].bg
  BY <1>1, <1>2 DEF Store, Record
<1>6. Starts
  BY <1>1, <1>2, <1>5 DEF Starts
<1>7. Present(store', t) /\ store'[t] \in Record
  BY <1>1, <1>2, <1>5 DEF Present, Store
<1> QED BY <1>2, <1>4, <1>5, <1>6, <1>7

LEMMA Saves ==
  ASSUME store \in Store, WellFormed(store), NEW t \in Tasks, NEW r \in Record, Faithful(t, r),
         NEW e \in Exec, SetExec(t, e),
         e.merge = "merged" => t \in merged', e.mode = r.exec.mode
  PROVE  /\ StoreStep /\ Starts
         /\ Present(store', t) /\ store'[t] \in Record
         /\ store'[t] = [store[t] EXCEPT !.exec = e]
         /\ store'[t].status = store[t].status /\ store'[t].child = store[t].child
         /\ store'[t].exec = e
<1>1. Saving(t, r, e)
  BY DEF Saving
<1> QED BY <1>1, PreparedSaves

(* A status other than running is moved to.                                *)
LEMMA Settles ==
  ASSUME store \in Store, WellFormed(store), NEW a \in Actors, act[a].t \in Tasks,
         NEW s \in Stored, CanMove(a, s), Move(a, s),
         s # "running", s = "blocked" /\ "continue" \notin Tools => CanBeBlocked(act[a].t)
  PROVE  /\ StoreStep /\ Starts
         /\ Present(store', act[a].t) /\ store'[act[a].t] \in Record
         /\ store'[act[a].t].status = s
         /\ store'[act[a].t].child = store[act[a].t].child
         /\ store'[act[a].t].exec = store[act[a].t].exec
<1> DEFINE t == act[a].t
<1>1. /\ OneCall /\ store' \in Store /\ WellFormed(store')
      /\ Present(store, t) /\ TransitionAllowed(store[t].status, s)
      /\ store'[t] = [store[t] EXCEPT !.status = s]
      /\ \A u \in Tasks : u # t => store'[u] = store[u]
  BY Moves
<1>2. Moved(t)
  BY <1>1 DEF Moved
<1>3. StoreStep
  BY <1>1, <1>2 DEF StoreStep, RecordStep
<1>4. store'[t].status = s /\ store'[t].child = store[t].child /\ store'[t].exec = store[t].exec
  BY <1>1 DEF Store, Record
<1>5. Starts
  BY <1>1, <1>4 DEF Starts
<1>6. Present(store', t) /\ store'[t] \in Record
  BY <1>1, <1>4 DEF Present, Store, Stored
<1> QED BY <1>3, <1>4, <1>5, <1>6

LEMMA NothingStarts ==
  ASSUME UNCHANGED store
  PROVE  Starts
BY DEF Starts

(* A foreground call whose task no longer runs, or runs in another session.*)
LEMMA MovesBack ==
  ASSUME Inv, NEW a \in Actors, act[a].pc # "idle",
         NEW s \in Stored \ {"running"}, MoveBack(a, s),
         s = "blocked" /\ "continue" \notin Tools => CanBeBlocked(act[a].t)
  PROVE  /\ StoreStep /\ Starts /\ Acts(a) /\ Tells(a) /\ Launches(a) /\ Leaves(a)
<1>1. /\ store \in Store /\ WellFormed(store)
      /\ act \in [Actors -> {Idle} \cup Activations]
      /\ act[a] \in Activations /\ Ready(a, act[a], merged) /\ act[a].t \in Tasks
  BY Busy
<1>2. CASE CanMove(a, s) /\ Move(a, s) /\ Back(a, store'[act[a].t])
  <2>1. /\ StoreStep /\ Starts
        /\ Present(store', act[a].t) /\ store'[act[a].t] \in Record
        /\ store'[act[a].t].status = s
    BY <1>1, <1>2, Settles
  <2>2. PICK r \in Record : r = store'[act[a].t]
    BY <2>1
  <2>3. Back(a, r)
    BY <1>2, <2>2
  <2>4. s # "running"
    OBVIOUS
  <2>5. /\ Acts(a) /\ Tells(a) /\ Launches(a) /\ Leaves(a)
    BY <1>1, <2>1, <2>2, <2>3, <2>4, Backs
  <2> QED BY <2>1, <2>5
<1>3. CASE Throw(a) /\ UNCHANGED store
  BY <1>1, <1>3, Untouched, NothingStarts, Throws
<1> QED BY <1>2, <1>3 DEF MoveBack

LEMMA Around ==
  ASSUME Base, UNCHANGED <<runtime, calls, git, told, stopped, unlisted>>, passes' \in Nat
  PROVE  Surroundings
BY DEF Base, Surroundings, runtime, git

LEMMA MorePasses ==
  ASSUME NEW n \in Nat
  PROVE  More(n) \in Nat
BY DelegationAssumption DEF More

-----------------------------------------------------------------------------
(* refreshTaskFromRuntime, one lemma per action.                           *)

LEMMA ReadStatusIsGood ==
  ASSUME Inv, NEW a \in Actors, ReadStatus(a)
  PROVE  Good(a)
<1>1. At(a, "status") /\ UNCHANGED <<store, runtime, passes, calls, git, told, stopped, unlisted>>
  BY DEF ReadStatus
<1>2. /\ store \in Store /\ WellFormed(store) /\ Base
      /\ act \in [Actors -> {Idle} \cup Activations]
      /\ act[a] \in Activations /\ Ready(a, act[a], merged)
      /\ act[a].t \in Tasks /\ act[a].rec \in Record /\ Faithful(act[a].t, act[a].rec)
      /\ act[a].kind # "foreground" /\ act[a].kind # "pass" /\ act[a] # Idle
  BY <1>1, Busy DEF At, Ready, CallPcs, PassPcs
<1>3. StoreStep /\ Starts /\ Surroundings
  BY <1>1, <1>2, Untouched, NothingStarts, Around DEF Base
<1>4. CASE Back(a, My(a))
  BY <1>2, <1>3, <1>4, Backs DEF Good, My
<1>5. ASSUME NEW seen \in SessionSeen(My(a).child),
             NEW now, now = IF seen = "unknown" /\ act[a].kind = "idle" THEN "idle" ELSE seen,
             act' = [act EXCEPT ![a].pc = IF now = "error" THEN "sessionFailed" ELSE "telemetry",
                                ![a].out = now]
      PROVE  Good(a)
  <2>1. now \in Outs
    BY <1>5 DEF SessionSeen, Outs
  <2>2. PICK pc \in Pcs : /\ pc = IF now = "error" THEN "sessionFailed" ELSE "telemetry"
                          /\ pc \in {"sessionFailed", "telemetry"}
    BY DEF Pcs
  <2>3. Noted(a, pc, now)
    BY <1>5, <2>2 DEF Noted
  <2>4. /\ act' \in [Actors -> {Idle} \cup Activations] /\ Reads(a)
        /\ act'[a] \in Activations /\ act'[a] # Idle /\ act'[a].pc = pc
        /\ act'[a].kind = act[a].kind /\ act'[a].todo = act[a].todo
    BY <1>2, <2>1, <2>3, Notes
  <2>5. Ready(a, act'[a], merged')
    BY <1>2, <2>2, <2>4 DEF Ready, MergePcs
  <2> QED BY <1>3, <2>2, <2>4, <2>5 DEF Good, Acts, Tells, Launches, Leaves
<1>6. CASE Throw(a)
  BY <1>2, <1>3, <1>6, Throws DEF Good
<1> QED BY <1>1, <1>4, <1>5, <1>6 DEF ReadStatus

LEMMA SessionFailedIsGood ==
  ASSUME Inv, NEW a \in Actors, SessionFailed(a)
  PROVE  Good(a)
<1>1. act[a].pc # "idle" /\ MoveBack(a, "failed")
      /\ UNCHANGED <<runtime, passes, calls, git, told, stopped, unlisted>>
  BY DEF SessionFailed, At
<1>2. Surroundings
  BY <1>1, Busy, Around DEF Base
<1>3. "failed" \in Stored \ {"running"}
  BY DEF Stored
<1> QED BY <1>1, <1>2, <1>3, MovesBack DEF Good

LEMMA TelemetryIsGood ==
  ASSUME Inv, NEW a \in Actors, Telemetry(a)
  PROVE  Good(a)
<1>1. At(a, "telemetry") /\ UNCHANGED <<runtime, passes, calls, git, told, stopped, unlisted>>
  BY DEF Telemetry
<1>2. /\ store \in Store /\ WellFormed(store) /\ Base
      /\ act \in [Actors -> {Idle} \cup Activations]
      /\ act[a] \in Activations /\ Ready(a, act[a], merged)
      /\ act[a].t \in Tasks /\ act[a].rec \in Record /\ Faithful(act[a].t, act[a].rec)
      /\ act[a].kind # "foreground" /\ act[a].kind # "pass" /\ act[a] # Idle
  BY <1>1, Busy DEF At, Ready, CallPcs, PassPcs
<1>3. Surroundings
  BY <1>1, <1>2, Around DEF Base
<1>4. ASSUME NEW rec \in Record, StoreStep, Starts,
             rec = act[a].rec \/ (Present(store', act[a].t) /\ rec = store'[act[a].t]),
             IF act[a].out # "idle" THEN Back(a, rec)
             ELSE \/ Go(a, "integrate", rec)
                  \/ act[a].t \in TinyTasks /\ rec.status = "running" /\ Go(a, "stale", rec)
      PROVE  Good(a)
  <2>1. CASE Back(a, rec)
    BY <1>2, <1>3, <1>4, <2>1, Backs DEF Good
  <2>2. ASSUME NEW pc \in {"integrate", "stale"}, Go(a, pc, rec),
               pc = "stale" => act[a].t \in TinyTasks
        PROVE  Good(a)
    <3>1. pc \in Pcs
      BY DEF Pcs
    <3>2. /\ act' \in [Actors -> {Idle} \cup Activations] /\ Reads(a)
          /\ act'[a] \in Activations /\ act'[a] # Idle /\ act'[a].pc = pc
          /\ act'[a].t = act[a].t
          /\ act'[a].kind = act[a].kind /\ act'[a].todo = act[a].todo
      BY <1>2, <1>4, <2>2, <3>1, Gos
    <3>3. Ready(a, act'[a], merged')
      BY <1>2, <2>2, <3>2 DEF Ready, MergePcs
    <3> QED BY <1>3, <1>4, <2>2, <3>2, <3>3 DEF Good, Acts, Tells, Launches, Leaves
  <2> QED BY <1>4, <2>1, <2>2
<1>5. CASE Throw(a) /\ UNCHANGED store
  BY <1>2, <1>3, <1>5, Untouched, NothingStarts, Throws DEF Good
<1>6. ASSUME SetExec(act[a].t, My(a).exec),
             IF act[a].out # "idle" THEN Back(a, store'[act[a].t])
             ELSE \/ Go(a, "integrate", store'[act[a].t])
                  \/ /\ act[a].t \in TinyTasks /\ store'[act[a].t].status = "running"
                     /\ Go(a, "stale", store'[act[a].t])
      PROVE  Good(a)
  <2>1. act[a].rec.exec \in Exec
    BY <1>2, DelegationAssumption DEF Record
  <2>2. act[a].rec.exec.merge = "merged" => act[a].t \in merged'
    BY <1>1, <1>2 DEF Faithful, git
  <2>3. StoreStep /\ Starts /\ Present(store', act[a].t) /\ store'[act[a].t] \in Record
    BY <1>2, <1>6, <2>1, <2>2, Saves DEF My
  <2>4. PICK rec \in Record : rec = store'[act[a].t]
    BY <2>3
  <2> QED BY <1>4, <1>6, <2>3, <2>4
<1>7. ASSUME UNCHANGED store,
             IF act[a].out # "idle" THEN Back(a, My(a))
             ELSE \/ Go(a, "integrate", My(a))
                  \/ act[a].t \in TinyTasks /\ My(a).status = "running" /\ Go(a, "stale", My(a))
      PROVE  Good(a)
  BY <1>2, <1>4, <1>7, Untouched, NothingStarts DEF My
<1> QED BY <1>5, <1>6, <1>7 DEF Telemetry

LEMMA SaveStaleIsGood ==
  ASSUME Inv, NEW a \in Actors, SaveStale(a)
  PROVE  Good(a)
<1>1. /\ At(a, "stale") /\ UNCHANGED <<runtime, passes, calls, git, told, stopped, unlisted>>
      /\ SetExec(act[a].t, act[a].rec.exec) /\ Go(a, "block", act[a].rec)
  BY DEF SaveStale, My
<1>2. /\ store \in Store /\ WellFormed(store) /\ Base
      /\ act \in [Actors -> {Idle} \cup Activations]
      /\ act[a] \in Activations /\ Ready(a, act[a], merged)
      /\ act[a].t \in Tasks /\ act[a].rec \in Record /\ Faithful(act[a].t, act[a].rec)
      /\ act[a].kind # "foreground" /\ act[a].kind # "pass" /\ act[a] # Idle
      /\ act[a].t \in TinyTasks
  BY <1>1, Busy DEF At, Ready, CallPcs, PassPcs
<1>3. Surroundings
  BY <1>1, <1>2, Around DEF Base
<1>4. StoreStep /\ Starts
  <2>1. act[a].rec.exec \in Exec
    BY <1>2, DelegationAssumption DEF Record
  <2>2. act[a].rec.exec.merge = "merged" => act[a].t \in merged'
    BY <1>1, <1>2 DEF Faithful, git
  <2> QED BY <1>1, <1>2, <2>1, <2>2, Saves
<1>5. "block" \in Pcs
  BY DEF Pcs
<1>6. /\ act' \in [Actors -> {Idle} \cup Activations] /\ Reads(a)
      /\ act'[a] \in Activations /\ act'[a] # Idle /\ act'[a].pc = "block"
      /\ act'[a].t = act[a].t
      /\ act'[a].kind = act[a].kind /\ act'[a].todo = act[a].todo
  BY <1>1, <1>2, <1>5, Gos
<1>7. Ready(a, act'[a], merged')
  BY <1>2, <1>6 DEF Ready, MergePcs
<1> QED BY <1>3, <1>4, <1>6, <1>7 DEF Good, Acts, Tells, Launches, Leaves

LEMMA BlockStaleIsGood ==
  ASSUME Inv, NEW a \in Actors, BlockStale(a)
  PROVE  Good(a)
<1>1. act[a].pc = "block" /\ MoveBack(a, "blocked")
      /\ UNCHANGED <<runtime, passes, calls, git, told, stopped, unlisted>>
  BY DEF BlockStale, At
<1>2. Surroundings
  BY <1>1, Busy, Around DEF Base
<1>3. "blocked" \in Stored \ {"running"} /\ CanBeBlocked(act[a].t)
  BY <1>1, Busy DEF Stored, CanBeBlocked, Ready
<1> QED BY <1>1, <1>2, <1>3, MovesBack DEF Good

-----------------------------------------------------------------------------
(* integrateWorktreeTask                                                   *)

LEMMA IntegrateIsGood ==
  ASSUME Inv, NEW a \in Actors, Integrate(a)
  PROVE  Good(a)
<1>1. At(a, "integrate") /\ UNCHANGED <<runtime, passes, calls, git, told, stopped, unlisted>>
  BY DEF Integrate
<1>2. /\ store \in Store /\ WellFormed(store) /\ Base
      /\ act \in [Actors -> {Idle} \cup Activations]
      /\ act[a] \in Activations /\ Ready(a, act[a], merged)
      /\ act[a].kind # "pass" /\ act[a] # Idle /\ act[a].pc # "idle"
  BY <1>1, Busy DEF At, Ready, PassPcs
<1>3. Surroundings
  BY <1>1, <1>2, Around DEF Base
<1>4. CASE MoveBack(a, "succeeded")
  <2>1. "succeeded" \in Stored \ {"running"}
    BY DEF Stored
  <2> QED BY <1>2, <1>3, <1>4, <2>1, MovesBack DEF Good
<1>5. CASE Throw(a) /\ UNCHANGED store
  BY <1>2, <1>3, <1>5, Untouched, NothingStarts, Throws DEF Good
<1>6. ASSUME UNCHANGED store, act[a].rec.exec.mode = "worktree",
             NEW verdict \in {"unchanged", "uncheckable", "unstaged", "unverified", "passed"},
             act' = [act EXCEPT ![a].out = verdict,
                                ![a].pc = CASE verdict = "passed" -> "root"
                                            [] verdict = "unstaged" -> "settle"
                                            [] OTHER -> "record"]
      PROVE  Good(a)
  <2>1. verdict \in Outs
    BY DEF Outs, Outcome
  <2>2. PICK pc \in Pcs : /\ pc = CASE verdict = "passed" -> "root"
                                    [] verdict = "unstaged" -> "settle"
                                    [] OTHER -> "record"
                          /\ pc \in {"root", "settle", "record"}
                          /\ pc = "settle" => verdict = "unstaged"
                          /\ pc = "record" => verdict \in {"unchanged", "uncheckable", "unverified"}
    BY DEF Pcs
  <2>3. Noted(a, pc, verdict)
    BY <1>6, <2>2 DEF Noted
  <2>4. /\ act' \in [Actors -> {Idle} \cup Activations] /\ Reads(a)
        /\ act'[a] \in Activations /\ act'[a] # Idle /\ act'[a].pc = pc
        /\ act'[a].out = verdict /\ act'[a].rec = act[a].rec
        /\ act'[a].kind = act[a].kind /\ act'[a].todo = act[a].todo
    BY <1>2, <2>1, <2>3, Notes
  <2>5. (pc = "record" => verdict \in DOMAIN MergeStatus) /\ (pc = "settle" => verdict \in DOMAIN Outcome)
    BY <2>2 DEF MergeStatus, Outcome
  <2>6. Ready(a, act'[a], merged')
    BY <1>2, <1>6, <2>2, <2>4, <2>5 DEF Ready, CallPcs
  <2> QED BY <1>2, <1>3, <1>6, <2>2, <2>4, <2>6, Untouched, NothingStarts
          DEF Good, Acts, Tells, Launches, Leaves
<1> QED BY <1>1, <1>4, <1>5, <1>6 DEF Integrate, My

LEMMA CheckRootIsGood ==
  ASSUME Inv, NEW a \in Actors, CheckRoot(a)
  PROVE  Good(a)
<1>1. At(a, "root") /\ UNCHANGED <<store, runtime, passes, calls, git, told, stopped, unlisted>>
  BY DEF CheckRoot
<1>2. /\ store \in Store /\ WellFormed(store) /\ Base
      /\ act \in [Actors -> {Idle} \cup Activations]
      /\ act[a] \in Activations /\ Ready(a, act[a], merged)
      /\ act[a].kind # "pass" /\ act[a] # Idle /\ act[a].rec \in Record
      /\ act[a].rec.exec.mode = "worktree"
  BY <1>1, Busy DEF At, Ready, PassPcs, MergePcs
<1>3. StoreStep /\ Starts /\ Surroundings
  BY <1>1, <1>2, Untouched, NothingStarts, Around DEF Base
<1>4. CASE act' = [act EXCEPT ![a].out = "deferred", ![a].pc = "record"]
  <2>1. "deferred" \in Outs /\ "record" \in Pcs /\ "deferred" \in DOMAIN MergeStatus
    BY DEF Outs, Outcome, Pcs, MergeStatus
  <2>2. Noted(a, "record", "deferred")
    BY <1>4 DEF Noted
  <2>3. /\ act' \in [Actors -> {Idle} \cup Activations] /\ Reads(a)
        /\ act'[a] \in Activations /\ act'[a] # Idle /\ act'[a].pc = "record"
        /\ act'[a].out = "deferred" /\ act'[a].rec = act[a].rec
        /\ act'[a].kind = act[a].kind /\ act'[a].todo = act[a].todo
    BY <1>2, <2>1, <2>2, Notes
  <2>4. Ready(a, act'[a], merged')
    BY <1>2, <2>1, <2>3 DEF Ready, CallPcs
  <2> QED BY <1>3, <2>3, <2>4 DEF Good, Acts, Tells, Launches, Leaves
<1>5. CASE Go(a, "merge", My(a))
  <2>1. Go(a, "merge", act[a].rec) /\ "merge" \in Pcs
    BY <1>5 DEF My, Pcs
  <2>2. /\ act' \in [Actors -> {Idle} \cup Activations] /\ Reads(a)
        /\ act'[a] \in Activations /\ act'[a] # Idle /\ act'[a].pc = "merge"
        /\ act'[a].rec = act[a].rec
        /\ act'[a].kind = act[a].kind /\ act'[a].todo = act[a].todo
    BY <1>2, <2>1, Gos
  <2>3. Ready(a, act'[a], merged')
    BY <1>2, <2>2 DEF Ready, CallPcs
  <2> QED BY <1>3, <2>2, <2>3 DEF Good, Acts, Tells, Launches, Leaves
<1> QED BY <1>4, <1>5 DEF CheckRoot

LEMMA MergeIsGood ==
  ASSUME Inv, NEW a \in Actors, Merge(a)
  PROVE  Good(a)
<1>1. At(a, "merge") /\ UNCHANGED <<store, runtime, passes, calls, tree, branches, told, stopped, unlisted>>
  BY DEF Merge
<1>2. /\ store \in Store /\ WellFormed(store) /\ Base
      /\ act \in [Actors -> {Idle} \cup Activations]
      /\ act[a] \in Activations /\ Ready(a, act[a], merged) /\ act[a].t \in Tasks
      /\ act[a].kind # "pass" /\ act[a] # Idle /\ act[a].rec \in Record
      /\ act[a].rec.exec.mode = "worktree"
  BY <1>1, Busy DEF At, Ready, PassPcs, MergePcs
<1>3. PICK out \in {"merged", "conflicted"} :
        /\ act' = [act EXCEPT ![a].out = out, ![a].pc = "record"]
        /\ merged' = IF out = "merged" THEN merged \cup {act[a].t} ELSE merged
  BY DEF Merge
<1>4. StoreStep /\ Starts
  BY <1>1, <1>2, Untouched, NothingStarts
<1>5. Surroundings
  BY <1>1, <1>2, <1>3 DEF Base, Surroundings, runtime
<1>6. "record" \in Pcs /\ out \in Outs /\ out \in DOMAIN MergeStatus
  BY DEF Pcs, Outs, Outcome, MergeStatus
<1>7. Noted(a, "record", out)
  BY <1>3 DEF Noted
<1>8. /\ act' \in [Actors -> {Idle} \cup Activations] /\ Reads(a)
      /\ act'[a] \in Activations /\ act'[a] # Idle /\ act'[a].pc = "record"
      /\ act'[a].out = out /\ act'[a].rec = act[a].rec /\ act'[a].t = act[a].t
      /\ act'[a].kind = act[a].kind /\ act'[a].todo = act[a].todo
  BY <1>2, <1>6, <1>7, Notes
<1>9. Ready(a, act'[a], merged')
  BY <1>2, <1>3, <1>6, <1>8 DEF Ready, CallPcs
<1> QED BY <1>4, <1>5, <1>8, <1>9 DEF Good, Acts, Tells, Launches, Leaves

LEMMA RecordMergeIsGood ==
  ASSUME Inv, NEW a \in Actors, RecordMerge(a)
  PROVE  Good(a)
<1> DEFINE e == [act[a].rec.exec EXCEPT !.merge = MergeStatus[act[a].out]]
<1>1. /\ At(a, "record") /\ UNCHANGED <<runtime, passes, calls, git, told, stopped, unlisted>>
      /\ SetExec(act[a].t, e) /\ Go(a, "settle", store'[act[a].t])
  BY DEF RecordMerge, My
<1>2. /\ store \in Store /\ WellFormed(store) /\ Base
      /\ act \in [Actors -> {Idle} \cup Activations]
      /\ act[a] \in Activations /\ Ready(a, act[a], merged)
      /\ act[a].t \in Tasks /\ act[a].rec \in Record /\ Faithful(act[a].t, act[a].rec)
      /\ act[a].kind # "pass" /\ act[a] # Idle /\ act[a].rec.exec.mode = "worktree"
      /\ act[a].out \in DOMAIN MergeStatus /\ (act[a].out = "merged" => act[a].t \in merged)
  BY <1>1, Busy DEF At, Ready, PassPcs, MergePcs
<1>3. Surroundings
  BY <1>1, <1>2, Around DEF Base
<1>4. MergeStatus[act[a].out] \in {"bypassed", "failed", "deferred", "conflicted", "merged"}
      /\ (MergeStatus[act[a].out] = "merged" => act[a].out = "merged")
      /\ act[a].out \in DOMAIN Outcome
  BY <1>2 DEF MergeStatus, Outcome
<1>5. e \in Exec /\ e.mode = act[a].rec.exec.mode /\ e.merge = MergeStatus[act[a].out]
  BY <1>2, <1>4, DelegationAssumption DEF Record, Exec
<1>6. e.merge = "merged" => act[a].t \in merged'
  BY <1>1, <1>2, <1>4, <1>5 DEF git
<1>7. /\ StoreStep /\ Starts
      /\ Present(store', act[a].t) /\ store'[act[a].t] \in Record
      /\ store'[act[a].t].exec = e
  <2> HIDE DEF e
  <2>1. PICK t \in Tasks : t = act[a].t
    BY <1>2
  <2>2. PICK r \in Record : r = act[a].rec
    BY <1>2
  <2>3. PICK x \in Exec : x = e
    BY <1>5
  <2>4. SetExec(t, x)
    BY <1>1, <2>1, <2>3
  <2>5. Saving(t, r, x)
    BY <1>1, <1>2, <1>5, <1>6, <2>1, <2>2, <2>3, <2>4 DEF Saving
  <2>6. /\ StoreStep /\ Starts /\ Present(store', t) /\ store'[t] \in Record
        /\ store'[t].status = store[t].status /\ store'[t].exec = x
    BY <2>5, PreparedSaves
  <2> QED BY <2>1, <2>3, <2>6
<1>8. PICK r \in Record : r = store'[act[a].t] /\ r.exec.mode = "worktree"
  BY <1>2, <1>5, <1>7
<1>9. Go(a, "settle", r) /\ "settle" \in Pcs
  BY <1>1, <1>8 DEF Pcs
<1>10. /\ act' \in [Actors -> {Idle} \cup Activations] /\ Reads(a)
      /\ act'[a] \in Activations /\ act'[a] # Idle /\ act'[a].pc = "settle"
      /\ act'[a].rec = r /\ act'[a].t = act[a].t /\ act'[a].out = act[a].out
      /\ act'[a].kind = act[a].kind /\ act'[a].todo = act[a].todo
  BY <1>2, <1>7, <1>8, <1>9, Gos
<1>11. Ready(a, act'[a], merged')
  BY <1>2, <1>4, <1>8, <1>10 DEF Ready, CallPcs
<1> QED BY <1>3, <1>7, <1>10, <1>11 DEF Good, Acts, Tells, Launches, Leaves

LEMMA SettleOutcomeIsGood ==
  ASSUME Inv, NEW a \in Actors, SettleOutcome(a)
  PROVE  Good(a)
<1>1. At(a, "settle") /\ UNCHANGED <<runtime, passes, calls, git, told, stopped, unlisted>>
  BY DEF SettleOutcome
<1>2. /\ store \in Store /\ WellFormed(store) /\ Base
      /\ act \in [Actors -> {Idle} \cup Activations]
      /\ act[a] \in Activations /\ Ready(a, act[a], merged)
      /\ act[a].t \in Tasks /\ act[a].rec \in Record /\ Faithful(act[a].t, act[a].rec)
      /\ act[a].kind # "pass" /\ act[a] # Idle /\ act[a].rec.exec.mode = "worktree"
      /\ act[a].out \in DOMAIN Outcome /\ act[a].pc # "idle"
  BY <1>1, Busy DEF At, Ready, PassPcs, MergePcs
<1>3. Surroundings
  BY <1>1, <1>2, Around DEF Base
<1>4. PICK to \in {"succeeded", "failed", "blocked"} :
        to = Outcome[act[a].out] /\ (act[a].out \in Cleaned => to # "blocked")
  BY <1>2 DEF Outcome, Cleaned
<1>5. to \in Stored \ {"running"} /\ (to = "blocked" /\ "continue" \notin Tools => CanBeBlocked(act[a].t))
  BY <1>2 DEF Stored, CanBeBlocked, Faithful
<1>6. CASE act[a].out \in Cleaned /\ CanMove(a, to)
  <2>1. Move(a, to) /\ Go(a, "cleanup", store'[act[a].t])
    BY <1>4, <1>6 DEF SettleOutcome
  <2>2. /\ StoreStep /\ Starts
        /\ Present(store', act[a].t) /\ store'[act[a].t] \in Record
        /\ store'[act[a].t].status = to
    BY <1>2, <1>5, <1>6, <2>1, Settles
  <2>3. PICK r \in Record : r = store'[act[a].t] /\ r.status \in Terminal
    BY <1>4, <1>6, <2>2 DEF Terminal
  <2>4. Go(a, "cleanup", r) /\ "cleanup" \in Pcs
    BY <2>1, <2>3 DEF Pcs
  <2>5. /\ act' \in [Actors -> {Idle} \cup Activations] /\ Reads(a)
        /\ act'[a] \in Activations /\ act'[a] # Idle /\ act'[a].pc = "cleanup"
        /\ act'[a].rec = r
        /\ act'[a].kind = act[a].kind /\ act'[a].todo = act[a].todo
    BY <1>2, <2>2, <2>3, <2>4, Gos
  <2>6. Ready(a, act'[a], merged')
    BY <1>2, <2>3, <2>5 DEF Ready, CallPcs, MergePcs
  <2> QED BY <1>3, <2>2, <2>5, <2>6 DEF Good, Acts, Tells, Launches, Leaves
<1>7. CASE ~(act[a].out \in Cleaned /\ CanMove(a, to))
  <2>1. MoveBack(a, to)
    BY <1>4, <1>7 DEF SettleOutcome
  <2> QED BY <1>2, <1>3, <1>5, <2>1, MovesBack DEF Good
<1> QED BY <1>6, <1>7

LEMMA CleanupIsGood ==
  ASSUME Inv, NEW a \in Actors, Cleanup(a)
  PROVE  Good(a)
<1>1. /\ At(a, "cleanup") /\ UNCHANGED <<runtime, passes, calls, merged, told, stopped, unlisted>>
      /\ SetExec(act[a].t, act[a].rec.exec) /\ Back(a, store'[act[a].t])
  BY DEF Cleanup, My
<1>2. /\ store \in Store /\ WellFormed(store) /\ Base
      /\ act \in [Actors -> {Idle} \cup Activations]
      /\ act[a] \in Activations /\ Ready(a, act[a], merged)
      /\ act[a].t \in Tasks /\ act[a].rec \in Record /\ Faithful(act[a].t, act[a].rec)
      /\ act[a].rec.status \in Terminal /\ act[a] # Idle
  BY <1>1, Busy DEF At, Ready
<1>3. Surroundings
  <2>1. tree' \subseteq branches' /\ branches' \subseteq branches
    BY <1>2 DEF Cleanup, Base
  <2> QED BY <1>1, <1>2, <2>1 DEF Base, Surroundings, runtime
<1>4. /\ StoreStep /\ Starts
      /\ Present(store', act[a].t) /\ store'[act[a].t] \in Record
      /\ store'[act[a].t].status = store[act[a].t].status
      /\ store'[act[a].t].child = store[act[a].t].child
  <2>1. act[a].rec.exec \in Exec
    BY <1>2, DelegationAssumption DEF Record
  <2>2. act[a].rec.exec.merge = "merged" => act[a].t \in merged'
    BY <1>1, <1>2 DEF Faithful
  <2> QED BY <1>1, <1>2, <2>1, <2>2, Saves
<1>5. store'[act[a].t].status # "running" \/ store'[act[a].t].child # My(a).child
  BY <1>2, <1>4 DEF Faithful, My, Terminal
<1>6. PICK r \in Record : r = store'[act[a].t]
  BY <1>4
<1>7. Back(a, r)
  BY <1>1, <1>6
<1>8. Acts(a) /\ Tells(a) /\ Launches(a) /\ Leaves(a)
  BY <1>2, <1>4, <1>5, <1>6, <1>7, Backs
<1> QED BY <1>3, <1>4, <1>8 DEF Good

-----------------------------------------------------------------------------
(* handleRootFollowThrough                                                 *)

LEMMA LongTail ==
  ASSUME NEW S, NEW q \in Seq(S), q # <<>>, Len(q) # 1
  PROVE  /\ q[2] \in S /\ 2 \in 1..Len(q)
         /\ Tail(q) \in Seq(S) /\ Tail(q) # <<>>
         /\ \A i \in 1..Len(Tail(q)) : i + 1 \in 1..Len(q) /\ Tail(q)[i] = q[i + 1]
<1>1. Len(q) \in Nat /\ Len(q) # 0
  OBVIOUS
<1>2. Len(q) >= 2
  <2>1. PICK n \in Nat : n = Len(q)
    BY <1>1
  <2>2. n # 0 /\ n # 1
    BY <1>1, <2>1
  <2> QED BY <2>1, <2>2
<1>3. q[2] \in S /\ 2 \in 1..Len(q)
  BY <1>1, <1>2
<1>4. Tail(q) \in Seq(S) /\ Len(Tail(q)) = Len(q) - 1
  BY <1>1, <1>2
<1>5. Tail(q) # <<>>
  BY <1>1, <1>2, <1>4
<1>6. \A i \in 1..Len(Tail(q)) : i + 1 \in 1..Len(q) /\ Tail(q)[i] = q[i + 1]
  BY <1>1, <1>2, <1>4
<1> QED BY <1>3, <1>4, <1>5, <1>6

(* The list of a pass or of a cancellation without its first task.         *)
LEMMA Rest ==
  ASSUME NEW x \in Activations, x.todo # <<>>, Len(x.todo) # 1
  PROVE  /\ x.todo[2] \in [t : Tasks, rec : Record] /\ 2 \in 1..Len(x.todo)
         /\ Tail(x.todo) \in Seq([t : Tasks, rec : Record]) /\ Tail(x.todo) # <<>>
         /\ \A i \in 1..Len(Tail(x.todo)) : i + 1 \in 1..Len(x.todo) /\ Tail(x.todo)[i] = x.todo[i + 1]
<1>1. x.todo \in Seq([t : Tasks, rec : Record])
  BY DEF Activations
<1> QED BY <1>1, LongTail

LEMMA AfterFollows ==
  ASSUME act \in [Actors -> {Idle} \cup Activations], NEW a \in Actors, act[a] \in Activations,
         Ready(a, act[a], merged), act[a].kind # "foreground", passes \in Nat, AfterFollow(a)
  PROVE  /\ Acts(a) /\ Tells(a) /\ Launches(a) /\ Leaves(a) /\ passes' \in Nat
         /\ act'[a].pc # "launched"
<1>0. act[a] # Idle /\ Promoter \in Actors
  BY Fields DEF Actors
<1>1. CASE a # Promoter
  <2>1. Leave(a) /\ passes' \in Nat
    BY <1>1, MorePasses DEF AfterFollow
  <2> QED BY <2>1, Left DEF Tells, Launches, Leaves
<1>2. CASE a = Promoter /\ Len(act[a].todo) = 1
  <2>1. Leave(a) /\ passes' \in Nat
    BY <1>2 DEF AfterFollow, Leave
  <2> QED BY <2>1, Left DEF Tells, Launches, Leaves
<1>3. CASE a = Promoter /\ Len(act[a].todo) # 1
  <2> DEFINE one == act[a].todo[2]
             rest == Tail(act[a].todo)
             x == [Activation("pass", "count", one.t, one.rec) EXCEPT !.todo = rest]
  <2>1. /\ one \in [t : Tasks, rec : Record] /\ 2 \in 1..Len(act[a].todo)
        /\ rest \in Seq([t : Tasks, rec : Record]) /\ rest # <<>>
        /\ \A i \in 1..Len(rest) : i + 1 \in 1..Len(act[a].todo) /\ rest[i] = act[a].todo[i + 1]
    BY <1>0, <1>3, Rest DEF Ready
  <2>2. act' = [act EXCEPT ![a] = x] /\ UNCHANGED passes
    BY <1>3 DEF AfterFollow
  <2> HIDE DEF rest, one
  <2>3. /\ x.pc = "count" /\ x.kind = "pass" /\ x.t = one.t /\ x.rec = one.rec /\ x.todo = rest
        /\ x.out = "none"
    BY DEF Activation
  <2>4. x \in Activations
    BY <2>1 DEF Activation, Activations, Pcs, Kinds, Outs
  <2> HIDE DEF x
  <2>5. act'[a] = x /\ \A b \in Actors : b # a => act'[b] = act[b]
    BY <2>2
  <2>6. Reads(a)
    <3> SUFFICES ASSUME NEW t \in Tasks, NEW r \in Record, InHand(x, t, r)
                 PROVE  InHand(act[a], t, r)
      BY <2>5 DEF Reads
    <3>1. CASE x.t = t /\ x.rec = r
      BY <1>0, <2>1, <2>3, <3>1 DEF InHand, one
    <3>2. ASSUME NEW i \in 1..Len(x.todo), x.todo[i].t = t, x.todo[i].rec = r
          PROVE  InHand(act[a], t, r)
      BY <1>0, <2>1, <2>3, <3>2 DEF InHand
    <3> QED BY <3>1, <3>2 DEF InHand
  <2>7. act' \in [Actors -> {Idle} \cup Activations]
    BY <2>2, <2>4
  <2>8. Ready(a, x, merged')
    BY <1>3, <2>1, <2>3, <2>4 DEF Ready, PassPcs, MergePcs
  <2>9. x # Idle
    BY <2>4, Fields
  <2> QED BY <2>2, <2>3, <2>5, <2>6, <2>7, <2>8, <2>9 DEF Acts, Tells, Launches, Leaves
<1> QED BY <1>1, <1>2, <1>3

LEMMA FollowIsGood ==
  ASSUME Inv, NEW a \in Actors, Follow(a)
  PROVE  Good(a)
<1>1. At(a, "follow") /\ UNCHANGED <<runtime, calls, git, told, stopped, unlisted>>
  BY DEF Follow
<1>2. /\ store \in Store /\ WellFormed(store) /\ Base
      /\ act \in [Actors -> {Idle} \cup Activations]
      /\ act[a] \in Activations /\ Ready(a, act[a], merged)
      /\ act[a].t \in Tasks /\ act[a].rec \in Record /\ Faithful(act[a].t, act[a].rec)
      /\ act[a].kind # "foreground" /\ act[a] # Idle
  BY <1>1, Busy DEF At, Ready, CallPcs
<1>3. CASE AfterFollow(a) /\ UNCHANGED store
  <2>1. Acts(a) /\ Tells(a) /\ Launches(a) /\ Leaves(a) /\ passes' \in Nat
    BY <1>2, <1>3, AfterFollows DEF Base
  <2> QED BY <1>1, <1>2, <1>3, <2>1, Around, Untouched, NothingStarts DEF Good
<1>4. ASSUME Owes(My(a)), SetFollowThrough(a, "pending"), Go(a, "mode", store'[act[a].t]),
             UNCHANGED passes
      PROVE  Good(a)
  <2> DEFINE e == [act[a].rec.exec EXCEPT !.ft = "pending"]
  <2>1. SetExec(act[a].t, e)
    BY <1>4 DEF SetFollowThrough, My
  <2>2. e \in Exec /\ e.mode = act[a].rec.exec.mode /\ e.merge = act[a].rec.exec.merge
    BY <1>2, DelegationAssumption DEF Record, Exec
  <2>3. e.merge = "merged" => act[a].t \in merged'
    BY <1>1, <1>2, <2>2 DEF git, Faithful
  <2> HIDE DEF e
  <2>4. /\ StoreStep /\ Starts
        /\ Present(store', act[a].t) /\ store'[act[a].t] \in Record
        /\ store'[act[a].t].status = store[act[a].t].status
        /\ store'[act[a].t].exec = e
    <3>1. PICK t \in Tasks : t = act[a].t
      BY <1>2
    <3>2. PICK r \in Record : r = act[a].rec
      BY <1>2
    <3>3. PICK x \in Exec : x = e
      BY <2>2
    <3>4. SetExec(t, x)
      BY <2>1, <3>1, <3>3
    <3>5. Saving(t, r, x)
      BY <1>2, <2>1, <2>2, <2>3, <3>1, <3>2, <3>3, <3>4 DEF Saving
    <3>6. /\ StoreStep /\ Starts /\ Present(store', t) /\ store'[t] \in Record
          /\ store'[t].status = store[t].status /\ store'[t].exec = x
      BY <3>5, PreparedSaves
    <3> QED BY <3>1, <3>3, <3>6
  <2>5. PICK r \in Record : r = store'[act[a].t]
    BY <2>4
  <2>6. Go(a, "mode", r) /\ "mode" \in Pcs
    BY <1>4, <2>5 DEF Pcs
  <2>7. /\ act' \in [Actors -> {Idle} \cup Activations] /\ Reads(a)
        /\ act'[a] \in Activations /\ act'[a] # Idle /\ act'[a].pc = "mode"
        /\ act'[a].rec = r /\ act'[a].t = act[a].t
        /\ act'[a].kind = act[a].kind /\ act'[a].todo = act[a].todo
    BY <1>2, <2>4, <2>5, <2>6, Gos
  <2>8. Ready(a, act'[a], merged')
    BY <1>2, <2>7 DEF Ready, PassPcs, MergePcs
  <2>9. Tells(a)
    <3>1. "continue" \notin Tools => store'[act[a].t].status \in Terminal \/ CanBeBlocked(act[a].t)
      BY <1>2, <1>4, <2>4 DEF Owes, My, Faithful
    <3>2. "continue" \notin Tools /\ CanBeBlocked(act[a].t)
            => act[a].t \in TinyTasks \/ store'[act[a].t].exec.mode = "worktree"
      BY <1>2, <2>2, <2>4 DEF Faithful, CanBeBlocked
    <3> QED BY <2>7, <3>1, <3>2 DEF Tells
  <2>10. Surroundings
    BY <1>1, <1>2, <1>4, Around DEF Base
  <2> QED BY <2>4, <2>7, <2>8, <2>9, <2>10 DEF Good, Acts, Launches, Leaves
<1> QED BY <1>3, <1>4 DEF Follow

LEMMA ReadModeIsGood ==
  ASSUME Inv, NEW a \in Actors, ReadMode(a)
  PROVE  Good(a)
<1>1. At(a, "mode") /\ UNCHANGED <<store, runtime, passes, calls, git, told, stopped, unlisted>>
  BY DEF ReadMode
<1>2. /\ store \in Store /\ WellFormed(store) /\ Base
      /\ act \in [Actors -> {Idle} \cup Activations]
      /\ act[a] \in Activations /\ Ready(a, act[a], merged)
      /\ act[a].kind # "foreground" /\ act[a] # Idle /\ act[a].out \in Outs
  BY <1>1, Busy DEF At, Ready, CallPcs
<1>3. StoreStep /\ Starts /\ Surroundings
  BY <1>1, <1>2, Untouched, NothingStarts, Around DEF Base
<1>4. PICK pc \in {"followed", "tell"}, out \in Outs : Noted(a, pc, out) /\ (pc = "followed" => out = "pending")
  <2>1. CASE stopped
    <3>1. "pending" \in Outs /\ Noted(a, "followed", "pending")
      BY <2>1 DEF ReadMode, Noted, Outs
    <3> QED BY <3>1
  <2>2. CASE ~stopped
    <3>1. Noted(a, "tell", act[a].out)
      BY <2>2 DEF ReadMode, Noted
    <3> QED BY <3>1, <1>2
  <2> QED BY <2>1, <2>2
<1>5. pc \in Pcs
  BY DEF Pcs
<1>6. /\ act' \in [Actors -> {Idle} \cup Activations] /\ Reads(a)
      /\ act'[a] \in Activations /\ act'[a] # Idle /\ act'[a].pc = pc
      /\ act'[a].out = out /\ act'[a].t = act[a].t
      /\ act'[a].kind = act[a].kind /\ act'[a].todo = act[a].todo
  BY <1>2, <1>4, <1>5, Notes
<1>7. Ready(a, act'[a], merged')
  BY <1>2, <1>4, <1>6 DEF Ready, PassPcs, MergePcs
<1>8. Tells(a)
  <2>1. "continue" \notin Tools => store[act[a].t].status \in Terminal \/ CanBeBlocked(act[a].t)
    BY <1>1 DEF Inv, Telling, At
  <2> QED BY <1>1, <1>6, <2>1 DEF Tells, CanBeBlocked
<1> QED BY <1>3, <1>4, <1>6, <1>7, <1>8 DEF Good, Acts, Launches, Leaves

LEMMA TellRootIsGood ==
  ASSUME Inv, NEW a \in Actors, TellRoot(a)
  PROVE  Good(a)
<1>1. At(a, "tell") /\ UNCHANGED <<store, runtime, passes, calls, git, stopped, unlisted>>
  BY DEF TellRoot
<1>2. /\ store \in Store /\ WellFormed(store) /\ Base
      /\ act \in [Actors -> {Idle} \cup Activations]
      /\ act[a] \in Activations /\ Ready(a, act[a], merged) /\ act[a].rec \in Record
      /\ act[a].kind # "foreground" /\ act[a] # Idle
  BY <1>1, Busy DEF At, Ready, CallPcs
<1>3. StoreStep /\ Starts
  BY <1>1, <1>2, Untouched, NothingStarts
<1>4. told' \in [Children -> Nat]
  <2>1. CASE told' = [told EXCEPT ![My(a).child] = More(@)]
    <3>1. told \in [Children -> Nat] /\ \A c \in Children : More(told[c]) \in Nat
      BY <1>2, MorePasses DEF Base
    <3> QED BY <2>1, <3>1
  <2>2. CASE UNCHANGED told
    BY <1>2, <2>2 DEF Base
  <2> QED BY <2>1, <2>2 DEF TellRoot
<1>5. Surroundings
  BY <1>1, <1>2, <1>4 DEF Base, Surroundings, runtime, git
<1>6. ASSUME NEW out \in {"delivered", "pending"},
             act' = [act EXCEPT ![a].out = out, ![a].pc = "followed"]
      PROVE  Good(a)
  <2>1. "followed" \in Pcs /\ out \in Outs /\ Noted(a, "followed", out)
    BY <1>6 DEF Pcs, Outs, Noted
  <2>2. /\ act' \in [Actors -> {Idle} \cup Activations] /\ Reads(a)
        /\ act'[a] \in Activations /\ act'[a] # Idle /\ act'[a].pc = "followed"
        /\ act'[a].out = out /\ act'[a].t = act[a].t
        /\ act'[a].kind = act[a].kind /\ act'[a].todo = act[a].todo
    BY <1>2, <2>1, Notes
  <2>3. Ready(a, act'[a], merged')
    BY <1>1, <1>2, <2>2 DEF Ready, PassPcs, MergePcs, git
  <2> QED BY <1>3, <1>5, <2>2, <2>3 DEF Good, Acts, Tells, Launches, Leaves
<1>7. CASE Throw(a)
  BY <1>2, <1>3, <1>5, <1>7, Throws DEF Good
<1> QED BY <1>6, <1>7 DEF TellRoot

LEMMA FollowedIsGood ==
  ASSUME Inv, NEW a \in Actors, Followed(a)
  PROVE  Good(a)
<1>1. /\ At(a, "followed") /\ UNCHANGED <<runtime, calls, git, told, stopped, unlisted>>
      /\ SetFollowThrough(a, act[a].out) /\ AfterFollow(a)
  BY DEF Followed
<1>2. /\ store \in Store /\ WellFormed(store) /\ Base
      /\ act \in [Actors -> {Idle} \cup Activations]
      /\ act[a] \in Activations /\ Ready(a, act[a], merged)
      /\ act[a].t \in Tasks /\ act[a].rec \in Record /\ Faithful(act[a].t, act[a].rec)
      /\ act[a].kind # "foreground" /\ act[a].out \in {"pending", "delivered"}
  BY <1>1, Busy DEF At, Ready, CallPcs
<1> DEFINE e == [act[a].rec.exec EXCEPT !.ft = act[a].out]
<1>3. SetExec(act[a].t, e)
  BY <1>1 DEF SetFollowThrough, My
<1>4. e \in Exec /\ e.mode = act[a].rec.exec.mode /\ e.merge = act[a].rec.exec.merge
  BY <1>2, DelegationAssumption DEF Record, Exec
<1>5. e.merge = "merged" => act[a].t \in merged'
  BY <1>1, <1>2, <1>4 DEF git, Faithful
<1> HIDE DEF e
<1>6. StoreStep /\ Starts
  BY <1>2, <1>3, <1>4, <1>5, Saves
<1>7. Acts(a) /\ Tells(a) /\ Launches(a) /\ Leaves(a) /\ passes' \in Nat
  BY <1>1, <1>2, AfterFollows DEF Base
<1>8. Surroundings
  BY <1>1, <1>2, <1>7, Around
<1> QED BY <1>6, <1>7, <1>8 DEF Good

LEMMA EndByEventIsGood ==
  ASSUME Inv, NEW a \in Actors, NEW type \in {"error", "interrupt"},
         NEW status \in {"failed", "cancelled"}, EndByEvent(a, type, status)
  PROVE  Good(a)
<1>1. At(a, type) /\ UNCHANGED <<runtime, passes, calls, git, told, stopped, unlisted>>
  BY DEF EndByEvent
<1>2. /\ store \in Store /\ WellFormed(store) /\ Base
      /\ act \in [Actors -> {Idle} \cup Activations]
      /\ act[a] \in Activations /\ Ready(a, act[a], merged) /\ act[a].t \in Tasks
      /\ act[a].kind \notin {"foreground", "pass"} /\ act[a] # Idle
  BY <1>1, Busy DEF At, Ready, CallPcs, PassPcs
<1>3. Surroundings
  BY <1>1, <1>2, Around DEF Base
<1>4. CASE CanMove(a, status)
  <2>1. PICK pc \in {"cleanup", "follow"} : Move(a, status) /\ Go(a, pc, store'[act[a].t])
    BY <1>4 DEF EndByEvent
  <2>2. status \in Stored /\ status # "running" /\ status # "blocked" /\ status \in Terminal /\ pc \in Pcs
    BY DEF Stored, Terminal, Pcs
  <2>3. /\ StoreStep /\ Starts
        /\ Present(store', act[a].t) /\ store'[act[a].t] \in Record
        /\ store'[act[a].t].status = status
    BY <1>2, <1>4, <2>1, <2>2, Settles
  <2>4. PICK r \in Record : r = store'[act[a].t]
    BY <2>3
  <2>5. Go(a, pc, r)
    BY <2>1, <2>4
  <2>6. /\ act' \in [Actors -> {Idle} \cup Activations] /\ Reads(a)
        /\ act'[a] \in Activations /\ act'[a] # Idle /\ act'[a].pc = pc
        /\ act'[a].rec = r
        /\ act'[a].kind = act[a].kind /\ act'[a].todo = act[a].todo
    BY <1>2, <2>2, <2>3, <2>4, <2>5, Gos
  <2>7. Ready(a, act'[a], merged')
    BY <1>2, <2>2, <2>3, <2>4, <2>6 DEF Ready, MergePcs
  <2> QED BY <1>3, <2>3, <2>6, <2>7 DEF Good, Acts, Tells, Launches, Leaves
<1>5. CASE ~CanMove(a, status)
  <2>1. Throw(a) /\ UNCHANGED store
    BY <1>5 DEF EndByEvent
  <2> QED BY <1>2, <1>3, <2>1, Untouched, NothingStarts, Throws DEF Good
<1> QED BY <1>4, <1>5

-----------------------------------------------------------------------------
(* A new activation.                                                       *)

Fresh(a, kind, pc, t) == act' = [act EXCEPT ![a] = Activation(kind, pc, t, store'[t])]

LEMMA Begins ==
  ASSUME act \in [Actors -> {Idle} \cup Activations], NEW a \in Actors,
         NEW t \in Tasks, store' \in Store, Present(store', t),
         NEW kind \in Kinds, NEW pc \in Pcs, Fresh(a, kind, pc, t)
  PROVE  /\ act' \in [Actors -> {Idle} \cup Activations] /\ Reads(a)
         /\ act'[a] \in Activations /\ act'[a] # Idle
         /\ act'[a].pc = pc /\ act'[a].rec = store'[t] /\ act'[a].out = "none"
         /\ act'[a].t = t /\ act'[a].kind = kind /\ act'[a].todo = <<>>
<1> DEFINE x == Activation(kind, pc, t, store'[t])
<1>1. store'[t] \in Record
  BY DEF Store
<1>2. /\ x.pc = pc /\ x.rec = store'[t] /\ x.out = "none" /\ x.t = t /\ x.kind = kind /\ x.todo = <<>>
  BY DEF Activation
<1>3. x \in Activations
  BY <1>1 DEF Activation, Activations, Outs
<1>4. act' = [act EXCEPT ![a] = x]
  BY DEF Fresh
<1> HIDE DEF x
<1>5. act'[a] = x /\ \A b \in Actors : b # a => act'[b] = act[b]
  BY <1>4
<1>6. act' \in [Actors -> {Idle} \cup Activations]
  BY <1>3, <1>4
<1>7. Reads(a)
  <2>1. 1..Len(x.todo) = {}
    BY <1>2
  <2> QED BY <1>2, <1>5, <2>1 DEF Reads, InHand
<1> QED BY <1>2, <1>3, <1>5, <1>6, <1>7, Fields

(* An actor that is idle has nothing in hand.                              *)
LEMMA Rests ==
  ASSUME Inv
  PROVE  /\ store \in Store /\ WellFormed(store) /\ Base
         /\ act \in [Actors -> {Idle} \cup Activations]
BY TypesAre DEF Inv

LEMMA DeliverIsGood ==
  ASSUME Inv, NEW h, NEW type \in {"idle", "error", "interrupt"}, NEW c \in Children,
         Deliver(h, type, c)
  PROVE  h \in Actors /\ Good(h)
<1>1. /\ h \in Handlers /\ act[h] = Idle /\ owed' \subseteq owed
      /\ UNCHANGED <<store, session, passes, calls, git, told, stopped, unlisted>>
  BY DEF Deliver
<1>2. /\ store \in Store /\ WellFormed(store) /\ Base
      /\ act \in [Actors -> {Idle} \cup Activations]
      /\ h \in Actors /\ h # Promoter
  BY <1>1, Rests, DelegationAssumption DEF Actors
<1>3. StoreStep /\ Starts
  BY <1>1, <1>2, Untouched, NothingStarts
<1>4. Surroundings
  BY <1>1, <1>2 DEF Base, Surroundings, git
<1>5. CASE UNCHANGED act
  <2>1. Acts(h)
    BY <1>1, <1>2, <1>5 DEF Acts, Reads, Ready
  <2> QED BY <1>1, <1>2, <1>3, <1>4, <1>5, <2>1 DEF Good, Tells, Launches, Leaves, Idle, At
<1>6. ASSUME NEW t \in RunningWith(c),
             act' = [act EXCEPT ![h] =
               Activation(type, IF type = "idle" THEN "status" ELSE type, t, store[t])]
      PROVE  Good(h)
  <2>1. PICK pc \in {"status", "error", "interrupt"} : pc = IF type = "idle" THEN "status" ELSE type
    OBVIOUS
  <2>2. Fresh(h, type, pc, t)
    BY <1>1, <1>6, <2>1 DEF Fresh
  <2>3. t \in Tasks /\ Present(store', t) /\ store' \in Store
    BY <1>1, <1>2 DEF RunningWith, Present
  <2>4. type \in Kinds /\ pc \in Pcs
    BY DEF Kinds, Pcs
  <2>5. /\ act' \in [Actors -> {Idle} \cup Activations] /\ Reads(h)
        /\ act'[h] \in Activations /\ act'[h] # Idle
        /\ act'[h].pc = pc /\ act'[h].kind = type
    BY <1>2, <2>2, <2>3, <2>4, Begins
  <2>6. Ready(h, act'[h], merged')
    BY <1>2, <2>5 DEF Ready, MergePcs
  <2> QED BY <1>3, <1>4, <2>5, <2>6 DEF Good, Acts, Tells, Launches, Leaves
<1> QED BY <1>2, <1>5, <1>6 DEF Deliver

-----------------------------------------------------------------------------
(* Passes.                                                                 *)

(* A function on 1..n is a sequence of length n.                           *)
LEMMA Enumerated ==
  ASSUME NEW S, NEW n \in Nat, NEW q \in [1..n -> S]
  PROVE  q \in Seq(S) /\ Len(q) = n
OBVIOUS

(* The list of a pass or of a cancellation, as the records are.            *)
Listing(list) == [i \in DOMAIN list |-> [t |-> list[i], rec |-> store'[list[i]]]]

LEMMA ListBegins ==
  ASSUME act \in [Actors -> {Idle} \cup Activations], NEW a \in Actors, store' \in Store,
         NEW n \in Nat \ {0}, NEW list \in [1..n -> Tasks],
         \A i \in 1..n : Present(store', list[i]),
         NEW kind \in Kinds, NEW pc \in Pcs,
         act' = [act EXCEPT ![a] =
                   [Activation(kind, pc, list[1], store'[list[1]]) EXCEPT !.todo = Listing(list)]]
  PROVE  /\ act' \in [Actors -> {Idle} \cup Activations] /\ Reads(a)
         /\ act'[a] \in Activations /\ act'[a] # Idle
         /\ act'[a].pc = pc /\ act'[a].kind = kind /\ act'[a].todo # <<>>
<1> DEFINE q == Listing(list)
           x == [Activation(kind, pc, list[1], store'[list[1]]) EXCEPT !.todo = q]
<1>1. list[1] \in Tasks /\ store'[list[1]] \in Record /\ Present(store', list[1]) /\ 1 \in 1..n
  BY DEF Store
<1>2. q \in [1..n -> [t : Tasks, rec : Record]]
  BY DEF Listing, Store
<1>3. \A i \in 1..n : q[i].t = list[i] /\ q[i].rec = store'[list[i]]
  BY DEF Listing
<1> HIDE DEF q
<1>4. q \in Seq([t : Tasks, rec : Record]) /\ Len(q) = n
  <2> DEFINE S == [t : Tasks, rec : Record]
  <2>1. q \in [1..n -> S]
    BY <1>2
  <2> HIDE DEF S
  <2>2. q \in Seq(S) /\ Len(q) = n
    BY <2>1, Enumerated
  <2> QED BY <2>2 DEF S
<1>5. q # <<>>
  BY <1>4
<1>6. x = [pc |-> pc, kind |-> kind, t |-> list[1], rec |-> store'[list[1]], out |-> "none", todo |-> q]
  BY DEF Activation
<1>7. x \in Activations
  BY <1>1, <1>4, <1>6 DEF Activations, Outs
<1>8. act' = [act EXCEPT ![a] = x]
  BY DEF q
<1>9. x.pc = pc /\ x.kind = kind /\ x.todo = q /\ x.t = list[1] /\ x.rec = store'[list[1]]
  BY <1>6
<1> HIDE DEF x
<1>10. act'[a] = x /\ \A b \in Actors : b # a => act'[b] = act[b]
  BY <1>8
<1>11. act' \in [Actors -> {Idle} \cup Activations]
  BY <1>7, <1>8
<1>12. Reads(a)
  <2> SUFFICES ASSUME NEW t \in Tasks, NEW r \in Record, InHand(x, t, r)
               PROVE  Present(store', t) /\ r = store'[t]
    BY <1>10 DEF Reads
  <2>1. CASE x.t = t /\ x.rec = r
    BY <1>1, <1>9, <2>1
  <2>2. ASSUME NEW i \in 1..Len(x.todo), x.todo[i].t = t, x.todo[i].rec = r
        PROVE  Present(store', t) /\ r = store'[t]
    <3>1. i \in 1..n
      BY <1>4, <1>9, <2>2
    <3> QED BY <1>3, <1>9, <2>2, <3>1
  <2> QED BY <2>1, <2>2 DEF InHand
<1> QED BY <1>5, <1>7, <1>9, <1>10, <1>11, <1>12, Fields

(* Every non-empty set of naturals has a least element: the form in which  *)
(* induction is used below.                                                *)
LEMMA Least ==
  ASSUME NEW T \in SUBSET Nat, T # {}
  PROVE  \E n \in T : \A m \in T : n <= m
<1> DEFINE R == {ss \in Nat \X Nat : ss[1] < ss[2]}
<1>1. IsWellFoundedOn(R, Nat)
  BY NatLessThanWellFounded DEF OpToRel
<1>2. PICK n \in T : \A m \in T : <<m, n>> \notin R
  <2> HIDE DEF R
  <2> QED BY <1>1, WFMin
<1>3. \A m \in T : <<m, n>> \notin R => n <= m
  OBVIOUS
<1> QED BY <1>2, <1>3

(* Tasks with distinct orders can be listed in order: the smallest set of  *)
(* tasks that could not would lose its last one.                           *)
Sorted(S, q) == \A i, j \in DOMAIN q : i < j => store[q[i]].order < store[q[j]].order

LEMMA OneLonger ==
  ASSUME NEW U, NEW n \in Nat, NEW q \in [1..n -> U], NEW u \in U
  PROVE  LET p == [i \in 1..(n + 1) |-> IF i = n + 1 THEN u ELSE q[i]]
         IN /\ p \in [1..(n + 1) -> U] /\ p[n + 1] = u
            /\ \A i \in 1..n : p[i] = q[i] /\ i < n + 1
OBVIOUS

LEMMA CanBeSorted ==
  ASSUME store \in Store, WellFormed(store), NEW S \in SUBSET Tasks,
         \A t \in S : Present(store, t)
  PROVE  /\ IsFiniteSet(S) /\ Cardinality(S) \in Nat
         /\ ByOrder(S) \in [1..Cardinality(S) -> S] /\ Sorted(S, ByOrder(S))
<1> DEFINE Fine(T) == \E q \in [1..Cardinality(T) -> T] : Sorted(T, q)
           Bad == {n \in Nat : \E T \in SUBSET S : Cardinality(T) = n /\ ~Fine(T)}
<1>1. \A T \in SUBSET S : IsFiniteSet(T) /\ Cardinality(T) \in Nat
  BY TasksFinite, FS_Subset, FS_CardinalityType
<1>2. Bad = {}
  <2>1. SUFFICES ASSUME Bad # {}
                 PROVE  FALSE
    OBVIOUS
  <2>2. PICK n \in Bad : \A m \in Bad : n <= m
    <3> HIDE DEF Bad
    <3>1. Bad \in SUBSET Nat
      BY DEF Bad
    <3> QED BY <2>1, <3>1, Least
  <2>3. PICK T \in SUBSET S : Cardinality(T) = n /\ ~Fine(T)
    OBVIOUS
  <2>4. T # {}
    <3>1. SUFFICES ASSUME T = {}
                   PROVE  FALSE
      OBVIOUS
    <3>2. Cardinality(T) = 0
      BY <3>1, FS_EmptySet
    <3>3. 1..0 = {}
      OBVIOUS
    <3>4. [i \in 1..0 |-> i] \in [1..0 -> T] /\ DOMAIN [i \in 1..0 |-> i] = {}
      BY <3>3
    <3>5. \E q \in [1..0 -> T] : DOMAIN q = {}
      BY <3>4
    <3>6. Fine(T)
      BY <3>2, <3>5 DEF Sorted
    <3> QED BY <2>3, <3>6
  <2> DEFINE O == {store[t].order : t \in T}
  <2>5. IsFiniteSet(O) /\ O # {} /\ O \subseteq Nat
    <3> DEFINE f == [t \in T |-> store[t].order]
    <3>1. f \in Surjection(T, O)
      BY DEF Surjection
    <3>2. IsFiniteSet(O)
      <4> HIDE DEF f, O
      <4> QED BY <1>1, <3>1, FS_Surjection
    <3>3. O # {} /\ O \subseteq Nat
      BY <2>4 DEF Store, Record
    <3> QED BY <3>2, <3>3
  <2>6. PICK u \in T : \A t \in T : store[t].order <= store[u].order
    <3>1. \E m \in O : \A k \in O : k <= m
      <4> HIDE DEF O
      <4> QED BY <2>5, FiniteMax
    <3> QED BY <3>1
  <2> DEFINE R == T \ {u}
  <2>7. Cardinality(R) = n - 1 /\ R \in SUBSET S /\ n \in Nat
    BY <1>1, <2>3, FS_RemoveElement
  <2>8. Fine(R)
    <3>1. Cardinality(R) \in Nat /\ n \in Nat
      BY <1>1, <2>7
    <3>2. Cardinality(R) \notin Bad
      <4> HIDE DEF Bad, R
      <4> QED BY <2>2, <2>7, <3>1
    <3> QED BY <2>7, <3>1, <3>2
  <2>9. PICK q \in [1..(n - 1) -> R] : Sorted(R, q)
    BY <2>7, <2>8
  <2>10. n - 1 \in Nat /\ (n - 1) + 1 = n
    BY <1>1, <2>7
  <2> DEFINE p == [i \in 1..n |-> IF i = n THEN u ELSE q[i]]
  <2>11. p \in [1..n -> T] /\ p[n] = u /\ \A i \in 1..(n - 1) : p[i] = q[i] /\ i < n
    <3>1. q \in [1..(n - 1) -> T]
      BY <2>9
    <3> QED BY <2>10, <3>1, OneLonger
  <2>12. Sorted(T, p)
    <3> SUFFICES ASSUME NEW i \in 1..n, NEW j \in 1..n, i < j
                 PROVE  store[p[i]].order < store[p[j]].order
      BY <2>11 DEF Sorted
    <3>0. i \in 1..(n - 1) /\ p[i] = q[i] /\ q[i] \in R
      BY <2>7, <2>9, <2>11
    <3>1. CASE j = n
      <4>1. store[q[i]].order # store[u].order
        BY <2>3, <3>0 DEF WellFormed, OrdersDistinct
      <4>2. store[q[i]].order \in Nat /\ store[u].order \in Nat
        BY <2>3, <3>0 DEF Store, Record
      <4> QED BY <2>6, <2>11, <3>0, <3>1, <4>1, <4>2
    <3>2. CASE j # n
      <4>1. j \in 1..(n - 1) /\ p[j] = q[j]
        BY <2>7, <2>11, <3>2
      <4> QED BY <2>9, <3>0, <4>1 DEF Sorted
    <3> QED BY <3>1, <3>2
  <2> HIDE DEF p
  <2>13. Fine(T)
    BY <2>3, <2>11, <2>12
  <2> QED BY <2>3, <2>13
<1>3. Fine(S)
  BY <1>1, <1>2
<1>4. ByOrder(S) \in [1..Cardinality(S) -> S] /\ Sorted(S, ByOrder(S))
  BY <1>3 DEF ByOrder, Sorted
<1> QED BY <1>1, <1>4

LEMMA BeginPassIsGood ==
  ASSUME Inv, BeginPass
  PROVE  Good(Promoter)
<1> DEFINE ready == {t \in Tasks : Promotable(t)}
           S == {t \in Oldest(ready) : store[t].bg}
           list == ByOrder(S)
           n == Cardinality(S)
<1>1. /\ act[Promoter] = Idle /\ passes > 0 /\ passes' = passes - 1
      /\ unlisted' = ready \ Oldest(ready)
      /\ UNCHANGED <<store, runtime, calls, git, told, stopped>>
  BY DEF BeginPass
<1>2. /\ store \in Store /\ WellFormed(store) /\ Base
      /\ act \in [Actors -> {Idle} \cup Activations] /\ Promoter \in Actors
  BY Rests DEF Actors
<1>3. StoreStep /\ Starts
  BY <1>1, <1>2, Untouched, NothingStarts
<1>4. Surroundings
  <2>1. passes' \in Nat /\ unlisted' \subseteq Tasks /\ passes # 0
    BY <1>1, <1>2 DEF Base
  <2> QED BY <1>1, <1>2, <2>1 DEF Base, Surroundings, runtime, git
<1>5. CASE list = <<>>
  <2>1. act' = act
    BY <1>5 DEF BeginPass
  <2>2. Acts(Promoter)
    BY <1>1, <1>2, <2>1 DEF Acts, Reads, Ready
  <2> QED BY <1>1, <1>3, <1>4, <2>1, <2>2 DEF Good, Tells, Launches, Leaves, Idle, At
<1>6. CASE list # <<>>
  <2>1. S \in SUBSET Tasks /\ \A t \in S : Present(store, t)
    BY DEF Oldest, Promotable, Present
  <2>2. n \in Nat /\ list \in [1..n -> S]
    BY <1>2, <2>1, CanBeSorted
  <2>3. act' = [act EXCEPT ![Promoter] =
                   [Activation("pass", "count", list[1], store[list[1]])
                      EXCEPT !.todo = [i \in DOMAIN list |-> [t |-> list[i], rec |-> store[list[i]]]]]]
    BY <1>6 DEF BeginPass
  <2> HIDE DEF n, list
  <2>4. n # 0
    <3>1. list \in Seq(S) /\ Len(list) = n
      <4> HIDE DEF S
      <4> QED BY <2>2, Enumerated
    <3> QED BY <1>6, <3>1
  <2>5. list \in [1..n -> Tasks] /\ \A i \in 1..n : Present(store', list[i])
    BY <1>1, <2>1, <2>2 DEF Present
  <2> HIDE DEF S
  <2>6. act' = [act EXCEPT ![Promoter] =
                   [Activation("pass", "count", list[1], store'[list[1]]) EXCEPT !.todo = Listing(list)]]
    BY <1>1, <2>3 DEF Listing
  <2>7. "pass" \in Kinds /\ "count" \in Pcs /\ n \in Nat \ {0} /\ store' \in Store
    BY <1>1, <1>2, <2>2, <2>4 DEF Kinds, Pcs
  <2>8. /\ act' \in [Actors -> {Idle} \cup Activations] /\ Reads(Promoter)
        /\ act'[Promoter] \in Activations /\ act'[Promoter] # Idle
        /\ act'[Promoter].pc = "count" /\ act'[Promoter].kind = "pass" /\ act'[Promoter].todo # <<>>
    BY <1>2, <2>5, <2>6, <2>7, ListBegins
  <2>9. Ready(Promoter, act'[Promoter], merged')
    BY <2>8 DEF Ready, PassPcs, MergePcs
  <2> QED BY <1>3, <1>4, <2>8, <2>9 DEF Good, Acts, Tells, Launches, Leaves
<1> QED BY <1>5, <1>6

(* The first task of the list is taken up.                                 *)
Taken(a, pc, one) == act' = [act EXCEPT ![a] = [act[a] EXCEPT !.pc = pc, !.t = one.t, !.rec = one.rec]]

LEMMA TakesUp ==
  ASSUME act \in [Actors -> {Idle} \cup Activations], NEW a \in Actors, act[a] \in Activations,
         act[a].todo # <<>>, NEW pc \in Pcs,
         NEW one, one = Head(act[a].todo), Taken(a, pc, one)
  PROVE  /\ act' \in [Actors -> {Idle} \cup Activations] /\ Reads(a)
         /\ act'[a] \in Activations /\ act'[a] # Idle
         /\ act'[a].pc = pc /\ act'[a].rec = one.rec /\ act'[a].t = one.t
         /\ act'[a].kind = act[a].kind /\ act'[a].todo = act[a].todo
<1>0. act[a] # Idle
  BY Fields
<1>1. act[a].todo \in Seq([t : Tasks, rec : Record])
  BY Fields
<1>2. one = act[a].todo[1] /\ 1 \in 1..Len(act[a].todo) /\ one \in [t : Tasks, rec : Record]
  <2> DEFINE S == [t : Tasks, rec : Record]
  <2>1. act[a].todo \in Seq(S) /\ act[a].todo # <<>>
    BY <1>1
  <2> HIDE DEF S
  <2>2. act[a].todo[1] \in S /\ 1 \in 1..Len(act[a].todo) /\ Head(act[a].todo) = act[a].todo[1]
    BY <2>1
  <2> QED BY <2>2 DEF S
<1> DEFINE x == [act[a] EXCEPT !.pc = pc, !.t = one.t, !.rec = one.rec]
<1>3. /\ x.pc = pc /\ x.rec = one.rec /\ x.t = one.t
      /\ x.kind = act[a].kind /\ x.todo = act[a].todo /\ x \in Activations
  BY <1>2 DEF Activations
<1>4. act'[a] = x /\ \A b \in Actors : b # a => act'[b] = act[b]
  BY DEF Taken
<1>5. act' \in [Actors -> {Idle} \cup Activations]
  BY <1>3 DEF Taken
<1> HIDE DEF x
<1>6. Reads(a)
  BY <1>0, <1>2, <1>3, <1>4 DEF Reads, InHand
<1> QED BY <1>3, <1>4, <1>5, <1>6, Fields

LEMMA PromoteIsGood ==
  ASSUME Inv, Promote
  PROVE  Good(Promoter)
<1>1. At(Promoter, "count") /\ UNCHANGED <<store, owed, calls, git, told, stopped, unlisted>> /\ Promoter \in Actors
  BY DEF Promote, Actors
<1>2. /\ store \in Store /\ WellFormed(store) /\ Base
      /\ act \in [Actors -> {Idle} \cup Activations]
      /\ act[Promoter] \in Activations /\ Ready(Promoter, act[Promoter], merged)
      /\ act[Promoter] # Idle /\ act[Promoter].kind = "pass" /\ act[Promoter].todo # <<>>
  BY <1>1, Busy DEF At, Ready
<1>3. StoreStep /\ Starts
  BY <1>1, <1>2, Untouched, NothingStarts
<1> DEFINE one == Head(act[Promoter].todo)
<1>4. CASE AfterFollow(Promoter) /\ UNCHANGED session
  <2>1. Acts(Promoter) /\ Tells(Promoter) /\ Launches(Promoter) /\ Leaves(Promoter) /\ passes' \in Nat
    BY <1>1, <1>2, <1>4, AfterFollows DEF Base
  <2>2. Surroundings
    BY <1>1, <1>2, <1>4, <2>1 DEF Base, Surroundings, git
  <2> QED BY <1>3, <2>1, <2>2 DEF Good
<1>5. ASSUME ~(Cardinality(Running(one.rec.key)) >= MaxRunning),
             NEW pc \in {"launched", "unlaunched"},
             act' = [act EXCEPT ![Promoter] = [act[Promoter] EXCEPT !.pc = pc, !.t = one.t, !.rec = one.rec]],
             session' = [session EXCEPT ![one.rec.child] = "busy"] \/ UNCHANGED session,
             UNCHANGED passes
      PROVE  Good(Promoter)
  <2>1. pc \in Pcs
    BY DEF Pcs
  <2>2. /\ act' \in [Actors -> {Idle} \cup Activations] /\ Reads(Promoter)
         /\ act'[Promoter] \in Activations /\ act'[Promoter] # Idle
         /\ act'[Promoter].pc = pc /\ act'[Promoter].rec = one.rec /\ act'[Promoter].t = one.t
         /\ act'[Promoter].kind = act[Promoter].kind /\ act'[Promoter].todo = act[Promoter].todo
    <3> HIDE DEF one
    <3>1. one = Head(act[Promoter].todo)
      BY DEF one
    <3>2. Taken(Promoter, pc, one)
      BY <1>5 DEF Taken
    <3> QED BY <1>1, <1>2, <2>1, <3>1, <3>2, TakesUp
  <2> HIDE DEF one
  <2>3. Ready(Promoter, act'[Promoter], merged')
    BY <1>2, <2>2 DEF Ready, PassPcs, MergePcs
  <2>4. Surroundings
    BY <1>1, <1>2, <1>5 DEF Base, Surroundings, git
  <2>5. Cardinality(Running(one.rec.key)) < MaxRunning
    <3>1. IsFiniteSet(Running(one.rec.key))
      BY TasksFinite, FS_Subset DEF Running
    <3>2. Cardinality(Running(one.rec.key)) \in Nat
      BY <3>1, FS_CardinalityType
    <3> QED BY <1>5, <3>2, DelegationAssumption
  <2>6. Tells(Promoter)
    BY <2>2 DEF Tells
  <2>7. Launches(Promoter)
    BY <1>1, <2>2, <2>5 DEF Launches
  <2>8. Leaves(Promoter)
    BY <2>2 DEF Leaves
  <2> QED BY <1>3, <2>2, <2>3, <2>4, <2>6, <2>7, <2>8 DEF Good, Acts
<1> QED BY <1>4, <1>5 DEF Promote

LEMMA MarkRunningIsGood ==
  ASSUME Inv, MarkRunning
  PROVE  Good(Promoter)
<1>1. At(Promoter, "launched") /\ UNCHANGED <<runtime, calls, git, told, stopped, unlisted>> /\ Promoter \in Actors
  BY DEF MarkRunning, Actors
<1>2. /\ store \in Store /\ WellFormed(store) /\ Base
      /\ act \in [Actors -> {Idle} \cup Activations]
      /\ act[Promoter] \in Activations /\ Ready(Promoter, act[Promoter], merged)
      /\ act[Promoter].t \in Tasks /\ act[Promoter].rec \in Record
      /\ act[Promoter] # Idle /\ act[Promoter].kind = "pass"
  BY <1>1, Busy DEF At, Ready, CallPcs
<1>3. CASE CanMove(Promoter, "running") /\ Move(Promoter, "running") /\ AfterFollow(Promoter)
  <2>1. "running" \in Stored
    BY DEF Stored
  <2>2. /\ OneCall /\ store' \in Store /\ WellFormed(store')
        /\ Present(store, act[Promoter].t) /\ TransitionAllowed(store[act[Promoter].t].status, "running")
        /\ store'[act[Promoter].t] = [store[act[Promoter].t] EXCEPT !.status = "running"]
        /\ \A u \in Tasks : u # act[Promoter].t => store'[u] = store[u]
    BY <1>2, <1>3, <2>1, Moves
  <2>3. Moved(act[Promoter].t)
    BY <1>1, <2>1, <2>2 DEF Moved
  <2>4. StoreStep
    BY <2>2, <2>3 DEF StoreStep, RecordStep
  <2>5. /\ Acts(Promoter) /\ Tells(Promoter) /\ Launches(Promoter) /\ Leaves(Promoter)
        /\ passes' \in Nat /\ act'[Promoter].pc # "launched"
    BY <1>1, <1>2, <1>3, AfterFollows DEF Base
  <2>6. Starts
    BY <1>1, <2>2, <2>5 DEF Starts
  <2>7. Surroundings
    BY <1>1, <1>2, <2>5, Around
  <2> QED BY <2>4, <2>5, <2>6, <2>7 DEF Good
<1>4. CASE Go(Promoter, "unlaunched", My(Promoter)) /\ UNCHANGED <<store, passes>>
  <2>1. "unlaunched" \in Pcs /\ Go(Promoter, "unlaunched", act[Promoter].rec)
    BY <1>4 DEF Pcs, My
  <2>2. /\ act' \in [Actors -> {Idle} \cup Activations] /\ Reads(Promoter)
         /\ act'[Promoter] \in Activations /\ act'[Promoter] # Idle
         /\ act'[Promoter].pc = "unlaunched"
         /\ act'[Promoter].kind = act[Promoter].kind /\ act'[Promoter].todo = act[Promoter].todo
    BY <1>1, <1>2, <2>1, Gos
  <2>3. Ready(Promoter, act'[Promoter], merged')
    BY <1>2, <2>2 DEF Ready, PassPcs, MergePcs
  <2>4. StoreStep /\ Starts /\ Surroundings
    BY <1>1, <1>2, <1>4, Untouched, NothingStarts, Around DEF Base
  <2> QED BY <2>2, <2>3, <2>4 DEF Good, Acts, Tells, Launches, Leaves
<1> QED BY <1>3, <1>4 DEF MarkRunning

LEMMA LaunchFailedIsGood ==
  ASSUME Inv, LaunchFailed
  PROVE  Good(Promoter)
<1>1. /\ At(Promoter, "unlaunched") /\ UNCHANGED <<runtime, passes, calls, git, told, stopped, unlisted>>
      /\ Promoter \in Actors
  BY DEF LaunchFailed, Actors
<1>2. /\ store \in Store /\ WellFormed(store) /\ Base
      /\ act \in [Actors -> {Idle} \cup Activations]
      /\ act[Promoter] \in Activations /\ Ready(Promoter, act[Promoter], merged)
      /\ act[Promoter].t \in Tasks /\ act[Promoter].rec \in Record
      /\ act[Promoter] # Idle /\ act[Promoter].kind = "pass"
  BY <1>1, Busy DEF At, Ready, CallPcs
<1>3. Surroundings
  BY <1>1, <1>2, Around DEF Base
<1>4. CASE /\ CanMove(Promoter, "failed") /\ Move(Promoter, "failed")
           /\ Go(Promoter, "follow", store'[act[Promoter].t])
  <2>1. "failed" \in Stored /\ "follow" \in Pcs
    BY DEF Stored, Pcs
  <2>2. /\ StoreStep /\ Starts
        /\ Present(store', act[Promoter].t) /\ store'[act[Promoter].t] \in Record
    BY <1>1, <1>2, <1>4, <2>1, Settles
  <2>3. PICK r \in Record : r = store'[act[Promoter].t]
    BY <2>2
  <2>4. Go(Promoter, "follow", r)
    BY <1>4, <2>3
  <2>5. /\ act' \in [Actors -> {Idle} \cup Activations] /\ Reads(Promoter)
        /\ act'[Promoter] \in Activations /\ act'[Promoter] # Idle /\ act'[Promoter].pc = "follow"
        /\ act'[Promoter].kind = act[Promoter].kind /\ act'[Promoter].todo = act[Promoter].todo
    BY <1>1, <1>2, <2>1, <2>2, <2>3, <2>4, Gos
  <2>6. Ready(Promoter, act'[Promoter], merged')
    BY <1>2, <2>5 DEF Ready, PassPcs, MergePcs
  <2> QED BY <1>3, <2>2, <2>5, <2>6 DEF Good, Acts, Tells, Launches, Leaves
<1>5. CASE Leave(Promoter) /\ UNCHANGED store
  <2>1. Acts(Promoter) /\ act'[Promoter] = Idle /\ act'[Promoter].pc = "idle"
    BY <1>1, <1>2, <1>5, Left
  <2> QED BY <1>2, <1>3, <1>5, <2>1, Untouched, NothingStarts DEF Good, Tells, Launches, Leaves
<1> QED BY <1>4, <1>5 DEF LaunchFailed

-----------------------------------------------------------------------------
(* The tools.                                                              *)

LEMMA PreparedExecution ==
  ASSUME NEW t \in Tasks, NEW e \in Exec, NEW mode \in Modes, NEW bg \in BOOLEAN
  PROVE  /\ Prepared(t, e, mode, bg) \in Exec
         /\ Prepared(t, e, mode, bg).merge = "merged" => e.merge = "merged"
<1> DEFINE x == CASE mode = "worktree" /\ e.mode = "worktree" /\ t \in tree -> e
                  [] mode = "worktree" /\ ~(e.mode = "worktree" /\ t \in tree)
                     /\ (t \in tree \/ t \notin branches) ->
                       [mode |-> "worktree", merge |-> "pending", ft |-> "none"]
                  [] OTHER -> [mode |-> "direct", merge |-> "bypassed", ft |-> "none"]
<1>1. x \in Exec /\ (x.merge = "merged" => e.merge = "merged")
  BY DEF Exec
<1>2. Prepared(t, e, mode, bg) = IF bg THEN [x EXCEPT !.ft = "pending"] ELSE x
  BY DEF Prepared
<1> HIDE DEF x
<1>3. [x EXCEPT !.ft = "pending"] \in Exec /\ [x EXCEPT !.ft = "pending"].merge = x.merge
  BY <1>1 DEF Exec
<1> QED BY <1>1, <1>2, <1>3

LEMMA CheckedOut ==
  ASSUME Base, NEW t \in Tasks, NEW e, Checkout(t, e)
  PROVE  tree' \subseteq branches' /\ branches' \subseteq Tasks
BY DEF Base, Checkout

(* The record is there: a background task is left to the passes, a         *)
(* foreground call goes on to prompt the session.                          *)
LEMMA StartedIs ==
  ASSUME act \in [Actors -> {Idle} \cup Activations], NEW a \in Actors, a # Promoter,
         NEW t \in Tasks, store' \in Store, Present(store', t),
         act[a] = Idle \/ (act[a] \in Activations /\ act[a].kind # "foreground"),
         NEW bg \in BOOLEAN, passes \in Nat, Started(a, t, bg)
  PROVE  Acts(a) /\ Tells(a) /\ Launches(a) /\ Leaves(a) /\ passes' \in Nat
<1>1. CASE bg
  <2>1. Leave(a) /\ passes' \in Nat
    BY <1>1, MorePasses DEF Started
  <2> QED BY <2>1, Left DEF Tells, Launches, Leaves, At, Idle
<1>2. CASE ~bg
  <2>1. Fresh(a, "foreground", "send", t) /\ passes' \in Nat
    BY <1>2 DEF Started, Fresh
  <2>2. "foreground" \in Kinds /\ "send" \in Pcs
    BY DEF Kinds, Pcs
  <2>3. /\ act' \in [Actors -> {Idle} \cup Activations] /\ Reads(a)
        /\ act'[a] \in Activations /\ act'[a] # Idle
        /\ act'[a].pc = "send" /\ act'[a].kind = "foreground"
    BY <2>1, <2>2, Begins
  <2>4. Ready(a, act'[a], merged')
    BY <2>3 DEF Ready, CallPcs, MergePcs
  <2> QED BY <2>1, <2>3, <2>4 DEF Acts, Tells, Launches, Leaves
<1> QED BY <1>1, <1>2

LEMMA CallerIs ==
  ASSUME NEW a, NEW tool, Inv, Invoke(a, tool)
  PROVE  /\ a \in Actors /\ a # Promoter /\ act[a] = Idle /\ calls' \in 0..MaxCalls
         /\ store \in Store /\ WellFormed(store) /\ Base
         /\ act \in [Actors -> {Idle} \cup Activations]
<1>1. a \in Callers /\ act[a] = Idle /\ calls > 0 /\ calls' = calls - 1
  BY DEF Invoke
<1>2. calls \in 0..MaxCalls /\ MaxCalls \in Nat
  BY Rests, DelegationAssumption DEF Base
<1> QED BY <1>1, <1>2, Rests, DelegationAssumption DEF Actors

LEMMA LaunchIsGood ==
  ASSUME Inv, NEW a, NEW t \in Tasks, NEW k \in Keys, NEW bg \in BOOLEAN, NEW mode \in Modes,
         NEW c \in Children, Launch(a, t, k, bg, mode, c)
  PROVE  a \in Actors /\ Good(a)
<1> DEFINE e == Prepared(t, NoRecord.exec, mode, bg)
           initial == IF bg THEN "queued" ELSE "running"
           args == [id |-> t, root |-> NoRecord.root, deps |-> {}, child |-> c,
                    key |-> k, bg |-> bg, exec |-> e, asg |-> NoRecord.asg, initial |-> initial]
           call == [op |-> "create", id |-> t, root |-> NoRecord.root, deps |-> {}, child |-> c,
                    key |-> k, bg |-> bg, exec |-> e, asg |-> NoRecord.asg, initial |-> initial]
<1>1. /\ ~Present(store, t) /\ session[c] = "unused" /\ session' = [session EXCEPT ![c] = "created"]
      /\ Checkout(t, e) /\ Started(a, t, bg) /\ UNCHANGED <<owed, merged, told, stopped, unlisted>>
      /\ store' = Created(store, args)
  BY DEF Launch, NewSession
<1>2. /\ a \in Actors /\ a # Promoter /\ act[a] = Idle /\ calls' \in 0..MaxCalls
      /\ store \in Store /\ WellFormed(store) /\ Base
      /\ act \in [Actors -> {Idle} \cup Activations]
  BY CallerIs DEF Launch
<1>3. NoRecord.exec \in Exec /\ NoRecord.exec.merge # "merged"
  BY DEF NoRecord, Exec
<1>4. e \in Exec /\ e.merge # "merged"
  BY <1>3, PreparedExecution
<1>5. NoRecord.root \in Roots /\ NoRecord.asg \in Assignments
  BY DelegationAssumption DEF NoRecord
<1> HIDE DEF e
<1>6. initial \in {"queued", "running"} /\ (initial = "running" => ~bg)
  OBVIOUS
<1> HIDE DEF initial
<1>7. call \in Call
  BY <1>4, <1>5, <1>6, DelegationAssumption DEF Call, CreateCall
<1>8. Accepts(store, call)
  <2>1. DependsOn(store, {}) = {}
    <3>1. \A u \in Tasks : u \notin {}
      OBVIOUS
    <3>2. {} \subseteq {} /\ {} \in SUBSET Tasks /\ \A d \in {} : store[d].deps \subseteq {}
      OBVIOUS
    <3> QED BY <3>1, <3>2 DEF DependsOn
  <2> QED BY <1>1, <2>1 DEF Accepts, CreateAccepted, HasCycle
<1>9. store' = Apply(store, call)
  BY <1>1 DEF Apply, Created
<1>10. /\ store'[t] = [status |-> initial, root |-> NoRecord.root,
                       deps |-> {}, order |-> NextOrder(store), child |-> c,
                       key |-> k, bg |-> bg, exec |-> e, asg |-> NoRecord.asg]
       /\ \A u \in Tasks : u # t => store'[u] = store[u]
  BY <1>1, <1>2, <1>6 DEF Created, StatusOnEntry, Store
<1> HIDE DEF call, args
<1>11. store' \in Store /\ WellFormed(store') /\ OneCall
  BY <1>2, <1>7, <1>8, <1>9, ApplyType, ApplyWellFormed DEF OneCall
<1>12. Begun(t)
  <2>1. /\ store'[t].status = initial /\ store'[t].bg = bg /\ store'[t].exec = e
        /\ store'[t].child = c
    BY <1>10
  <2>2. session'[c] = "created"
    BY <1>1, <1>2 DEF Base
  <2> QED BY <1>1, <1>4, <1>6, <1>10, <2>1, <2>2 DEF Begun, Present
<1>13. StoreStep
  BY <1>10, <1>11, <1>12 DEF StoreStep, RecordStep
<1>14. Starts
  BY <1>6, <1>10 DEF Starts
<1>15. Present(store', t)
  BY <1>6, <1>10 DEF Present
<1>16. Acts(a) /\ Tells(a) /\ Launches(a) /\ Leaves(a) /\ passes' \in Nat
  BY <1>1, <1>2, <1>11, <1>15, StartedIs DEF Base
<1>17. Surroundings
  <2>1. tree' \subseteq branches' /\ branches' \subseteq Tasks
    BY <1>1, <1>2, CheckedOut
  <2> QED BY <1>1, <1>2, <1>16, <2>1 DEF Base, Surroundings
<1> QED BY <1>2, <1>13, <1>14, <1>16, <1>17 DEF Good

LEMMA ContinueIsGood ==
  ASSUME Inv, NEW a, NEW t \in Tasks, Continue(a, t)
  PROVE  a \in Actors /\ Good(a)
<1>1. /\ store[t].status \in Terminal /\ "continue" \in Tools
      /\ act' = [act EXCEPT ![a] = Activation("continue", "restart", t, store[t])]
      /\ UNCHANGED <<store, runtime, passes, git, told, stopped, unlisted>>
  BY DEF Continue, Invoke
<1>2. /\ a \in Actors /\ a # Promoter /\ act[a] = Idle /\ calls' \in 0..MaxCalls
      /\ store \in Store /\ WellFormed(store) /\ Base
      /\ act \in [Actors -> {Idle} \cup Activations]
  BY CallerIs DEF Continue
<1>3. StoreStep /\ Starts
  BY <1>1, <1>2, Untouched, NothingStarts
<1>4. Surroundings
  BY <1>1, <1>2 DEF Base, Surroundings, git, runtime
<1>5. Fresh(a, "continue", "restart", t) /\ Present(store', t) /\ store' \in Store
  BY <1>1, <1>2 DEF Fresh, Present, Terminal
<1>6. "continue" \in Kinds /\ "restart" \in Pcs
  BY DEF Kinds, Pcs
<1>7. /\ act' \in [Actors -> {Idle} \cup Activations] /\ Reads(a)
      /\ act'[a] \in Activations /\ act'[a] # Idle
      /\ act'[a].pc = "restart" /\ act'[a].kind = "continue"
  BY <1>2, <1>5, <1>6, Begins
<1>8. Ready(a, act'[a], merged')
  BY <1>1, <1>2, <1>7 DEF Ready, MergePcs
<1> QED BY <1>2, <1>3, <1>4, <1>7, <1>8 DEF Good, Acts, Tells, Launches, Leaves

LEMMA RestartIsGood ==
  ASSUME Inv, NEW a \in Actors, NEW k \in Keys, NEW bg \in BOOLEAN, NEW mode \in Modes,
         NEW c \in Children, Restart(a, k, bg, mode, c)
  PROVE  Good(a)
<1> DEFINE t == act[a].t
           e == Prepared(t, act[a].rec.exec, mode, bg)
           initial == IF bg THEN "queued" ELSE "running"
           new == [id |-> t, child |-> c, key |-> k, bg |-> bg, exec |-> e, asg |-> store[t].asg,
                   initial |-> initial]
           call == [op |-> "restart", id |-> t, child |-> c, key |-> k, bg |-> bg, exec |-> e,
                    asg |-> store[t].asg, initial |-> initial]
<1>1. /\ At(a, "restart") /\ session[c] = "unused" /\ session' = [session EXCEPT ![c] = "created"]
      /\ Checkout(t, e) /\ UNCHANGED <<owed, calls, merged, told, stopped, unlisted>>
  BY DEF Restart, NewSession, My
<1>2. /\ store \in Store /\ WellFormed(store) /\ Base
      /\ act \in [Actors -> {Idle} \cup Activations]
      /\ act[a] \in Activations /\ Ready(a, act[a], merged)
      /\ act[a].t \in Tasks /\ act[a].rec \in Record /\ Faithful(act[a].t, act[a].rec)
      /\ act[a].kind # "foreground" /\ a # Promoter /\ "continue" \in Tools
  BY <1>1, Busy DEF At, Ready, CallPcs, PassPcs
<1>3. act[a].rec.exec \in Exec
  BY <1>2, DelegationAssumption DEF Record
<1>4. e \in Exec /\ (e.merge = "merged" => t \in merged)
  BY <1>2, <1>3, PreparedExecution DEF Faithful
<1>5. initial \in {"queued", "running"} /\ (initial = "running" => ~bg)
  OBVIOUS
<1>6. tree' \subseteq branches' /\ branches' \subseteq Tasks
  BY <1>1, <1>2, CheckedOut
<1>7. ASSUME RestartAccepted(store, new), store' = Restarted(store, new), Started(a, t, bg)
      PROVE  Good(a)
  <2> HIDE DEF e, initial
  <2>1. call \in Call
    BY <1>2, <1>4, <1>5, DelegationAssumption DEF Call, RestartCall, Store, Record
  <2>2. Accepts(store, call)
    BY <1>7 DEF Accepts, RestartAccepted
  <2>3. store' = Apply(store, call)
    BY <1>7 DEF Apply, Restarted
  <2>4. /\ store'[t] = [store[t] EXCEPT !.status = initial, !.child = c, !.key = k, !.bg = bg,
                                        !.exec = e, !.asg = store[t].asg]
        /\ \A u \in Tasks : u # t => store'[u] = store[u]
    BY <1>2, <1>5, <1>7 DEF Restarted, StatusOnEntry, Store
  <2>5. Present(store, t) /\ store[t].status \notin {"queued", "running"}
    BY <1>7 DEF RestartAccepted
  <2> HIDE DEF call, new
  <2>6. store' \in Store /\ WellFormed(store') /\ OneCall
    BY <1>2, <2>1, <2>2, <2>3, ApplyType, ApplyWellFormed DEF OneCall
  <2>7. store'[t].status = initial /\ store'[t].bg = bg /\ store'[t].exec = e /\ store'[t].child = c
    BY <1>2, <2>4 DEF Store, Record
  <2>8. session'[c] = "created"
    BY <1>1, <1>2 DEF Base
  <2>9. Begun(t)
    BY <1>1, <1>2, <1>4, <1>5, <2>4, <2>5, <2>7, <2>8 DEF Begun
  <2>10. StoreStep
    BY <2>4, <2>6, <2>9 DEF StoreStep, RecordStep
  <2>11. Starts
    BY <1>5, <2>4, <2>7 DEF Starts
  <2>12. Present(store', t)
    BY <1>5, <2>7 DEF Present
  <2>13. Acts(a) /\ Tells(a) /\ Launches(a) /\ Leaves(a) /\ passes' \in Nat
    BY <1>2, <1>7, <2>6, <2>12, StartedIs DEF Base
  <2>14. Surroundings
    BY <1>1, <1>2, <1>6, <2>13 DEF Base, Surroundings
  <2> QED BY <2>10, <2>11, <2>13, <2>14 DEF Good
<1>8. CASE Throw(a) /\ UNCHANGED <<store, passes>>
  <2>1. Surroundings
    BY <1>1, <1>2, <1>6, <1>8 DEF Base, Surroundings
  <2> QED BY <1>2, <1>8, <2>1, Untouched, NothingStarts, Throws DEF Good
<1> QED BY <1>7, <1>8 DEF Restart, My

LEMMA SendIsGood ==
  ASSUME Inv, NEW a \in Actors, Send(a)
  PROVE  Good(a)
<1>1. /\ At(a, "send") /\ UNCHANGED <<store, owed, passes, calls, git, told, stopped, unlisted>>
  BY DEF Send
<1>2. /\ store \in Store /\ WellFormed(store) /\ Base
      /\ act \in [Actors -> {Idle} \cup Activations]
      /\ act[a] \in Activations /\ Ready(a, act[a], merged) /\ act[a].rec \in Record
      /\ act[a].kind # "pass" /\ act[a] # Idle
  BY <1>1, Busy DEF At, Ready, PassPcs
<1>3. StoreStep /\ Starts
  BY <1>1, <1>2, Untouched, NothingStarts
<1>4. Surroundings
  <2>1. session' = [session EXCEPT ![act[a].rec.child] = "busy"] \/ UNCHANGED session
    BY DEF Send, My
  <2> QED BY <1>1, <1>2, <2>1 DEF Base, Surroundings, git
<1>5. CASE Go(a, "await", My(a))
  <2>1. Go(a, "await", act[a].rec) /\ "await" \in Pcs
    BY <1>5 DEF My, Pcs
  <2>2. /\ act' \in [Actors -> {Idle} \cup Activations] /\ Reads(a)
        /\ act'[a] \in Activations /\ act'[a] # Idle /\ act'[a].pc = "await"
        /\ act'[a].kind = act[a].kind /\ act'[a].todo = act[a].todo
    BY <1>2, <2>1, Gos
  <2>3. Ready(a, act'[a], merged')
    BY <1>2, <2>2 DEF Ready, CallPcs, MergePcs
  <2> QED BY <1>3, <1>4, <2>2, <2>3 DEF Good, Acts, Tells, Launches, Leaves
<1>6. CASE Throw(a)
  BY <1>2, <1>3, <1>4, <1>6, Throws DEF Good
<1> QED BY <1>5, <1>6 DEF Send

LEMMA AnsweredIsGood ==
  ASSUME Inv, NEW a \in Actors, Answered(a)
  PROVE  Good(a)
<1>1. At(a, "await") /\ UNCHANGED <<store, runtime, passes, calls, git, told, stopped, unlisted>>
  BY DEF Answered
<1>2. /\ store \in Store /\ WellFormed(store) /\ Base
      /\ act \in [Actors -> {Idle} \cup Activations]
      /\ act[a] \in Activations /\ Ready(a, act[a], merged) /\ act[a].rec \in Record
      /\ act[a].kind # "pass" /\ act[a] # Idle
  BY <1>1, Busy DEF At, Ready, PassPcs
<1>3. StoreStep /\ Starts /\ Surroundings
  BY <1>1, <1>2, Untouched, NothingStarts, Around DEF Base
<1>4. PICK pc \in {"launchFailed", "integrate"} : Go(a, pc, act[a].rec)
  BY DEF Answered, My
<1>5. pc \in Pcs
  BY DEF Pcs
<1>6. /\ act' \in [Actors -> {Idle} \cup Activations] /\ Reads(a)
      /\ act'[a] \in Activations /\ act'[a] # Idle /\ act'[a].pc = pc
      /\ act'[a].kind = act[a].kind /\ act'[a].todo = act[a].todo
  BY <1>2, <1>4, <1>5, Gos
<1>7. Ready(a, act'[a], merged')
  BY <1>2, <1>6 DEF Ready, CallPcs, MergePcs
<1> QED BY <1>3, <1>6, <1>7 DEF Good, Acts, Tells, Launches, Leaves

LEMMA FailForegroundIsGood ==
  ASSUME Inv, NEW a \in Actors, FailForeground(a)
  PROVE  Good(a)
<1>1. At(a, "launchFailed") /\ Leave(a) /\ UNCHANGED <<runtime, passes, calls, git, told, stopped, unlisted>>
  BY DEF FailForeground
<1>2. /\ store \in Store /\ WellFormed(store) /\ Base
      /\ act \in [Actors -> {Idle} \cup Activations]
      /\ act[a].t \in Tasks /\ Present(store, act[a].t)
  BY <1>1, Busy DEF At
<1>3. Surroundings
  BY <1>1, <1>2, Around DEF Base
<1>4. StoreStep /\ Starts /\ store'[act[a].t].status # "running"
  <2>1. CASE CanMove(a, "failed")
    <3>1. Move(a, "failed") /\ "failed" \in Stored
      BY <2>1 DEF FailForeground, Stored
    <3> QED BY <1>2, <2>1, <3>1, Settles
  <2>2. CASE ~CanMove(a, "failed")
    <3>1. UNCHANGED store
      BY <2>2 DEF FailForeground
    <3>2. store[act[a].t].status # "running"
      BY <1>2, <2>2 DEF CanMove, TransitionAccepted, TransitionAllowed, ValidTransitions
    <3> QED BY <1>2, <3>1, <3>2, Untouched, NothingStarts
  <2> QED BY <2>1, <2>2
<1>5. Acts(a) /\ act'[a] = Idle /\ act'[a].pc = "idle"
  BY <1>1, <1>2, Left
<1> QED BY <1>3, <1>4, <1>5 DEF Good, Tells, Launches, Leaves

LEMMA OutputIsGood ==
  ASSUME Inv, NEW a, NEW t \in Tasks, Output(a, t)
  PROVE  a \in Actors /\ Good(a)
<1>1. /\ Present(store, t) /\ UNCHANGED <<store, runtime, passes, git, told, stopped, unlisted>>
  BY DEF Output
<1>2. /\ a \in Actors /\ a # Promoter /\ act[a] = Idle /\ calls' \in 0..MaxCalls
      /\ store \in Store /\ WellFormed(store) /\ Base
      /\ act \in [Actors -> {Idle} \cup Activations]
  BY CallerIs DEF Output
<1>3. StoreStep /\ Starts
  BY <1>1, <1>2, Untouched, NothingStarts
<1>4. Surroundings
  BY <1>1, <1>2 DEF Base, Surroundings, git, runtime
<1>5. PICK pc \in {"status", "consume"} : act' = [act EXCEPT ![a] = Activation("output", pc, t, store[t])]
  BY DEF Output
<1>6. Fresh(a, "output", pc, t) /\ Present(store', t) /\ store' \in Store
  BY <1>1, <1>2, <1>5 DEF Fresh, Present
<1>7. "output" \in Kinds /\ pc \in Pcs
  BY DEF Kinds, Pcs
<1>8. /\ act' \in [Actors -> {Idle} \cup Activations] /\ Reads(a)
      /\ act'[a] \in Activations /\ act'[a] # Idle
      /\ act'[a].pc = pc /\ act'[a].kind = "output"
  BY <1>2, <1>6, <1>7, Begins
<1>9. Ready(a, act'[a], merged')
  BY <1>2, <1>8 DEF Ready, MergePcs
<1> QED BY <1>2, <1>3, <1>4, <1>8, <1>9 DEF Good, Acts, Tells, Launches, Leaves

LEMMA LookAgainIsGood ==
  ASSUME Inv, NEW a \in Actors, LookAgain(a)
  PROVE  Good(a)
<1>1. At(a, "look") /\ UNCHANGED <<store, runtime, passes, calls, git, told, stopped, unlisted>>
  BY DEF LookAgain
<1>2. /\ store \in Store /\ WellFormed(store) /\ Base
      /\ act \in [Actors -> {Idle} \cup Activations]
      /\ act[a] \in Activations /\ Ready(a, act[a], merged)
      /\ act[a].t \in Tasks /\ Present(store, act[a].t)
      /\ act[a].kind \notin {"pass", "foreground"} /\ act[a] # Idle
  BY <1>1, Busy DEF At, Ready, CallPcs, PassPcs
<1>3. StoreStep /\ Starts /\ Surroundings
  BY <1>1, <1>2, Untouched, NothingStarts, Around DEF Base
<1>4. PICK pc \in {"status", "consume"} : Go(a, pc, store[act[a].t])
  BY DEF LookAgain
<1>5. PICK r \in Record : r = store[act[a].t]
  BY <1>2 DEF Store
<1>6. pc \in Pcs /\ Go(a, pc, r) /\ Present(store', act[a].t) /\ r = store'[act[a].t]
  BY <1>1, <1>2, <1>4, <1>5 DEF Pcs, Present
<1>7. /\ act' \in [Actors -> {Idle} \cup Activations] /\ Reads(a)
      /\ act'[a] \in Activations /\ act'[a] # Idle /\ act'[a].pc = pc
      /\ act'[a].kind = act[a].kind /\ act'[a].todo = act[a].todo
  BY <1>2, <1>6, Gos
<1>8. Ready(a, act'[a], merged')
  BY <1>2, <1>7 DEF Ready, MergePcs
<1> QED BY <1>3, <1>7, <1>8 DEF Good, Acts, Tells, Launches, Leaves

LEMMA ConsumeIsGood ==
  ASSUME Inv, NEW a \in Actors, Consume(a)
  PROVE  Good(a)
<1>1. At(a, "consume") /\ Leave(a) /\ UNCHANGED <<runtime, passes, calls, git, told, stopped, unlisted>>
  BY DEF Consume
<1>2. /\ store \in Store /\ WellFormed(store) /\ Base
      /\ act \in [Actors -> {Idle} \cup Activations]
      /\ act[a].t \in Tasks /\ act[a].rec \in Record /\ Faithful(act[a].t, act[a].rec)
      /\ act[a].kind # "foreground"
  BY <1>1, Busy DEF At, Ready, CallPcs
<1>3. Surroundings
  BY <1>1, <1>2, Around DEF Base
<1>4. StoreStep /\ Starts
  <2>1. CASE SetFollowThrough(a, "delivered")
    <3> DEFINE e == [act[a].rec.exec EXCEPT !.ft = "delivered"]
    <3>1. SetExec(act[a].t, e)
      BY <2>1 DEF SetFollowThrough, My
    <3>2. e \in Exec /\ e.mode = act[a].rec.exec.mode /\ e.merge = act[a].rec.exec.merge
      BY <1>2, DelegationAssumption DEF Record, Exec
    <3>3. e.merge = "merged" => act[a].t \in merged'
      BY <1>1, <1>2, <3>2 DEF git, Faithful
    <3> HIDE DEF e
    <3> QED BY <1>2, <3>1, <3>2, <3>3, Saves
  <2>2. CASE UNCHANGED store
    BY <1>2, <2>2, Untouched, NothingStarts
  <2> QED BY <2>1, <2>2 DEF Consume
<1>5. Acts(a) /\ act'[a] = Idle /\ act'[a].pc = "idle"
  BY <1>1, <1>2, Left
<1> QED BY <1>2, <1>3, <1>4, <1>5 DEF Good, Tells, Launches, Leaves

LEMMA CancelListIsGood ==
  ASSUME Inv, NEW a \in Actors, a # Promoter, act[a] = Idle,
         NEW n \in Nat \ {0}, NEW list \in [1..n -> Tasks],
         \A i \in 1..n : Present(store, list[i]),
         UNCHANGED store, Surroundings, CancelList(a, list)
  PROVE  Good(a)
<1>1. /\ store \in Store /\ WellFormed(store)
      /\ act \in [Actors -> {Idle} \cup Activations]
  BY Rests
<1>2. StoreStep /\ Starts
  BY <1>1, Untouched, NothingStarts
<1>3. act' = [act EXCEPT ![a] =
                [Activation("cancel", "abort", list[1], store'[list[1]]) EXCEPT !.todo = Listing(list)]]
  BY DEF CancelList, Listing
<1>4. "cancel" \in Kinds /\ "abort" \in Pcs /\ store' \in Store /\ \A i \in 1..n : Present(store', list[i])
  BY <1>1 DEF Kinds, Pcs, Present
<1>5. /\ act' \in [Actors -> {Idle} \cup Activations] /\ Reads(a)
      /\ act'[a] \in Activations /\ act'[a] # Idle
      /\ act'[a].pc = "abort" /\ act'[a].kind = "cancel" /\ act'[a].todo # <<>>
  BY <1>1, <1>3, <1>4, ListBegins
<1>6. Ready(a, act'[a], merged')
  BY <1>5 DEF Ready, MergePcs
<1> QED BY <1>2, <1>5, <1>6 DEF Good, Acts, Tells, Launches, Leaves

LEMMA CancelIsGood ==
  ASSUME Inv, NEW a, NEW t \in Tasks, Cancel(a, t)
  PROVE  a \in Actors /\ Good(a)
<1>1. Present(store, t) /\ UNCHANGED <<store, runtime, passes, git, told, stopped, unlisted>>
  BY DEF Cancel
<1>2. /\ a \in Actors /\ a # Promoter /\ act[a] = Idle /\ calls' \in 0..MaxCalls
      /\ store \in Store /\ WellFormed(store) /\ Base
      /\ act \in [Actors -> {Idle} \cup Activations]
  BY CallerIs DEF Cancel
<1>3. Surroundings
  BY <1>1, <1>2 DEF Base, Surroundings, git, runtime
<1>4. CASE CancelList(a, <<t>>)
  <2>1. <<t>> \in [1..1 -> Tasks] /\ 1 \in Nat \ {0} /\ \A i \in 1..1 : Present(store, <<t>>[i])
    BY <1>1
  <2> QED BY <1>1, <1>2, <1>3, <1>4, <2>1, CancelListIsGood
<1>5. CASE act' = [act EXCEPT ![a] = Activation("waive", "waive", t, store[t])]
  <2>1. Fresh(a, "waive", "waive", t) /\ Present(store', t) /\ store' \in Store
    BY <1>1, <1>2, <1>5 DEF Fresh, Present
  <2>2. "waive" \in Kinds /\ "waive" \in Pcs
    BY DEF Kinds, Pcs
  <2>3. /\ act' \in [Actors -> {Idle} \cup Activations] /\ Reads(a)
        /\ act'[a] \in Activations /\ act'[a] # Idle
        /\ act'[a].pc = "waive" /\ act'[a].kind = "waive"
    BY <1>2, <2>1, <2>2, Begins
  <2>4. Ready(a, act'[a], merged')
    BY <1>2, <2>3 DEF Ready, MergePcs
  <2> QED BY <1>1, <1>2, <1>3, <2>3, <2>4, Untouched, NothingStarts
          DEF Good, Acts, Tells, Launches, Leaves
<1> QED BY <1>4, <1>5 DEF Cancel

LEMMA CancelAllIsGood ==
  ASSUME Inv, NEW a, CancelAll(a)
  PROVE  a \in Actors /\ Good(a)
<1> DEFINE active == {t \in Tasks : store[t].bg /\ store[t].status \in Active}
<1>1. active # {} /\ UNCHANGED <<store, runtime, passes, git, told, stopped, unlisted>>
  BY DEF CancelAll
<1>2. /\ a \in Actors /\ a # Promoter /\ act[a] = Idle /\ calls' \in 0..MaxCalls
      /\ store \in Store /\ WellFormed(store) /\ Base
      /\ act \in [Actors -> {Idle} \cup Activations]
  BY CallerIs DEF CancelAll
<1>3. Surroundings
  BY <1>1, <1>2 DEF Base, Surroundings, git, runtime
<1>4. PICK list \in [1..Cardinality(active) -> active] : CancelList(a, list)
  BY DEF CancelAll
<1>5. Cardinality(active) \in Nat \ {0}
  <2>1. IsFiniteSet(active)
    BY TasksFinite, FS_Subset
  <2> HIDE DEF active
  <2> QED BY <1>1, <2>1, FS_CardinalityType, FS_EmptySet
<1>6. list \in [1..Cardinality(active) -> Tasks] /\ \A i \in 1..Cardinality(active) : Present(store, list[i])
  <2>1. active \subseteq Tasks /\ \A t \in active : Present(store, t)
    BY DEF Active, Present
  <2> HIDE DEF active
  <2> QED BY <1>4, <2>1
<1> HIDE DEF active
<1> QED BY <1>1, <1>2, <1>3, <1>4, <1>5, <1>6, CancelListIsGood

LEMMA AbortIsGood ==
  ASSUME Inv, NEW a \in Actors, Abort(a)
  PROVE  Good(a)
<1> DEFINE one == Head(act[a].todo)
<1>1. At(a, "abort") /\ UNCHANGED <<store, passes, calls, git, told, stopped, unlisted>>
  BY DEF Abort
<1>2. /\ store \in Store /\ WellFormed(store) /\ Base
      /\ act \in [Actors -> {Idle} \cup Activations]
      /\ act[a] \in Activations /\ Ready(a, act[a], merged)
      /\ act[a].kind = "cancel" /\ act[a].todo # <<>> /\ act[a] # Idle
  BY <1>1, Busy DEF At, Ready
<1>3. StoreStep /\ Starts
  BY <1>1, <1>2, Untouched, NothingStarts
<1>4. "cancel" \in Pcs /\ Taken(a, "cancel", one)
  BY DEF Pcs, Abort, Taken
<1>5. /\ act' \in [Actors -> {Idle} \cup Activations] /\ Reads(a)
      /\ act'[a] \in Activations /\ act'[a] # Idle
      /\ act'[a].pc = "cancel" /\ act'[a].rec = one.rec
      /\ act'[a].kind = act[a].kind /\ act'[a].todo = act[a].todo
  <2>1. one = Head(act[a].todo)
    OBVIOUS
  <2> HIDE DEF one
  <2> QED BY <1>2, <1>4, <2>1, TakesUp
<1>6. one.rec.child \in Children
  BY <1>5, Fields DEF Record
<1>7. Surroundings
  <2>1. \/ /\ session' = [session EXCEPT ![one.rec.child] = "idle"]
           /\ owed' = owed \cup {<<"idle", one.rec.child>>}
        \/ UNCHANGED <<session, owed>>
    BY DEF Abort, runtime
  <2> HIDE DEF one
  <2> QED BY <1>1, <1>2, <1>6, <2>1 DEF Base, Surroundings, git
<1>8. Ready(a, act'[a], merged')
  BY <1>2, <1>5 DEF Ready, MergePcs
<1> QED BY <1>3, <1>5, <1>7, <1>8 DEF Good, Acts, Tells, Launches, Leaves

LEMMA CancelTaskIsGood ==
  ASSUME Inv, NEW a \in Actors, CancelTask(a)
  PROVE  Good(a)
<1>1. At(a, "cancel") /\ UNCHANGED <<runtime, passes, calls, git, told, stopped, unlisted>>
  BY DEF CancelTask
<1>2. /\ store \in Store /\ WellFormed(store) /\ Base
      /\ act \in [Actors -> {Idle} \cup Activations]
      /\ act[a] \in Activations /\ Ready(a, act[a], merged) /\ act[a].t \in Tasks
      /\ act[a].kind \notin {"pass", "foreground"} /\ act[a] # Idle
  BY <1>1, Busy DEF At, Ready, CallPcs, PassPcs
<1>3. Surroundings
  BY <1>1, <1>2, Around DEF Base
<1>4. CASE CanMove(a, "cancelled") /\ Move(a, "cancelled") /\ Go(a, "waive", store'[act[a].t])
  <2>1. "cancelled" \in Stored /\ "waive" \in Pcs
    BY DEF Stored, Pcs
  <2>2. /\ StoreStep /\ Starts
        /\ Present(store', act[a].t) /\ store'[act[a].t] \in Record
    BY <1>2, <1>4, <2>1, Settles
  <2>3. PICK r \in Record : r = store'[act[a].t]
    BY <2>2
  <2>4. Go(a, "waive", r)
    BY <1>4, <2>3
  <2>5. /\ act' \in [Actors -> {Idle} \cup Activations] /\ Reads(a)
        /\ act'[a] \in Activations /\ act'[a] # Idle /\ act'[a].pc = "waive"
        /\ act'[a].kind = act[a].kind /\ act'[a].todo = act[a].todo
    BY <1>2, <2>1, <2>2, <2>3, <2>4, Gos
  <2>6. Ready(a, act'[a], merged')
    BY <1>2, <2>5 DEF Ready, MergePcs
  <2> QED BY <1>3, <2>2, <2>5, <2>6 DEF Good, Acts, Tells, Launches, Leaves
<1>5. CASE Throw(a) /\ UNCHANGED store
  BY <1>2, <1>3, <1>5, Untouched, NothingStarts, Throws DEF Good
<1> QED BY <1>4, <1>5 DEF CancelTask

LEMMA WaiveIsGood ==
  ASSUME Inv, NEW a \in Actors, Waive(a)
  PROVE  Good(a)
<1>1. At(a, "waive") /\ SetFollowThrough(a, "waived") /\ UNCHANGED <<runtime, calls, git, told, stopped, unlisted>>
  BY DEF Waive
<1>2. /\ store \in Store /\ WellFormed(store) /\ Base
      /\ act \in [Actors -> {Idle} \cup Activations]
      /\ act[a] \in Activations /\ Ready(a, act[a], merged)
      /\ act[a].t \in Tasks /\ act[a].rec \in Record /\ Faithful(act[a].t, act[a].rec)
      /\ act[a].kind \notin {"pass", "foreground"} /\ act[a] # Idle
  BY <1>1, Busy DEF At, Ready, CallPcs, PassPcs
<1>3. StoreStep /\ Starts
  <2> DEFINE e == [act[a].rec.exec EXCEPT !.ft = "waived"]
  <2>1. SetExec(act[a].t, e)
    BY <1>1 DEF SetFollowThrough, My
  <2>2. e \in Exec /\ e.mode = act[a].rec.exec.mode /\ e.merge = act[a].rec.exec.merge
    BY <1>2, DelegationAssumption DEF Record, Exec
  <2>3. e.merge = "merged" => act[a].t \in merged'
    BY <1>1, <1>2, <2>2 DEF git, Faithful
  <2> HIDE DEF e
  <2> QED BY <1>2, <2>1, <2>2, <2>3, Saves
<1>4. CASE Leave(a) /\ passes' \in {passes, More(passes)}
  <2>1. passes' \in Nat
    BY <1>2, <1>4, MorePasses DEF Base
  <2>2. Surroundings
    BY <1>1, <1>2, <2>1, Around
  <2>3. Acts(a) /\ act'[a] = Idle /\ act'[a].pc = "idle"
    BY <1>2, <1>4, Left
  <2> QED BY <1>2, <1>3, <2>2, <2>3 DEF Good, Tells, Launches, Leaves
<1>5. ASSUME act[a].kind = "cancel", Len(act[a].todo) > 1, UNCHANGED passes,
             act' = [act EXCEPT ![a] = [act[a] EXCEPT !.pc = "abort", !.todo = Tail(act[a].todo)]]
      PROVE  Good(a)
  <2> DEFINE rest == Tail(act[a].todo)
             x == [act[a] EXCEPT !.pc = "abort", !.todo = rest]
  <2>1. /\ rest \in Seq([t : Tasks, rec : Record]) /\ rest # <<>>
        /\ \A i \in 1..Len(rest) : i + 1 \in 1..Len(act[a].todo) /\ rest[i] = act[a].todo[i + 1]
    <3>1. act[a].todo # <<>>
      BY <1>2, <1>5 DEF Ready
    <3>2. Len(act[a].todo) # 1
      <4>1. Len(act[a].todo) \in Nat
        <5>1. act[a].todo \in Seq([t : Tasks, rec : Record])
          BY <1>2, Fields
        <5> QED BY <5>1, LenProperties
      <4>2. PICK n \in Nat : n = Len(act[a].todo)
        BY <4>1
      <4>3. n > 1 => n # 1
        OBVIOUS
      <4> QED BY <1>5, <4>2, <4>3
    <3> QED BY <1>2, <3>1, <3>2, Rest
  <2> HIDE DEF rest
  <2>2. /\ x \in Activations /\ x.pc = "abort" /\ x.todo = rest /\ x.kind = act[a].kind
        /\ x.t = act[a].t /\ x.rec = act[a].rec
    BY <1>2, <2>1 DEF Activations, Pcs
  <2>3. act'[a] = x /\ \A b \in Actors : b # a => act'[b] = act[b]
    BY <1>2, <1>5 DEF rest
  <2>4. act' \in [Actors -> {Idle} \cup Activations]
    BY <1>2, <1>5, <2>2 DEF rest
  <2> HIDE DEF x
  <2>5. Reads(a)
    <3> SUFFICES ASSUME NEW t \in Tasks, NEW r \in Record, InHand(x, t, r)
                 PROVE  InHand(act[a], t, r)
      BY <2>3 DEF Reads
    <3>1. CASE x.t = t /\ x.rec = r
      BY <1>2, <2>2, <3>1 DEF InHand
    <3>2. ASSUME NEW i \in 1..Len(rest), rest[i].t = t, rest[i].rec = r
          PROVE  InHand(act[a], t, r)
      BY <1>2, <2>1, <3>2 DEF InHand
    <3> QED BY <2>2, <3>1, <3>2 DEF InHand
  <2>6. Ready(a, x, merged') /\ x # Idle
    BY <1>2, <1>5, <2>1, <2>2, Fields DEF Ready, MergePcs
  <2>7. Surroundings
    BY <1>1, <1>2, <1>5, Around DEF Base
  <2> QED BY <1>3, <2>2, <2>3, <2>4, <2>5, <2>6, <2>7 DEF Good, Acts, Tells, Launches, Leaves
<1>6. CASE act[a].kind = "cancel" /\ Len(act[a].todo) > 1
  <2>1. /\ UNCHANGED passes
        /\ act' = [act EXCEPT ![a].pc = "abort", ![a].todo = Tail(@)]
    BY <1>6 DEF Waive
  <2>2. act' = [act EXCEPT ![a] = [act[a] EXCEPT !.pc = "abort", !.todo = Tail(act[a].todo)]]
    BY <1>2, <2>1 DEF Activations
  <2> QED BY <1>5, <1>6, <2>1, <2>2
<1>7. CASE ~(act[a].kind = "cancel" /\ Len(act[a].todo) > 1)
  BY <1>4, <1>7 DEF Waive
<1> QED BY <1>6, <1>7

-----------------------------------------------------------------------------
(* Steps of no actor.                                                      *)

LEMMA NoActor ==
  ASSUME Inv, UNCHANGED <<store, act>>, Surroundings
  PROVE  Good(Promoter)
<1>1. /\ store \in Store /\ WellFormed(store) /\ Base /\ Promoter \in Actors
      /\ act \in [Actors -> {Idle} \cup Activations]
  BY Rests DEF Actors
<1>2. StoreStep /\ Starts
  BY <1>1, Untouched, NothingStarts
<1>3. Ready(Promoter, act'[Promoter], merged')
  BY <1>1 DEF Inv, AllReady, Ready, Surroundings
<1>4. Reads(Promoter)
  BY DEF Reads
<1>5. Tells(Promoter)
  BY <1>1 DEF Inv, Telling, Tells, CanBeBlocked
<1>6. Launches(Promoter)
  BY DEF Inv, Room, Launches, At, My
<1>7. Leaves(Promoter)
  BY DEF Leaves, At, Idle
<1> QED BY <1>1, <1>2, <1>3, <1>4, <1>5, <1>6, <1>7 DEF Good, Acts

LEMMA SessionEndsIsGood ==
  ASSUME Inv, NEW c \in Children, SessionEnds(c)
  PROVE  Good(Promoter)
<1>1. UNCHANGED <<store, act, passes, calls, git, told, stopped, unlisted>>
  BY DEF SessionEnds
<1>2. PICK s \in {"idle", "error"} :
        /\ session' = [session EXCEPT ![c] = s]
        /\ owed' \subseteq owed \cup {<<"idle", c>>, <<"error", c>>, <<"interrupt", c>>}
  BY DEF SessionEnds
<1>3. Surroundings
  BY <1>1, <1>2, Rests DEF Base, Surroundings, git
<1> QED BY <1>1, <1>3, NoActor

LEMMA StopIsGood ==
  ASSUME Inv, Stop
  PROVE  Good(Promoter)
<1>1. Surroundings
  BY Rests DEF Stop, Base, Surroundings, git, runtime
<1> QED BY <1>1, NoActor DEF Stop

-----------------------------------------------------------------------------
(* Every step is a good one of some actor, and good steps keep the         *)
(* invariant.                                                              *)

LEMMA StepIsGood ==
  ASSUME Inv, [Next]_vars
  PROVE  \E a \in Actors : Good(a)
<1>0. Promoter \in Actors
  BY DEF Actors
<1>1. ASSUME NEW a \in Actors, Work(a)
      PROVE  Good(a)
  <2>1. CASE Refresh(a)
    BY <2>1, ReadStatusIsGood, SessionFailedIsGood, TelemetryIsGood, SaveStaleIsGood,
       BlockStaleIsGood DEF Refresh
  <2>2. CASE Integration(a)
    BY <2>2, IntegrateIsGood, CheckRootIsGood, MergeIsGood, RecordMergeIsGood,
       SettleOutcomeIsGood, CleanupIsGood DEF Integration
  <2>3. CASE FollowThrough(a)
    BY <2>3, FollowIsGood, ReadModeIsGood, TellRootIsGood, FollowedIsGood DEF FollowThrough
  <2>4. CASE SessionEvent(a)
    BY <2>4, EndByEventIsGood DEF SessionEvent
  <2>5. CASE Foreground(a)
    BY <2>5, RestartIsGood, SendIsGood, AnsweredIsGood, FailForegroundIsGood DEF Foreground
  <2>6. CASE LookAgain(a) \/ Consume(a) \/ Abort(a) \/ CancelTask(a) \/ Waive(a)
    BY <2>6, LookAgainIsGood, ConsumeIsGood, AbortIsGood, CancelTaskIsGood, WaiveIsGood
  <2> QED BY <1>1, <2>1, <2>2, <2>3, <2>4, <2>5, <2>6 DEF Work, ToolStep
<1>2. ASSUME Pass PROVE Good(Promoter)
  BY <1>2, BeginPassIsGood, PromoteIsGood, MarkRunningIsGood, LaunchFailedIsGood DEF Pass
<1>3. ASSUME Event PROVE \E a \in Actors : Good(a)
  BY <1>3, DeliverIsGood DEF Event
<1>4. ASSUME NEW a \in Callers, ToolCall(a)
      PROVE  a \in Actors /\ Good(a)
  BY <1>4, LaunchIsGood, ContinueIsGood, OutputIsGood, CancelIsGood, CancelAllIsGood DEF ToolCall
<1>5. ASSUME NEW c \in Children, SessionEnds(c) PROVE Good(Promoter)
  BY <1>5, SessionEndsIsGood
<1>6. ASSUME Stop PROVE Good(Promoter)
  BY <1>6, StopIsGood
<1>7. ASSUME UNCHANGED vars PROVE Good(Promoter)
  <2>1. UNCHANGED <<store, act>> /\ Surroundings
    BY <1>7, Rests DEF vars, runtime, git, Surroundings, Base
  <2> QED BY <2>1, NoActor
<1> QED BY <1>0, <1>1, <1>2, <1>3, <1>4, <1>5, <1>6, <1>7 DEF Next

LEMMA GoodEffects ==
  ASSUME NEW a, Good(a)
  PROVE  Effects
BY DEF Good, StoreStep, Surroundings, Effects

(* A background task that runs ran before, as it is, or was just launched. *)
LEMMA RunsOn ==
  ASSUME Inv, NEW a \in Actors, Good(a), NEW t \in Tasks, NEW k \in Keys, t \in Running(k)'
  PROVE  \/ t \in Running(k)
         \/ /\ At(Promoter, "launched") /\ act[Promoter].t = t /\ act'[Promoter].pc # "launched"
            /\ Present(store, t) /\ store[t].key = k
<1>1. store'[t].bg /\ store'[t].status = "running" /\ store'[t].key = k
  BY DEF Running
<1>2. RecordStep(t) /\ store \in Store /\ store' \in Store
  BY DEF Good, StoreStep, Inv, TypeOK
<1>3. ~Begun(t)
  BY <1>1 DEF Begun
<1>4. Present(store, t)
  BY <1>1, <1>2, <1>3 DEF RecordStep, Rewritten, Moved, Present
<1>5. store[t].key = k /\ store[t].bg
  BY <1>1, <1>2, <1>3, <1>4, Stays
<1>6. CASE store[t].status = "running"
  BY <1>5, <1>6 DEF Running
<1>7. CASE store[t].status # "running"
  BY <1>1, <1>4, <1>5, <1>7 DEF Good, Starts
<1> QED BY <1>6, <1>7

LEMMA GoodKeeps ==
  ASSUME Inv, NEW a \in Actors, Good(a)
  PROVE  Inv'
<1>0. Effects /\ store \in Store /\ store' \in Store
  BY GoodEffects DEF Good, StoreStep, Inv, TypeOK
<1>1. TypeOK'
  BY DEF Good, StoreStep, Surroundings, Acts, Base, TypeOK
<1>2. Records'
  BY <1>0, RecordsKept DEF Inv
<1>3. Hands'
  BY <1>0, HandsKept DEF Inv, Good, Acts
<1>4. AllReady'
  <2>1. ASSUME NEW b \in Actors PROVE Ready(b, act'[b], merged')
    <3>1. CASE b = a
      BY <3>1 DEF Good, Acts
    <3>2. CASE b # a
      <4>1. act'[b] = act[b] /\ merged \subseteq merged'
        BY <3>2 DEF Good, Acts, Reads, Surroundings
      <4>2. Ready(b, act[b], merged)
        BY DEF Inv, AllReady
      <4> QED BY <4>1, <4>2 DEF Ready
    <3> QED BY <3>1, <3>2
  <2> QED BY <2>1 DEF AllReady
<1>5. Telling'
  <2> SUFFICES ASSUME NEW b \in Actors, "continue" \notin Tools, act'[b].pc \in {"mode", "tell"}
               PROVE  \/ store'[act'[b].t].status \in Terminal
                      \/ act'[b].t \in TinyTasks \/ store'[act'[b].t].exec.mode = "worktree"
    BY DEF Telling, CanBeBlocked
  <2>1. CASE b = a
    BY <2>1 DEF Good, Tells
  <2>2. CASE b # a
    <3>1. act'[b] = act[b]
      BY <2>2 DEF Good, Acts, Reads
    <3>2. act[b].t \in Tasks /\ Present(store, act[b].t)
      BY <3>1, Busy
    <3>3. PICK t \in Tasks : t = act[b].t
      BY <3>2
    <3>4. store[t].status \in Terminal \/ CanBeBlocked(t)
      BY <3>1, <3>3 DEF Inv, Telling
    <3>5. RecordStep(t)
      BY DEF Good, StoreStep
    <3>6. /\ store[t].status \in Terminal => store'[t].status = store[t].status
          /\ store'[t].exec.mode = store[t].exec.mode
      BY <1>0, <3>2, <3>3, <3>5, Stays
    <3> QED BY <3>1, <3>3, <3>4, <3>6 DEF CanBeBlocked
  <2> QED BY <2>1, <2>2
<1>6. \A k \in Keys : IsFiniteSet(Running(k)) /\ Cardinality(Running(k)) \in Nat
  <2> SUFFICES ASSUME NEW k \in Keys PROVE IsFiniteSet(Running(k)) /\ Cardinality(Running(k)) \in Nat
    OBVIOUS
  <2>1. Running(k) \in SUBSET Tasks
    BY DEF Running
  <2> QED BY <2>1, TasksFinite, FS_Subset, FS_CardinalityType
<1>7. Room'
  <2> SUFFICES ASSUME act'[Promoter].pc = "launched"
               PROVE  Cardinality({t \in Tasks : store'[t].bg /\ store'[t].status = "running"
                                        /\ store'[t].key = act'[Promoter].rec.key}) < MaxRunning
    BY DEF Room, At, My, Running
  <2>0. PICK k \in Keys : k = act'[Promoter].rec.key
    <3>1. act'[Promoter] \in Activations
      BY DEF Good, Acts, Actors, Idle
    <3> QED BY <3>1, Fields DEF Record
  <2>a. PICK S : S = {t \in Tasks : store'[t].bg /\ store'[t].status = "running" /\ store'[t].key = k}
    OBVIOUS
  <2>b. SUFFICES Cardinality(S) < MaxRunning
    BY <2>0, <2>a
  <2>1. CASE a = Promoter
    <3>1. store' = store /\ Cardinality(Running(act'[Promoter].rec.key)) < MaxRunning
      BY <2>1 DEF Good, Launches
    <3>2. S = Running(k)
      BY <2>a, <3>1 DEF Running
    <3> QED BY <2>0, <3>1, <3>2
  <2>2. CASE a # Promoter
    <3>1. act'[Promoter] = act[Promoter] /\ Promoter \in Actors
      BY <2>2 DEF Good, Acts, Reads, Actors
    <3>2. S \subseteq Running(k)
      <4> SUFFICES ASSUME NEW t \in S PROVE t \in Running(k)
        OBVIOUS
      <4>1. t \in Tasks /\ t \in Running(k)'
        BY <2>a DEF Running
      <4> QED BY <4>1, RunsOn
    <3>3. Cardinality(Running(k)) < MaxRunning
      BY <2>0, <3>1 DEF Inv, Room, At, My
    <3>4. IsFiniteSet(Running(k)) /\ Cardinality(Running(k)) \in Nat
      BY <1>6
    <3>5. IsFiniteSet(S) /\ Cardinality(S) <= Cardinality(Running(k)) /\ Cardinality(S) \in Nat
      BY <3>2, <3>4, FS_Subset, FS_CardinalityType
    <3> QED BY <3>3, <3>4, <3>5, DelegationAssumption
  <2> QED BY <2>1, <2>2
<1>8. RunningCap'
  <2> SUFFICES ASSUME AgentsStay, NEW k \in Keys
               PROVE  Cardinality(Running(k)') <= MaxRunning
    BY DEF RunningCap, AgentsStay
  <2>1. PICK S : S = Running(k)'
    OBVIOUS
  <2>2. IsFiniteSet(Running(k)) /\ Cardinality(Running(k)) \in Nat
        /\ Cardinality(Running(k)) <= MaxRunning
    BY <1>6 DEF Inv, RunningCap
  <2>3. \A t \in S : t \in Tasks
    BY <2>1 DEF Running
  <2>4. CASE S \subseteq Running(k)
    <3>1. Cardinality(S) <= Cardinality(Running(k)) /\ Cardinality(S) \in Nat
      BY <2>2, <2>4, FS_Subset, FS_CardinalityType
    <3>2. Cardinality(S) <= MaxRunning
      BY <2>2, <3>1, DelegationAssumption
    <3> QED BY <2>1, <3>2
  <2>5. ASSUME NEW u \in S, u \notin Running(k)
        PROVE  Cardinality(S) <= MaxRunning
    <3>1. /\ At(Promoter, "launched") /\ act[Promoter].t = u
          /\ Present(store, u) /\ store[u].key = k
      BY <2>1, <2>3, <2>5, RunsOn
    <3>2. Faithful(act[Promoter].t, act[Promoter].rec)
      BY <3>1, Busy DEF At, Actors
    <3>3. act[Promoter].rec.key = k
      BY <3>1, <3>2 DEF Faithful
    <3>4. Cardinality(Running(k)) < MaxRunning
      BY <3>1, <3>3 DEF Inv, Room, My
    <3>5. S \subseteq Running(k) \cup {u}
      BY <2>1, <2>3, <3>1, RunsOn
    <3>6. IsFiniteSet(Running(k) \cup {u}) /\ Cardinality(Running(k) \cup {u}) = Cardinality(Running(k)) + 1
      BY <2>2, <2>5, FS_AddElement
    <3>7. IsFiniteSet(S) /\ Cardinality(S) <= Cardinality(Running(k) \cup {u}) /\ Cardinality(S) \in Nat
      BY <3>5, <3>6, FS_Subset, FS_CardinalityType
    <3> QED BY <2>2, <3>4, <3>6, <3>7, DelegationAssumption
  <2> QED BY <2>1, <2>4, <2>5
<1> QED BY <1>1, <1>2, <1>3, <1>4, <1>5, <1>7, <1>8 DEF Inv

LEMMA InvAtFirst ==
  ASSUME Init
  PROVE  Inv
<1>1. NoRecord \in Record /\ NoRecord.status = "absent" /\ NoRecord.exec.merge # "merged"
      /\ NoRecord.bg = FALSE
  <2>1. NoRecord.exec \in Exec /\ 0 \in Children
    BY DelegationAssumption DEF NoRecord, Exec
  <2> QED BY <2>1, DelegationAssumption DEF NoRecord, Record
<1>2. \A t \in Tasks : store[t] = NoRecord
  BY DEF Init
<1>3. store \in Store /\ \A t \in Tasks : ~Present(store, t)
  BY <1>1, <1>2 DEF Init, Store, Present
<1>4. WellFormed(store)
  BY <1>3 DEF WellFormed, DepsOlder, OrdersDistinct
<1>5. \A b \in Actors : act[b] = Idle
  BY DEF Init
<1>6. TypeOK
  <2>1. act \in [Actors -> {Idle} \cup Activations]
    BY DEF Init
  <2>2. calls \in 0..MaxCalls /\ passes \in Nat
    BY DelegationAssumption DEF Init
  <2> QED BY <1>3, <1>4, <2>1, <2>2 DEF Init, TypeOK
<1>7. Records
  BY <1>1, <1>2, <1>3 DEF Records
<1>8. Hands
  BY <1>5 DEF Hands, InHand
<1>9. AllReady
  BY <1>5 DEF AllReady, Ready
<1>10. Telling
  BY <1>5 DEF Telling, Idle
<1>11. Room
  BY <1>5 DEF Room, At, Idle, Actors
<1>12. RunningCap
  <2>1. \A k \in Keys : Running(k) = {}
    BY <1>1, <1>2 DEF Running
  <2> QED BY <2>1, FS_EmptySet, DelegationAssumption DEF RunningCap
<1> QED BY <1>6, <1>7, <1>8, <1>9, <1>10, <1>11, <1>12 DEF Inv

(* The inductive invariant.                                                *)
THEOREM InvHolds == Spec => []Inv
<1>1. Init => Inv
  BY InvAtFirst
<1>2. Inv /\ [Next]_vars => Inv'
  BY StepIsGood, GoodKeeps
<1> QED BY <1>1, <1>2, PTL DEF Spec

(* Whatever the tools, the events and the passes do in whatever order,     *)
(* records, sessions and activations stay of their types, the records      *)
(* well formed, and a worktree has its branch.                             *)
THEOREM TypesCorrect == Spec => []TypeOK
BY InvHolds, PTL DEF Inv

(* For every limit and every number of agents, handlers and callers: no    *)
(* agent has more background tasks running than the limit allows, as long  *)
(* as no task changes its agent.                                           *)
THEOREM LimitKept == Spec => []RunningCap
BY InvHolds, PTL DEF Inv

(* A record says merged only of a task whose branch has been merged,       *)
(* although it is written back from copies of any age.                     *)
THEOREM MergesAreTrue == Spec => []MergedIsTrue
<1>1. Inv => MergedIsTrue
  BY DEF Inv, Records, MergedIsTrue
<1> QED BY <1>1, InvHolds, PTL

(* An outcome changes only when the task is continued in a new session.    *)
THEOREM OutcomesStay == Spec => OutcomesFixed
<1>1. Inv /\ [Next]_vars =>
        [\A t \in Tasks : store[t].status \in Terminal /\ store'[t].status # store[t].status
                            => store'[t].child # store[t].child]_store
  <2> SUFFICES ASSUME Inv, [Next]_vars, NEW t \in Tasks,
                      store[t].status \in Terminal, store'[t].status # store[t].status
               PROVE  store'[t].child # store[t].child
    OBVIOUS
  <2>1. PICK a \in Actors : Good(a)
    BY StepIsGood
  <2>2. RecordStep(t) /\ Present(store, t) /\ store \in Store /\ store' \in Store
    BY <2>1 DEF Good, StoreStep, Inv, TypeOK, Present, Terminal
  <2>3. Begun(t)
    BY <2>2, Stays
  <2>4. session[store[t].child] # "unused"
    BY <2>2 DEF Inv, Records, Faithful
  <2> QED BY <2>3, <2>4 DEF Begun
<1> QED BY <1>1, InvHolds, PTL DEF Spec, OutcomesFixed

(* A foreground call that is over, however it ended, leaves nothing        *)
(* running in its session.                                                 *)
THEOREM ForegroundIsOver == Spec => ForegroundEnds
<1>1. Inv /\ [Next]_vars =>
        [\A a \in Callers : ~At(a, "idle") /\ act'[a] = Idle =>
           ~(act[a].kind = "foreground" /\ store'[act[a].t].status = "running"
             /\ store'[act[a].t].child = My(a).child)]_act
  <2> SUFFICES ASSUME Inv, [Next]_vars, NEW a \in Callers, ~At(a, "idle"), act'[a] = Idle,
                      act[a].kind = "foreground"
               PROVE  store'[act[a].t].status # "running" \/ store'[act[a].t].child # My(a).child
    OBVIOUS
  <2>1. PICK b \in Actors : Good(b)
    BY StepIsGood
  <2>2. a = b
    <3>1. a # b => act'[a] = act[a]
      BY <2>1 DEF Good, Acts, Reads, Actors
    <3> QED BY <3>1 DEF At, Idle
  <2> QED BY <2>1, <2>2 DEF Good, Leaves
<1> QED BY <1>1, InvHolds, PTL DEF Spec, ForegroundEnds

(* Only TellRoot prompts the root.                                         *)
LEMMA OnlyTellRoot ==
  ASSUME [Next]_vars, told' # told
  PROVE  \E a \in Actors : TellRoot(a)
<1>1. ASSUME NEW a \in Actors, Work(a)
      PROVE  TellRoot(a)
  <2>1. ~Refresh(a)
    BY DEF Refresh, ReadStatus, SessionFailed, Telemetry, SaveStale, BlockStale
  <2>2. ~Integration(a)
    BY DEF Integration, Integrate, CheckRoot, Merge, RecordMerge, SettleOutcome, Cleanup
  <2>3. FollowThrough(a) => TellRoot(a)
    BY DEF FollowThrough, Follow, ReadMode, Followed
  <2>4. ~SessionEvent(a)
    BY DEF SessionEvent, EndByEvent
  <2>5. ~Foreground(a)
    BY DEF Foreground, Restart, Send, Answered, FailForeground
  <2>6. ~(LookAgain(a) \/ Consume(a) \/ Abort(a) \/ CancelTask(a) \/ Waive(a))
    BY DEF LookAgain, Consume, Abort, CancelTask, Waive
  <2> QED BY <1>1, <2>1, <2>2, <2>3, <2>4, <2>5, <2>6 DEF Work, ToolStep
<1>2. ~Pass
  BY DEF Pass, BeginPass, Promote, MarkRunning, LaunchFailed
<1>3. ~Event
  BY DEF Event, Deliver
<1>4. ASSUME NEW a \in Callers
      PROVE  ~ToolCall(a)
  <2>1. \A t, k, bg, mode, c : ~Launch(a, t, k, bg, mode, c)
    BY DEF Launch
  <2>2. \A t : ~Continue(a, t) /\ ~Output(a, t)
    BY DEF Continue, Output
  <2>3. \A t : ~Cancel(a, t)
    BY DEF Cancel
  <2>4. ~CancelAll(a)
    BY DEF CancelAll
  <2> QED BY <2>1, <2>2, <2>3, <2>4 DEF ToolCall
<1>5. \A c \in Children : ~SessionEnds(c)
  BY DEF SessionEnds
<1>6. ~Stop /\ ~(UNCHANGED vars)
  BY DEF Stop, vars
<1> QED BY <1>1, <1>2, <1>3, <1>4, <1>5, <1>6 DEF Next

(* Unless tasks are continued, the root hears of a session only when its   *)
(* task no longer runs in it, or could be blocked and promoted again.      *)
THEOREM RootToldWhenOver == Spec => ToldWhenOver
<1>1. Inv /\ [Next]_vars =>
        [\A c \in Children : "continue" \notin Tools /\ told'[c] # told[c] =>
           \A t \in RunningWith(c) : CanBeBlocked(t)]_vars
  <2> SUFFICES ASSUME Inv, [Next]_vars, NEW c \in Children, "continue" \notin Tools,
                      told'[c] # told[c], NEW t \in RunningWith(c)
               PROVE  CanBeBlocked(t)
    OBVIOUS
  <2>1. PICK a \in Actors : TellRoot(a)
    BY OnlyTellRoot
  <2>2. At(a, "tell") /\ (told' = [told EXCEPT ![My(a).child] = More(@)] \/ UNCHANGED told)
    BY <2>1 DEF TellRoot
  <2>3. c = act[a].rec.child
    <3>1. told \in [Children -> Nat]
      BY Rests DEF Base
    <3> QED BY <2>2, <3>1 DEF My
  <2>4. act[a].t \in Tasks /\ Faithful(act[a].t, act[a].rec)
    BY <2>2, Busy DEF At
  <2>5. t \in Tasks /\ store[t].status = "running" /\ store[t].child = c /\ Present(store, t)
    BY DEF RunningWith, Present
  <2>6. t = act[a].t
    BY <2>3, <2>4, <2>5 DEF Faithful
  <2>7. store[t].status \in Terminal \/ CanBeBlocked(t)
    BY <2>2, <2>6 DEF Inv, Telling, At
  <2> QED BY <2>5, <2>7 DEF Terminal
<1> QED BY <1>1, InvHolds, PTL DEF Spec, ToldWhenOver

(* The abstract store that the plugin is a client of.                      *)
Ledger == INSTANCE TaskLedger WITH records <- store, Calls <- Call

(* The operations of the instantiated ledger are those of TaskRecords.     *)
LEMMA LedgerOperations ==
  ASSUME NEW s, NEW c
  PROVE  /\ Ledger!Accepts(s, c) <=> Accepts(s, c)
         /\ Ledger!Apply(s, c) = Apply(s, c)
         /\ Ledger!WellFormed(s) <=> WellFormed(s)
         /\ Ledger!Store = Store
<1>1. Ledger!NextOrder(s) = NextOrder(s)
  BY DEF Ledger!NextOrder, NextOrder, Ledger!Orders, Orders, Ledger!Present,
         Present
<1>2. Ledger!HasCycle(s, c.id, c.deps) <=> HasCycle(s, c.id, c.deps)
  BY DEF Ledger!HasCycle, HasCycle, Ledger!DependsOn, DependsOn
<1>3. \A i, d : Ledger!StatusOnEntry(s, i, d) = StatusOnEntry(s, i, d)
  BY DEF Ledger!StatusOnEntry, StatusOnEntry, Ledger!Blockers, Blockers
<1>4. Ledger!CreateAccepted(s, c) <=> CreateAccepted(s, c)
  BY <1>2 DEF Ledger!CreateAccepted, CreateAccepted, Ledger!Present, Present
<1>5. Ledger!TransitionAccepted(s, c) <=> TransitionAccepted(s, c)
  BY DEF Ledger!TransitionAccepted, TransitionAccepted, Ledger!Present, Present,
         Ledger!TransitionAllowed, TransitionAllowed, Ledger!ValidTransitions,
         ValidTransitions
<1>6. Ledger!Accepts(s, c) <=> Accepts(s, c)
  BY <1>4, <1>5 DEF Ledger!Accepts, Accepts, Ledger!RestartAccepted,
     RestartAccepted, Ledger!UpdateAccepted, UpdateAccepted, Ledger!Present,
     Present
<1>7. Ledger!Created(s, c) = Created(s, c)
  BY <1>1, <1>3 DEF Ledger!Created, Created
<1>8. Ledger!Restarted(s, c) = Restarted(s, c)
  BY <1>3 DEF Ledger!Restarted, Restarted
<1>9. Ledger!Apply(s, c) = Apply(s, c)
  BY <1>7, <1>8 DEF Ledger!Apply, Apply, Ledger!Transitioned, Transitioned,
     Ledger!Updated, Updated
<1>10. Ledger!WellFormed(s) <=> WellFormed(s)
  BY DEF Ledger!WellFormed, WellFormed, Ledger!DepsOlder, DepsOlder,
         Ledger!OrdersDistinct, OrdersDistinct, Ledger!Present, Present
<1>11. Ledger!Store = Store
  BY DEF Ledger!Store, Store, Ledger!Record, Record, Ledger!Stored, Stored
<1> QED BY <1>6, <1>9, <1>10, <1>11

(* The plugin only ever changes the records through accepted calls of the  *)
(* task store, one at a time: it is a client of the ledger.                *)
THEOREM UsesTheLedger == Spec => Ledger!Spec
<1>1. Init => Ledger!Init
  <2>1. store \in Ledger!Store <=> store \in Store
    BY LedgerOperations
  <2>2. Ledger!WellFormed(store) <=> WellFormed(store)
    BY LedgerOperations
  <2> QED BY <2>1, <2>2, InvAtFirst DEF Inv, TypeOK, Ledger!Init
<1>2. Inv /\ [Next]_vars => [Ledger!Next]_store
  <2> SUFFICES ASSUME Inv, [Next]_vars, store' # store PROVE Ledger!Next
    OBVIOUS
  <2>1. PICK c \in Call : Accepts(store, c) /\ store' = Apply(store, c)
    BY StepIsGood DEF Good, StoreStep, OneCall
  <2>2. Ledger!Perform(c)
    BY <2>1, LedgerOperations DEF Ledger!Perform
  <2> QED BY <2>2 DEF Ledger!Next
<1> QED BY <1>1, <1>2, InvHolds, PTL DEF Spec, Ledger!Spec

-----------------------------------------------------------------------------
(* No capacity idles.  A task that could run and waits although its agent  *)
(* has room is on the list of the pass in progress, or some pass has been  *)
(* asked for, or some actor is on its way to ask for one.                  *)

Deciding == {"status", "sessionFailed", "telemetry", "stale", "block", "integrate"} \cup MergePcs
FollowPcs == {"follow", "mode", "tell", "followed"}

(* Where the activations of each kind can be when no tool is called that   *)
(* asks for no pass.                                                       *)
Proper(x) ==
  \/ x = Idle
  \/ x.kind = "idle" /\ x.pc \in Deciding \cup FollowPcs \cup {"cleanup"}
  \/ x.kind \in {"error", "interrupt"} /\ x.pc \in FollowPcs \cup {"error", "interrupt", "cleanup"}
  \/ x.kind = "foreground" /\ x.pc \in CallPcs
  \/ x.kind = "pass" /\ x.pc \in PassPcs
  \/ x.kind = "cancel" /\ x.pc \in {"abort", "cancel", "waive"} /\ Len(x.todo) = 1
  \/ x.kind = "waive" /\ x.pc = "waive"

Stands(x) ==
  x # Idle => /\ x.kind = "foreground" => ~store[x.t].bg
              /\ x.pc = "waive" => store[x.t].status \in Terminal

(* An activation that goes on to ask for a pass.                           *)
Asking(x) ==
  \/ x.pc \in FollowPcs
  \/ x.pc = "cleanup" /\ x.kind # "foreground"
  \/ x.pc = "waive" /\ x.kind = "cancel"

Asked == passes > 0 \/ \E b \in Actors : b # Promoter /\ Asking(act[b])

(* An idle event of a task that is being handled, and not yet decided on.  *)
Decides(x, t) == x.pc \in Deciding /\ x.kind = "idle" /\ x.t = t

(* A session's turn ends once: it is still at it, or its event is on its   *)
(* way, or one handler has it; and only after the task was launched.       *)
Turn(t) ==
  LET c == store[t].child
  IN /\ \A b, d \in Actors : Decides(act[b], t) /\ Decides(act[d], t) => b = d
     /\ session[c] = "busy" => <<"idle", c>> \notin owed
     /\ session[c] = "busy" \/ <<"idle", c>> \in owed => \A b \in Actors : ~Decides(act[b], t)
     /\ store[t].status # "running" =>
          /\ \A b \in Actors : ~Decides(act[b], t)
          /\ session[c] = "busy" \/ <<"idle", c>> \in owed =>
               At(Promoter, "launched") /\ act[Promoter].t = t

Turns == \A t \in Tasks : store[t].bg /\ store[t].status \in Active => Turn(t)

(* The list of a pass, and the places on it that were not tried yet.       *)
Places(x) == IF x = Idle THEN {} ELSE 1..Len(x.todo)
Untried(x) == {i \in Places(x) : i > 1 \/ x.pc \notin FollowPcs}
Pending(x) == {x.todo[i].t : i \in Untried(x)}

Listed(x) ==
  x # Idle =>
    /\ x.t = x.todo[1].t
    /\ \A i, j \in 1..Len(x.todo) : x.todo[i].t = x.todo[j].t => i = j
    /\ \A t \in Pending(x) : Present(store, t) /\ store[t].bg /\ store[t].status # "running"
    /\ x.pc \in FollowPcs => store[x.t].status \in Terminal

HasRoom(k) == Cardinality(Running(k)) < MaxRunning
Waits(t) == store[t].bg /\ Promotable(t) /\ HasRoom(store[t].key) /\ t \notin unlisted

Seen(x) ==
  /\ \A t \in Pending(x) : store[t].status \notin Terminal
  /\ \A t \in Tasks : Waits(t) => t \in Pending(x)

Attended ==
  /\ \A t \in Tasks : Present(store, t) => store[t].deps = {}
  /\ \A c \in Children : <<"idle", c>> \in owed => session[c] # "unused"
  /\ \A b \in Actors : Proper(act[b]) /\ Stands(act[b])
  /\ Turns
  /\ Listed(act[Promoter])
  /\ Asked \/ Seen(act[Promoter])

AInv == PassesAsked => Attended

-----------------------------------------------------------------------------
(* The step of an actor that is no pass.                                   *)
Kept(t) ==
  /\ store'[t].status = store[t].status
  /\ store[t].status = "blocked" => store'[t].exec = store[t].exec

Changes == \E t \in Tasks : store'[t].bg /\ ~Kept(t)

Served(a) ==
  a # Promoter /\ (Asking(act'[a]) \/ (act'[a] = Idle /\ passes' = More(passes)))

Heard(t) ==
  /\ store[t].status = "running" /\ UNCHANGED session
  /\ <<"idle", store[t].child>> \in owed \ owed'

Serves(a) ==
  /\ Proper(act'[a]) /\ Stands(act[a])'
  /\ passes' = passes \/ passes' = More(passes)
  /\ (a # Promoter /\ Asking(act[a])) \/ Changes => Served(a)
  /\ \A t \in Tasks : Decides(act'[a], t) => Decides(act[a], t) \/ Heard(t)
  /\ \A t \in Tasks :
       store'[t].bg /\ store'[t].status \in {"queued", "blocked"} =>
         store[t].status = store'[t].status \/ ~Present(store, t) \/ Decides(act[a], t)
  /\ \A t \in Tasks : Present(store', t) /\ ~Present(store, t) => store'[t].deps = {}

(* No background task's session begins a turn, and a turn that ends makes  *)
(* its event.                                                              *)
TurnsEnd ==
  /\ \A c \in Children :
       session'[c] = "busy" /\ session[c] # "busy" =>
         \A t \in Tasks : Present(store, t) /\ store[t].child = c => ~store[t].bg
  /\ \A c \in Children :
       <<"idle", c>> \in owed' /\ <<"idle", c>> \notin owed =>
         session[c] = "busy" /\ session'[c] # "busy"

LEMMA NoContinuing ==
  ASSUME PassesAsked
  PROVE  /\ "continue" \notin Tools /\ "output" \notin Tools /\ "cancelAll" \notin Tools
         /\ "rejected" \notin Failures
BY DEF PassesAsked

(* What a step does to one record.                                         *)
LEMMA RecordIs ==
  ASSUME Inv, NEW a, Good(a), PassesAsked, NEW t \in Tasks
  PROVE  /\ store[t] \in Record /\ store'[t] \in Record
         /\ Present(store, t) =>
              /\ Present(store', t) /\ store'[t].child = store[t].child
              /\ store'[t].key = store[t].key /\ store'[t].bg = store[t].bg
              /\ store'[t].deps = store[t].deps
              /\ store[t].status \in Terminal => store'[t].status = store[t].status
         /\ ~Present(store, t) /\ Present(store', t) => Begun(t)
<1>1. store \in Store /\ store' \in Store /\ RecordStep(t)
  BY DEF Inv, TypeOK, Good, StoreStep
<1>2. store[t] \in Record /\ store'[t] \in Record
  BY <1>1 DEF Store
<1>3. ASSUME Present(store, t)
      PROVE  /\ Present(store', t) /\ store'[t].child = store[t].child
             /\ store'[t].key = store[t].key /\ store'[t].bg = store[t].bg
             /\ store[t].status \in Terminal => store'[t].status = store[t].status
             /\ ~Begun(t)
  BY <1>1, <1>3, Stays, NoContinuing
<1>4. ASSUME Present(store, t)
      PROVE  store'[t].deps = store[t].deps
  <2>1. CASE store'[t] = store[t]
    BY <2>1
  <2>2. CASE Rewritten(t)
    <3>1. PICK e \in Exec : store'[t] = [store[t] EXCEPT !.exec = e]
      BY <2>2 DEF Rewritten
    <3> QED BY <1>2, <3>1 DEF Record
  <2>3. CASE Moved(t)
    <3>1. PICK s \in Stored : store'[t] = [store[t] EXCEPT !.status = s]
      BY <2>3 DEF Moved
    <3> QED BY <1>2, <3>1 DEF Record
  <2> QED BY <1>1, <1>3, <1>4, <2>1, <2>2, <2>3 DEF RecordStep
<1>5. ~Present(store, t) /\ Present(store', t) => Begun(t)
  BY <1>1 DEF RecordStep, Rewritten, Moved, Present
<1> QED BY <1>2, <1>3, <1>4, <1>5

LEMMA Sizes ==
  ASSUME NEW S \in SUBSET Tasks
  PROVE  /\ IsFiniteSet(S) /\ Cardinality(S) \in Nat
         /\ \A T \in SUBSET S : Cardinality(T) <= Cardinality(S) /\ Cardinality(T) \in Nat
BY TasksFinite, FS_Subset, FS_CardinalityType

(* What actors other than the one that steps are doing.                    *)
LEMMA Others ==
  ASSUME NEW a \in Actors, Good(a), NEW b \in Actors, b # a
  PROVE  act'[b] = act[b]
BY DEF Good, Acts, Reads

(* An actor that was served no longer decides.                             *)
LEMMA ServedIsDone ==
  ASSUME NEW a, Served(a), NEW t
  PROVE  ~Decides(act'[a], t)
BY DEF Served, Decides, Asking, Deciding, MergePcs, FollowPcs, Idle

LEMMA DeciderIsThere ==
  ASSUME Inv, NEW b \in Actors, NEW t \in Tasks, Decides(act[b], t)
  PROVE  Present(store, t)
<1>1. act[b].pc # "idle" /\ act[b].t = t
  BY DEF Decides, Deciding, MergePcs
<1> QED BY <1>1, Busy

LEMMA TurnsKept ==
  ASSUME Inv, PassesAsked, Attended, NEW a \in Actors, Good(a), Serves(a), TurnsEnd,
         act'[Promoter] = act[Promoter]
  PROVE  Turns'
<1> SUFFICES ASSUME NEW t \in Tasks, store'[t].bg, store'[t].status \in Active
             PROVE  Turn(t)'
  BY DEF Turns
<1>0. /\ store[t] \in Record /\ store'[t] \in Record /\ Present(store', t)
      /\ session' \in [Children -> {"unused", "created", "busy", "idle", "error"}]
  BY RecordIs DEF Present, Active, Good, Surroundings, Base
<1>a. PICK c \in Children : c = store'[t].child
  BY <1>0 DEF Record
<1>b. \A b \in Actors : b # a => act'[b] = act[b]
  BY Others
<1>1. CASE Present(store, t)
  <2>1. /\ store[t].child = c /\ store[t].bg /\ store[t].status \in Active
    <3>1. store[t].status \in Stored
      BY <1>0, <1>1 DEF Present, Record
    <3>2. store[t].status \notin Terminal
      BY <1>1, RecordIs DEF Active, Terminal
    <3> QED BY <1>1, <1>a, <3>1, <3>2, RecordIs DEF Stored, Terminal, Active
  <2>2. Turn(t)
    BY <2>1 DEF Attended, Turns
  <2>3. \A u \in Tasks : u = t => (Decides(act'[a], u) => Decides(act[a], u) \/ Heard(u))
    BY DEF Serves
  <2>4. session'[c] = "busy" => session[c] = "busy"
    BY <1>1, <2>1 DEF TurnsEnd
  <2>5. <<"idle", c>> \in owed' => <<"idle", c>> \in owed \/ (session[c] = "busy" /\ session'[c] # "busy")
    BY DEF TurnsEnd
  <2>6. Heard(t) => /\ store[t].status = "running" /\ session'[c] = session[c]
                    /\ <<"idle", c>> \in owed /\ <<"idle", c>> \notin owed'
    BY <2>1 DEF Heard
  <2>7. \A b, d \in Actors : Decides(act'[b], t) /\ Decides(act'[d], t) => b = d
    BY <1>b, <2>1, <2>2, <2>3, <2>6 DEF Turn
  <2>8. session'[c] = "busy" => <<"idle", c>> \notin owed'
    BY <2>1, <2>2, <2>4, <2>5 DEF Turn
  <2>9. session'[c] = "busy" \/ <<"idle", c>> \in owed' => \A b \in Actors : ~Decides(act'[b], t)
    BY <1>b, <2>1, <2>2, <2>3, <2>4, <2>5, <2>6 DEF Turn
  <2>10. ASSUME store'[t].status # "running"
         PROVE  /\ \A b \in Actors : ~Decides(act'[b], t)
                /\ session'[c] = "busy" \/ <<"idle", c>> \in owed' =>
                     act'[Promoter].pc = "launched" /\ act'[Promoter].t = t
    <3>1. CASE store[t].status = store'[t].status
      BY <1>b, <2>1, <2>2, <2>3, <2>4, <2>5, <2>6, <2>10, <3>1 DEF Turn, At
    <3>2. CASE store[t].status # store'[t].status
      <4>1. Decides(act[a], t)
        BY <1>1, <2>10, <3>2 DEF Serves, Active
      <4>2. Served(a)
        BY <3>2 DEF Serves, Changes, Kept
      <4>3. ~Decides(act'[a], t)
        BY <4>2, ServedIsDone
      <4> QED BY <1>b, <2>1, <2>2, <2>4, <2>5, <4>1, <4>3 DEF Turn
    <3> QED BY <3>1, <3>2
  <2> QED BY <1>a, <2>7, <2>8, <2>9, <2>10 DEF Turn, At
<1>2. CASE ~Present(store, t)
  <2>1. Begun(t)
    BY <1>0, <1>2, RecordIs
  <2>2. session[c] = "unused" /\ session'[c] = "created"
    BY <1>a, <2>1 DEF Begun
  <2>3. store[t].status # "running"
    BY <1>2 DEF Present
  <2>4. \A b \in Actors : ~Decides(act'[b], t)
    <3>1. \A b \in Actors : ~Decides(act[b], t)
      BY <1>2, DeciderIsThere
    <3>2. ~Heard(t)
      BY <2>3 DEF Heard
    <3> QED BY <1>b, <3>1, <3>2 DEF Serves
  <2>5. <<"idle", c>> \notin owed'
    BY <2>2 DEF Attended, TurnsEnd
  <2> QED BY <1>a, <2>2, <2>4, <2>5 DEF Turn
<1> QED BY <1>1, <1>2

LEMMA PendingTasks ==
  ASSUME Inv
  PROVE  Pending(act[Promoter]) \subseteq Tasks
<1>1. CASE act[Promoter] = Idle
  BY <1>1 DEF Pending, Untried, Places
<1>2. CASE act[Promoter] # Idle
  <2>1. act[Promoter].todo \in Seq([t : Tasks, rec : Record])
    BY <1>2, Fields DEF Inv, TypeOK, Actors
  <2>2. \A i \in 1..Len(act[Promoter].todo) : act[Promoter].todo[i] \in [t : Tasks, rec : Record]
    <3> DEFINE S == [t : Tasks, rec : Record]
    <3>1. act[Promoter].todo \in Seq(S)
      BY <2>1
    <3> HIDE DEF S
    <3>2. \A i \in 1..Len(act[Promoter].todo) : act[Promoter].todo[i] \in S
      BY <3>1
    <3> QED BY <3>2 DEF S
  <2> QED BY <2>2 DEF Pending, Untried, Places
<1> QED BY <1>1, <1>2

(* A pass in progress is not disturbed.                                    *)
LEMMA ListKept ==
  ASSUME Inv, PassesAsked, Attended, NEW a \in Actors, Good(a), act'[Promoter] = act[Promoter]
  PROVE  Listed(act[Promoter])'
<1> SUFFICES ASSUME act[Promoter] # Idle
             PROVE  Listed(act[Promoter])'
  BY DEF Listed
<1>1. Listed(act[Promoter])
  BY DEF Attended
<1>2. /\ act[Promoter].t \in Tasks /\ act[Promoter] \in Activations /\ act[Promoter].pc # "idle"
  BY DEF Inv, TypeOK, Actors, Activations, Pcs
<1>3. Pending(act[Promoter]) \subseteq Tasks
  BY PendingTasks
<1>4. \A t \in Pending(act[Promoter]) :
        Present(store', t) /\ store'[t].bg /\ store'[t].status # "running"
  <2> SUFFICES ASSUME NEW t \in Pending(act[Promoter])
               PROVE  Present(store', t) /\ store'[t].bg /\ store'[t].status # "running"
    OBVIOUS
  <2>1. t \in Tasks /\ Present(store, t) /\ store[t].bg /\ store[t].status # "running"
    BY <1>1, <1>3 DEF Listed
  <2>2. Present(store', t) /\ store'[t].bg
    BY <2>1, RecordIs
  <2> QED BY <2>1, <2>2 DEF Good, Starts, At
<1>5. act[Promoter].pc \in FollowPcs => store'[act[Promoter].t].status \in Terminal
  <2> SUFFICES ASSUME act[Promoter].pc \in FollowPcs
               PROVE  store'[act[Promoter].t].status \in Terminal
    OBVIOUS
  <2>1. store[act[Promoter].t].status \in Terminal
    BY <1>1 DEF Listed
  <2>2. Present(store, act[Promoter].t)
    BY <2>1 DEF Present, Terminal
  <2> QED BY <1>2, <2>1, <2>2, RecordIs
<1> QED BY <1>1, <1>4, <1>5 DEF Listed

(* A background task that is kept stays as promotable as it was.           *)
LEMMA KeptPromotable ==
  ASSUME Inv, PassesAsked, Attended, NEW a, Good(a), NEW t \in Tasks, Kept(t), Promotable(t)'
  PROVE  Promotable(t)
<1>1. Present(store, t) /\ Present(store', t)
  BY DEF Kept, Promotable, Present
<1>2. store[t].deps = {}
  BY <1>1 DEF Attended
<1>3. Blockers(store, store[t].deps) = {}
  BY <1>2 DEF Blockers
<1> QED BY <1>3 DEF Promotable, Kept

LEMMA SeenKept ==
  ASSUME Inv, PassesAsked, Attended, NEW a \in Actors, Good(a), Serves(a),
         act'[Promoter] = act[Promoter]
  PROVE  (Asked \/ Seen(act[Promoter]))'
<1> SUFFICES ASSUME ~Asked'
             PROVE  Seen(act[Promoter])'
  OBVIOUS
<1>1. passes \in Nat /\ passes' \in Nat /\ (passes' = passes \/ passes' = More(passes))
  BY DEF Inv, TypeOK, Good, Surroundings, Base, Serves
<1>2. passes' = 0 /\ passes = 0 /\ More(passes) # 0
  <2>1. passes' = 0
    BY <1>1 DEF Asked
  <2>2. More(passes) > 0
    BY <1>1, DelegationAssumption DEF More
  <2> QED BY <1>1, <2>1, <2>2
<1>3. \A b \in Actors : b # Promoter => ~Asking(act'[b])
  BY DEF Asked
<1>4. ~Served(a)
  BY <1>2, <1>3 DEF Served
<1>5. ~Asked
  <2>1. \A b \in Actors : b # Promoter => ~Asking(act[b])
    BY <1>3, <1>4, Others DEF Serves
  <2> QED BY <1>2, <2>1 DEF Asked
<1>6. Seen(act[Promoter])
  BY <1>5 DEF Attended
<1>7. \A t \in Tasks : store'[t].bg => Kept(t)
  BY <1>4 DEF Serves, Changes
<1>8. Listed(act[Promoter])' /\ Listed(act[Promoter])
  BY ListKept DEF Attended
<1>9. Pending(act[Promoter]) \subseteq Tasks
  BY PendingTasks
<1>10. \A t \in Pending(act[Promoter]) : store'[t].status \notin Terminal
  BY <1>6, <1>7, <1>8, <1>9, RecordIs DEF Seen, Kept, Listed, Pending, Untried, Places
<1>11. \A k \in Keys : Running(k)' = Running(k)
  <2> SUFFICES ASSUME NEW k \in Keys, NEW t \in Tasks
               PROVE  t \in Running(k)' <=> t \in Running(k)
    BY DEF Running
  <2>1. ASSUME t \in Running(k)' PROVE t \in Running(k)
    <3>1. store'[t].bg /\ store'[t].status = "running" /\ store'[t].key = k
      BY <2>1 DEF Running
    <3>2. store[t].status = "running"
      BY <1>7, <3>1 DEF Kept
    <3> QED BY <3>1, <3>2, RecordIs DEF Running, Present
  <2>2. ASSUME t \in Running(k) PROVE t \in Running(k)'
    <3>1. store[t].bg /\ store[t].status = "running" /\ store[t].key = k /\ Present(store, t)
      BY <2>2 DEF Running, Present
    <3>2. store'[t].bg /\ store'[t].key = k
      BY <3>1, RecordIs
    <3> QED BY <1>7, <3>1, <3>2 DEF Running, Kept
  <2> QED BY <2>1, <2>2
<1>12. ASSUME NEW t \in Tasks, Waits(t)'
       PROVE  t \in Pending(act[Promoter])
  <2>0. unlisted' = unlisted
    BY <1>2 DEF Good, Surroundings
  <2>1. store'[t].bg /\ Promotable(t)' /\ HasRoom(store[t].key)' /\ t \notin unlisted
    BY <1>12, <2>0 DEF Waits
  <2>2. Kept(t)
    BY <1>7, <2>1
  <2>3. Promotable(t)
    BY <2>1, <2>2, KeptPromotable
  <2>4. Present(store, t)
    BY <2>3 DEF Promotable, Present
  <2>5. store[t].bg /\ store'[t].key = store[t].key /\ store[t].key \in Keys
    BY <2>1, <2>4, RecordIs DEF Record
  <2>6. HasRoom(store[t].key)
    BY <1>11, <2>1, <2>5 DEF HasRoom
  <2> QED BY <1>6, <2>1, <2>3, <2>5, <2>6 DEF Waits, Seen
<1>13. Pending(act[Promoter])' = Pending(act[Promoter])
  BY DEF Pending, Untried, Places
<1> QED BY <1>10, <1>12, <1>13 DEF Seen

LEMMA StandsKept ==
  ASSUME Inv, PassesAsked, NEW a \in Actors, Good(a), NEW b \in Actors, b # a,
         Proper(act[b]), Stands(act[b])
  PROVE  Proper(act'[b]) /\ Stands(act[b])'
<1>1. act'[b] = act[b]
  BY Others
<1>2. CASE act[b] = Idle
  BY <1>1, <1>2 DEF Proper, Stands
<1>3. CASE act[b] # Idle
  <2>1. act[b].pc # "idle"
    BY <1>3 DEF Inv, TypeOK, Activations, Pcs
  <2>2. act[b].t \in Tasks /\ Present(store, act[b].t)
    BY <2>1, Busy
  <2> QED BY <1>1, <1>3, <2>2, RecordIs DEF Stands
<1> QED BY <1>2, <1>3

LEMMA ServesKeeps ==
  ASSUME Inv, PassesAsked, Attended, NEW a \in Actors, Good(a), Serves(a), TurnsEnd,
         act'[Promoter] = act[Promoter]
  PROVE  Attended'
<1>1. \A t \in Tasks : Present(store', t) => store'[t].deps = {}
  BY RecordIs DEF Attended, Serves
<1>2. \A c \in Children : <<"idle", c>> \in owed' => session'[c] # "unused"
  BY DEF Attended, TurnsEnd, Good, Surroundings
<1>3. \A b \in Actors : Proper(act'[b]) /\ Stands(act[b])'
  BY StandsKept DEF Attended, Serves
<1>4. Turns' /\ Listed(act[Promoter])' /\ (Asked \/ Seen(act[Promoter]))'
  BY TurnsKept, ListKept, SeenKept
<1> QED BY <1>1, <1>2, <1>3, <1>4 DEF Attended

-----------------------------------------------------------------------------
(* What the steps of an activation have in common.                         *)
Done(a) == a # Promoter /\ Serves(a) /\ TurnsEnd

LEMMA DoneKeeps ==
  ASSUME Inv, PassesAsked, Attended, NEW a \in Actors, Good(a), Done(a)
  PROVE  Attended'
<1>1. act'[Promoter] = act[Promoter]
  BY Others DEF Done, Actors
<1> QED BY <1>1, ServesKeeps DEF Done

LEMMA Still ==
  ASSUME UNCHANGED runtime
  PROVE  TurnsEnd
BY DEF TurnsEnd, runtime

(* An activation that is under way: what it can be.                        *)
LEMMA Working ==
  ASSUME Inv, PassesAsked, Attended, NEW a \in Actors, act[a].pc # "idle"
  PROVE  /\ act \in [Actors -> {Idle} \cup Activations]
         /\ act[a] \in Activations /\ act[a] # Idle
         /\ act[a].t \in Tasks /\ Present(store, act[a].t)
         /\ Proper(act[a]) /\ Stands(act[a])
         /\ act[a].pc \notin PassPcs => a # Promoter /\ act[a].kind # "pass"
         /\ a # Promoter => act[a].kind # "pass"
<1>1. /\ act[a] \in Activations /\ Ready(a, act[a], merged) /\ act[a] # Idle
      /\ act \in [Actors -> {Idle} \cup Activations]
      /\ act[a].t \in Tasks /\ Present(store, act[a].t)
  BY Busy
<1> QED BY <1>1 DEF Ready, Attended

LEMMA GoIs ==
  ASSUME act \in [Actors -> {Idle} \cup Activations], NEW a \in Actors, act[a] \in Activations,
         NEW pc \in Pcs, NEW rec, Go(a, pc, rec)
  PROVE  /\ act'[a].pc = pc /\ act'[a].kind = act[a].kind /\ act'[a].t = act[a].t
         /\ act'[a].todo = act[a].todo /\ act'[a] # Idle
<1>1. act'[a] = [act[a] EXCEPT !.pc = pc, !.rec = rec]
  BY DEF Go
<1>2. act'[a].pc # "idle"
  BY <1>1 DEF Activations, Pcs
<1> QED BY <1>1, <1>2 DEF Activations, Idle

LEMMA WritesExec ==
  ASSUME store \in Store, NEW t \in Tasks, NEW e, SetExec(t, e)
  PROVE  /\ \A u \in Tasks : u # t => store'[u] = store[u]
         /\ store'[t].status = store[t].status /\ store'[t].bg = store[t].bg
<1>1. store[t] \in Record
  BY DEF Store
<1> QED BY <1>1 DEF SetExec, Updated, Store, Record

LEMMA WritesStatus ==
  ASSUME store \in Store, NEW a, act[a].t \in Tasks, NEW s, Move(a, s)
  PROVE  /\ \A u \in Tasks : u # act[a].t => store'[u] = store[u]
         /\ store'[act[a].t].status = s /\ store'[act[a].t].bg = store[act[a].t].bg
         /\ store'[act[a].t].exec = store[act[a].t].exec
<1>1. store[act[a].t] \in Record
  BY DEF Store
<1> QED BY <1>1 DEF Move, Transitioned, Store, Record

(* A background task whose event is not decided on is not waiting.         *)
LEMMA DecidesOnRunning ==
  ASSUME Inv, PassesAsked, Attended, NEW a \in Actors, act[a].pc \in Deciding
  PROVE  /\ act[a].kind \in {"idle", "foreground"} /\ a # Promoter
         /\ act[a].kind = "foreground" => ~store[act[a].t].bg
         /\ store[act[a].t].bg => store[act[a].t].status \in Terminal \cup {"running"}
<1>1. act[a].pc # "idle" /\ act[a].pc \notin PassPcs
  BY DEF Deciding, MergePcs, PassPcs
<1>2. /\ Proper(act[a]) /\ Stands(act[a]) /\ act[a] # Idle /\ act[a].t \in Tasks
      /\ a # Promoter /\ Present(store, act[a].t)
  BY <1>1, Working
<1>3. act[a].kind \in {"idle", "foreground"}
  BY <1>2 DEF Proper, Deciding, MergePcs, FollowPcs, PassPcs
<1>4. act[a].kind = "foreground" => ~store[act[a].t].bg
  BY <1>2 DEF Stands
<1>5. ASSUME store[act[a].t].bg
      PROVE  store[act[a].t].status \in Terminal \cup {"running"}
  <2>1. PICK t \in Tasks : t = act[a].t
    BY <1>2
  <2>2. Decides(act[a], t)
    BY <1>3, <1>4, <1>5, <2>1 DEF Decides
  <2>3. store[t].status \in Active => Turn(t)
    BY <1>5, <2>1 DEF Attended, Turns
  <2>4. store[t].status \in Stored
    BY <1>2, <2>1 DEF Inv, TypeOK, Store, Record, Present
  <2> QED BY <2>1, <2>2, <2>3, <2>4 DEF Turn, Stored, Active, Terminal
<1> QED BY <1>2, <1>3, <1>4, <1>5

(* A step of one activation, which touches only its own task.              *)
LEMMA Ordinary ==
  ASSUME Inv, PassesAsked, Attended, NEW a \in Actors, a # Promoter, Good(a), act[a].pc # "idle",
         \A u \in Tasks : u # act[a].t => store'[u] = store[u],
         passes' = passes \/ passes' = More(passes),
         Proper(act'[a]),
         act'[a] = Idle \/ (act'[a].t = act[a].t /\ act'[a].kind = act[a].kind),
         act'[a].pc = "waive" => store'[act[a].t].status \in Terminal,
         act'[a].pc \in Deciding => act[a].pc \in Deciding \/ act[a].kind # "idle",
         Asking(act[a]) => Served(a),
         store'[act[a].t].bg => Kept(act[a].t) \/ Served(a),
         store'[act[a].t].bg /\ store'[act[a].t].status \in {"queued", "blocked"} =>
           \/ store'[act[a].t].status = store[act[a].t].status
           \/ act[a].kind = "idle" /\ act[a].pc \in Deciding
  PROVE  Serves(a)
<1>1. /\ act[a].t \in Tasks /\ Present(store, act[a].t)
      /\ Proper(act[a]) /\ Stands(act[a]) /\ act[a] # Idle
  BY Working
<1>2. Stands(act[a])'
  <2>1. act[a].kind = "foreground" => ~store'[act[a].t].bg
    BY <1>1, RecordIs DEF Stands
  <2> QED BY <2>1 DEF Stands, Idle
<1>3. Changes => Served(a)
  BY <1>1 DEF Changes, Kept
<1>4. \A t \in Tasks : Decides(act'[a], t) => Decides(act[a], t)
  BY DEF Decides, Deciding, MergePcs, Idle
<1>5. ASSUME NEW t \in Tasks, store'[t].bg, store'[t].status \in {"queued", "blocked"}
      PROVE  store[t].status = store'[t].status \/ ~Present(store, t) \/ Decides(act[a], t)
  BY <1>5 DEF Decides
<1>6. \A t \in Tasks : Present(store', t) /\ ~Present(store, t) => store'[t].deps = {}
  BY <1>1 DEF Present
<1> QED BY <1>2, <1>3, <1>4, <1>5, <1>6 DEF Serves

(* The records stay and nobody who asks is disturbed.                      *)
LEMMA NothingWritten ==
  ASSUME UNCHANGED store
  PROVE  /\ \A t : Kept(t)
         /\ \A t : store'[t].status = store[t].status
         /\ \A u \in Tasks : store'[u] = store[u]
BY DEF Kept

LEMMA LeftIs ==
  ASSUME act \in [Actors -> {Idle} \cup Activations], NEW a \in Actors, Leave(a)
  PROVE  act'[a] = Idle /\ Proper(act'[a]) /\ act'[a].pc = "idle"
BY DEF Leave, Proper, Idle

LEMMA ThrowIs ==
  ASSUME act \in [Actors -> {Idle} \cup Activations], NEW a \in Actors, act[a] \in Activations,
         Proper(act[a]), Throw(a)
  PROVE  /\ Proper(act'[a]) /\ act'[a].pc \in {"idle", "launchFailed"}
         /\ act'[a] = Idle \/ (act'[a].t = act[a].t /\ act'[a].kind = act[a].kind)
<1>1. CASE act[a].kind = "foreground"
  <2>1. Go(a, "launchFailed", act[a].rec) /\ "launchFailed" \in Pcs
    BY <1>1 DEF Throw, My, Pcs
  <2>2. /\ act'[a].pc = "launchFailed" /\ act'[a].kind = act[a].kind /\ act'[a].t = act[a].t
    BY <2>1, GoIs
  <2> QED BY <1>1, <2>2 DEF Proper, CallPcs
<1>2. CASE act[a].kind # "foreground"
  BY <1>2, LeftIs DEF Throw
<1> QED BY <1>1, <1>2

LEMMA BackIs ==
  ASSUME act \in [Actors -> {Idle} \cup Activations], NEW a \in Actors, act[a] \in Activations,
         act[a].kind \in {"idle", "error", "interrupt", "foreground"}, NEW rec, Back(a, rec)
  PROVE  /\ Proper(act'[a]) /\ act'[a].pc \in {"idle", "follow"}
         /\ act'[a] = Idle \/ (act'[a].t = act[a].t /\ act'[a].kind = act[a].kind)
         /\ act[a].kind \in {"error", "interrupt"} \/ (act[a].kind = "idle" /\ rec.status # "running")
              => act'[a].pc = "follow"
<1>1. ASSUME Go(a, "follow", rec), act[a].kind # "foreground"
      PROVE  /\ act'[a].pc = "follow" /\ act'[a].t = act[a].t /\ act'[a].kind = act[a].kind
             /\ Proper(act'[a])
  <2>1. "follow" \in Pcs
    BY DEF Pcs
  <2>2. act'[a].pc = "follow" /\ act'[a].t = act[a].t /\ act'[a].kind = act[a].kind
    BY <1>1, <2>1, GoIs
  <2> QED BY <1>1, <2>2 DEF Proper, FollowPcs
<1>2. CASE act[a].kind \in {"error", "interrupt"}
  BY <1>1, <1>2 DEF Back
<1>3. CASE act[a].kind = "idle" /\ rec.status # "running"
  BY <1>1, <1>3 DEF Back
<1>4. CASE act[a].kind = "foreground" \/ (act[a].kind = "idle" /\ rec.status = "running")
  <2>1. Leave(a)
    BY <1>4 DEF Back
  <2> QED BY <1>4, <2>1, LeftIs
<1> QED BY <1>2, <1>3, <1>4

LEMMA MoveBackIs ==
  ASSUME Inv, PassesAsked, Attended, NEW a \in Actors, Good(a), act[a].pc \in Deciding,
         NEW s \in Stored \ {"running"}, MoveBack(a, s),
         UNCHANGED <<runtime, passes>>
  PROVE  Done(a)
<1>1. /\ act \in [Actors -> {Idle} \cup Activations] /\ act[a] \in Activations
      /\ Proper(act[a]) /\ act[a].t \in Tasks /\ a # Promoter /\ act[a].pc # "idle"
      /\ store \in Store
      /\ act[a].kind \in {"idle", "foreground"}
      /\ act[a].kind = "foreground" => ~store[act[a].t].bg
      /\ ~Asking(act[a])
  <2>1. act[a].pc # "idle" /\ ~Asking(act[a])
    BY DEF Deciding, MergePcs, Asking, FollowPcs
  <2> QED BY <2>1, Working, DecidesOnRunning DEF Inv, TypeOK
<1>2. CASE CanMove(a, s) /\ Move(a, s) /\ Back(a, store'[act[a].t])
  <2>1. /\ \A u \in Tasks : u # act[a].t => store'[u] = store[u]
        /\ store'[act[a].t].status = s /\ store'[act[a].t].bg = store[act[a].t].bg
    BY <1>1, <1>2, WritesStatus
  <2>2. PICK rec : rec = store'[act[a].t]
    OBVIOUS
  <2>3. Back(a, rec) /\ rec.status # "running"
    BY <1>2, <2>1, <2>2
  <2>4. /\ Proper(act'[a]) /\ act'[a].pc \in {"idle", "follow"}
        /\ act'[a] = Idle \/ (act'[a].t = act[a].t /\ act'[a].kind = act[a].kind)
        /\ act[a].kind = "idle" => act'[a].pc = "follow"
    BY <1>1, <2>3, BackIs
  <2>5. act[a].kind = "idle" => Served(a)
    BY <1>1, <2>4 DEF Served, Asking, FollowPcs
  <2>6. /\ act'[a].pc # "waive" /\ act'[a].pc \notin Deciding
    BY <2>4 DEF Deciding, MergePcs
  <2>7. store'[act[a].t].bg => act[a].kind = "idle"
    BY <1>1, <2>1
  <2>8. Serves(a)
    BY <1>1, <2>1, <2>4, <2>5, <2>6, <2>7, Ordinary
  <2> QED BY <1>1, <2>8, Still DEF Done
<1>3. CASE Throw(a) /\ UNCHANGED store
  <2>1. /\ Proper(act'[a]) /\ act'[a].pc \in {"idle", "launchFailed"}
        /\ act'[a] = Idle \/ (act'[a].t = act[a].t /\ act'[a].kind = act[a].kind)
    BY <1>1, <1>3, ThrowIs
  <2>2. act'[a].pc # "waive" /\ act'[a].pc \notin Deciding
    BY <2>1 DEF Deciding, MergePcs
  <2>3. Serves(a)
    BY <1>1, <1>3, <2>1, <2>2, NothingWritten, Ordinary
  <2> QED BY <1>1, <2>3, Still DEF Done
<1> QED BY <1>2, <1>3 DEF MoveBack

(* A step that moves no task.                                              *)
LEMMA Quietly ==
  ASSUME Inv, PassesAsked, Attended, NEW a \in Actors, a # Promoter, Good(a), act[a].pc # "idle",
         \A u \in Tasks : u # act[a].t => store'[u] = store[u],
         store'[act[a].t].bg => Kept(act[a].t),
         UNCHANGED <<runtime, passes>>, Proper(act'[a]),
         act'[a] = Idle \/ (act'[a].t = act[a].t /\ act'[a].kind = act[a].kind),
         act'[a].pc # "waive",
         act'[a].pc \in Deciding => act[a].pc \in Deciding \/ act[a].kind # "idle",
         Asking(act[a]) => Served(a)
  PROVE  Done(a)
<1>1. store'[act[a].t].bg => store'[act[a].t].status = store[act[a].t].status
  BY DEF Kept
<1>2. Serves(a)
  BY <1>1, Ordinary
<1> QED BY <1>2, Still DEF Done

(* The execution of a task whose event is being decided on is written.     *)
LEMMA NotesExec ==
  ASSUME Inv, PassesAsked, Attended, NEW a \in Actors, act[a].pc \in Deciding,
         NEW e, SetExec(act[a].t, e), store[act[a].t].bg
  PROVE  Kept(act[a].t)
<1>1. store[act[a].t].status \in Terminal \cup {"running"}
  BY DecidesOnRunning
<1>2. store \in Store /\ act[a].t \in Tasks
  <2>1. act[a].pc # "idle"
    BY DEF Deciding, MergePcs
  <2> QED BY <2>1, Working DEF Inv, TypeOK
<1>3. store'[act[a].t].status = store[act[a].t].status
  BY <1>2, WritesExec
<1> QED BY <1>1, <1>3 DEF Kept, Terminal

-----------------------------------------------------------------------------
(* refreshTaskFromRuntime and integrateWorktreeTask.                       *)

(* An activation that goes on deciding.                                    *)
LEMMA DecidesOn ==
  ASSUME Inv, PassesAsked, Attended, NEW a \in Actors, Good(a), act[a].pc \in Deciding,
         \A u \in Tasks : u # act[a].t => store'[u] = store[u],
         store'[act[a].t].bg => Kept(act[a].t),
         UNCHANGED <<runtime, passes>>,
         act'[a].pc \in Deciding, act'[a].t = act[a].t, act'[a].kind = act[a].kind,
         act[a].kind = "foreground" => act'[a].pc \in CallPcs
  PROVE  Done(a)
<1>1. act[a].pc # "idle" /\ ~Asking(act[a])
  BY DEF Deciding, MergePcs, Asking, FollowPcs
<1>2. a # Promoter /\ act[a].kind \in {"idle", "foreground"}
  BY DecidesOnRunning
<1>3. Proper(act'[a]) /\ act'[a].pc # "waive"
  BY <1>2 DEF Proper, Deciding, MergePcs
<1> QED BY <1>1, <1>2, <1>3, Quietly

(* It returns or gives up, and its task is as it was.                      *)
LEMMA BackDone ==
  ASSUME Inv, PassesAsked, Attended, NEW a \in Actors, Good(a), act[a].pc \in Deciding,
         \A u \in Tasks : u # act[a].t => store'[u] = store[u],
         store'[act[a].t].bg => Kept(act[a].t),
         UNCHANGED <<runtime, passes>>,
         Throw(a) \/ \E rec : Back(a, rec)
  PROVE  Done(a)
<1>1. /\ act \in [Actors -> {Idle} \cup Activations] /\ act[a] \in Activations
      /\ Proper(act[a]) /\ a # Promoter /\ act[a].pc # "idle"
      /\ act[a].kind \in {"idle", "foreground"} /\ ~Asking(act[a])
  <2>1. act[a].pc # "idle" /\ ~Asking(act[a])
    BY DEF Deciding, MergePcs, Asking, FollowPcs
  <2> QED BY <2>1, Working, DecidesOnRunning
<1>2. /\ Proper(act'[a]) /\ act'[a].pc \in {"idle", "follow", "launchFailed"}
      /\ act'[a] = Idle \/ (act'[a].t = act[a].t /\ act'[a].kind = act[a].kind)
  <2>1. CASE Throw(a)
    BY <1>1, <2>1, ThrowIs
  <2>2. CASE \E rec : Back(a, rec)
    <3>1. PICK rec : Back(a, rec)
      BY <2>2
    <3> QED BY <1>1, <3>1, BackIs
  <2> QED BY <2>1, <2>2
<1>3. act'[a].pc # "waive" /\ act'[a].pc \notin Deciding
  BY <1>2 DEF Deciding, MergePcs
<1> QED BY <1>1, <1>2, <1>3, Quietly

LEMMA ReadStatusDone ==
  ASSUME Inv, PassesAsked, Attended, NEW a \in Actors, ReadStatus(a)
  PROVE  Done(a)
<1>1. Good(a) /\ act[a].pc = "status" /\ UNCHANGED <<store, runtime, passes>>
  BY ReadStatusIsGood DEF ReadStatus, At
<1>2. act[a].pc \in Deciding /\ act[a].pc # "idle"
  BY <1>1 DEF Deciding
<1>3. act \in [Actors -> {Idle} \cup Activations] /\ act[a] \in Activations /\ act[a].kind # "foreground"
  BY <1>1, <1>2, Working DEF Proper, CallPcs
<1>4. ASSUME NEW pc \in {"sessionFailed", "telemetry"}, NEW out,
             act' = [act EXCEPT ![a].pc = pc, ![a].out = out]
      PROVE  Done(a)
  <2>1. act'[a] = [[act[a] EXCEPT !.pc = pc] EXCEPT !.out = out]
    BY <1>3, <1>4
  <2>2. act'[a].pc = pc /\ act'[a].t = act[a].t /\ act'[a].kind = act[a].kind
    BY <1>3, <2>1 DEF Activations
  <2>3. act'[a].pc \in Deciding
    BY <2>2 DEF Deciding
  <2> QED BY <1>1, <1>2, <1>3, <2>2, <2>3, NothingWritten, DecidesOn
<1>5. CASE Back(a, My(a))
  BY <1>1, <1>2, <1>5, NothingWritten, BackDone
<1>6. "rejected" \notin Failures
  BY NoContinuing
<1> QED BY <1>4, <1>5, <1>6 DEF ReadStatus

LEMMA SessionFailedDone ==
  ASSUME Inv, PassesAsked, Attended, NEW a \in Actors, SessionFailed(a)
  PROVE  Done(a)
<1>1. /\ Good(a) /\ act[a].pc = "sessionFailed" /\ MoveBack(a, "failed")
      /\ UNCHANGED <<runtime, passes>>
  BY SessionFailedIsGood DEF SessionFailed, At
<1>2. act[a].pc \in Deciding /\ "failed" \in Stored \ {"running"}
  BY <1>1 DEF Deciding, Stored
<1> QED BY <1>1, <1>2, MoveBackIs

LEMMA TelemetryDone ==
  ASSUME Inv, PassesAsked, Attended, NEW a \in Actors, Telemetry(a)
  PROVE  Done(a)
<1>1. Good(a) /\ act[a].pc = "telemetry" /\ UNCHANGED <<runtime, passes>>
  BY TelemetryIsGood DEF Telemetry, At
<1>2. act[a].pc \in Deciding /\ act[a].pc # "idle"
  BY <1>1 DEF Deciding
<1>3. /\ act \in [Actors -> {Idle} \cup Activations] /\ act[a] \in Activations
      /\ act[a].kind # "foreground" /\ act[a].t \in Tasks /\ store \in Store
  BY <1>1, <1>2, Working DEF Proper, CallPcs, Inv, TypeOK
<1>4. /\ \A u \in Tasks : u # act[a].t => store'[u] = store[u]
      /\ store'[act[a].t].bg => Kept(act[a].t)
  <2>1. CASE UNCHANGED store
    BY <2>1, NothingWritten
  <2>2. CASE SetExec(act[a].t, My(a).exec)
    <3>1. /\ \A u \in Tasks : u # act[a].t => store'[u] = store[u]
          /\ store'[act[a].t].bg = store[act[a].t].bg
      BY <1>3, <2>2, WritesExec
    <3> QED BY <1>2, <2>2, <3>1, NotesExec
  <2> QED BY <2>1, <2>2 DEF Telemetry
<1>5. ASSUME NEW pc \in {"integrate", "stale"}, NEW rec, Go(a, pc, rec)
      PROVE  Done(a)
  <2>1. pc \in Pcs
    BY DEF Pcs
  <2>2. act'[a].pc = pc /\ act'[a].kind = act[a].kind /\ act'[a].t = act[a].t
    BY <1>3, <1>5, <2>1, GoIs
  <2>3. act'[a].pc \in Deciding
    BY <2>2 DEF Deciding
  <2> QED BY <1>1, <1>2, <1>3, <1>4, <2>2, <2>3, DecidesOn
<1>6. CASE Throw(a) \/ \E rec : Back(a, rec)
  BY <1>1, <1>2, <1>4, <1>6, BackDone
<1>7. \/ Throw(a) \/ \E rec : Back(a, rec)
      \/ \E pc \in {"integrate", "stale"} : \E rec : Go(a, pc, rec)
  BY DEF Telemetry
<1> QED BY <1>5, <1>6, <1>7

LEMMA SaveStaleDone ==
  ASSUME Inv, PassesAsked, Attended, NEW a \in Actors, SaveStale(a)
  PROVE  Done(a)
<1>1. /\ Good(a) /\ act[a].pc = "stale" /\ UNCHANGED <<runtime, passes>>
      /\ SetExec(act[a].t, My(a).exec) /\ Go(a, "block", My(a))
  BY SaveStaleIsGood DEF SaveStale, At
<1>2. act[a].pc \in Deciding /\ act[a].pc # "idle"
  BY <1>1 DEF Deciding
<1>3. /\ act \in [Actors -> {Idle} \cup Activations] /\ act[a] \in Activations
      /\ act[a].kind # "foreground" /\ act[a].t \in Tasks /\ store \in Store
  BY <1>1, <1>2, Working DEF Proper, CallPcs, Inv, TypeOK
<1>4. /\ \A u \in Tasks : u # act[a].t => store'[u] = store[u]
      /\ store'[act[a].t].bg = store[act[a].t].bg
  BY <1>1, <1>3, WritesExec
<1>5. store'[act[a].t].bg => Kept(act[a].t)
  BY <1>1, <1>2, <1>4, NotesExec
<1>6. act'[a].pc = "block" /\ act'[a].kind = act[a].kind /\ act'[a].t = act[a].t
  <2>1. "block" \in Pcs
    BY DEF Pcs
  <2> QED BY <1>1, <1>3, <2>1, GoIs
<1>7. act'[a].pc \in Deciding
  BY <1>6 DEF Deciding
<1> QED BY <1>1, <1>2, <1>3, <1>4, <1>5, <1>6, <1>7, DecidesOn

LEMMA BlockStaleDone ==
  ASSUME Inv, PassesAsked, Attended, NEW a \in Actors, BlockStale(a)
  PROVE  Done(a)
<1>1. /\ Good(a) /\ act[a].pc = "block" /\ MoveBack(a, "blocked")
      /\ UNCHANGED <<runtime, passes>>
  BY BlockStaleIsGood DEF BlockStale, At
<1>2. act[a].pc \in Deciding /\ "blocked" \in Stored \ {"running"}
  BY <1>1 DEF Deciding, Stored
<1> QED BY <1>1, <1>2, MoveBackIs

LEMMA IntegrateDone ==
  ASSUME Inv, PassesAsked, Attended, NEW a \in Actors, Integrate(a)
  PROVE  Done(a)
<1>1. Good(a) /\ act[a].pc = "integrate" /\ UNCHANGED <<runtime, passes>>
  BY IntegrateIsGood DEF Integrate, At
<1>2. act[a].pc \in Deciding /\ act[a].pc # "idle" /\ "succeeded" \in Stored \ {"running"}
  BY <1>1 DEF Deciding, Stored
<1>3. act \in [Actors -> {Idle} \cup Activations] /\ act[a] \in Activations
  BY <1>2, Working
<1>4. CASE MoveBack(a, "succeeded")
  BY <1>1, <1>2, <1>4, MoveBackIs
<1>5. CASE Throw(a) /\ UNCHANGED store
  BY <1>1, <1>2, <1>5, NothingWritten, BackDone
<1>6. ASSUME NEW verdict, UNCHANGED store,
             act' = [act EXCEPT ![a].out = verdict,
                                ![a].pc = CASE verdict = "passed" -> "root"
                                            [] verdict = "unstaged" -> "settle"
                                            [] OTHER -> "record"]
      PROVE  Done(a)
  <2>1. PICK pc \in MergePcs : pc = CASE verdict = "passed" -> "root"
                                      [] verdict = "unstaged" -> "settle"
                                      [] OTHER -> "record"
    BY DEF MergePcs
  <2>2. act'[a] = [[act[a] EXCEPT !.out = verdict] EXCEPT !.pc = pc]
    BY <1>3, <1>6, <2>1
  <2>3. act'[a].pc = pc /\ act'[a].t = act[a].t /\ act'[a].kind = act[a].kind
    BY <1>3, <2>2 DEF Activations
  <2>4. act'[a].pc \in Deciding /\ act'[a].pc \in CallPcs
    BY <2>1, <2>3 DEF Deciding, MergePcs, CallPcs
  <2> QED BY <1>1, <1>2, <1>6, <2>3, <2>4, NothingWritten, DecidesOn
<1> QED BY <1>4, <1>5, <1>6 DEF Integrate

LEMMA CheckRootDone ==
  ASSUME Inv, PassesAsked, Attended, NEW a \in Actors, CheckRoot(a)
  PROVE  Done(a)
<1>1. Good(a) /\ act[a].pc = "root" /\ UNCHANGED <<store, runtime, passes>>
  BY CheckRootIsGood DEF CheckRoot, At
<1>2. act[a].pc \in Deciding /\ act[a].pc # "idle"
  BY <1>1 DEF Deciding, MergePcs
<1>3. act \in [Actors -> {Idle} \cup Activations] /\ act[a] \in Activations
  BY <1>2, Working
<1>4. act'[a].pc \in {"record", "merge"} /\ act'[a].t = act[a].t /\ act'[a].kind = act[a].kind
  <2>1. CASE act' = [act EXCEPT ![a].out = "deferred", ![a].pc = "record"]
    <3>1. act'[a] = [[act[a] EXCEPT !.out = "deferred"] EXCEPT !.pc = "record"]
      BY <1>3, <2>1
    <3> QED BY <1>3, <3>1 DEF Activations
  <2>2. CASE Go(a, "merge", My(a))
    <3>1. "merge" \in Pcs
      BY DEF Pcs
    <3> QED BY <1>3, <2>2, <3>1, GoIs
  <2> QED BY <2>1, <2>2 DEF CheckRoot
<1>5. act'[a].pc \in Deciding /\ act'[a].pc \in CallPcs
  BY <1>4 DEF Deciding, MergePcs, CallPcs
<1> QED BY <1>1, <1>2, <1>4, <1>5, NothingWritten, DecidesOn

LEMMA MergeDone ==
  ASSUME Inv, PassesAsked, Attended, NEW a \in Actors, Merge(a)
  PROVE  Done(a)
<1>1. Good(a) /\ act[a].pc = "merge" /\ UNCHANGED <<store, runtime, passes>>
  BY MergeIsGood DEF Merge, At
<1>2. act[a].pc \in Deciding /\ act[a].pc # "idle"
  BY <1>1 DEF Deciding, MergePcs
<1>3. act \in [Actors -> {Idle} \cup Activations] /\ act[a] \in Activations
  BY <1>2, Working
<1>4. PICK out : act' = [act EXCEPT ![a].out = out, ![a].pc = "record"]
  BY DEF Merge
<1>5. act'[a] = [[act[a] EXCEPT !.out = out] EXCEPT !.pc = "record"]
  BY <1>3, <1>4
<1>6. act'[a].pc = "record" /\ act'[a].t = act[a].t /\ act'[a].kind = act[a].kind
  BY <1>3, <1>5 DEF Activations
<1>7. act'[a].pc \in Deciding /\ act'[a].pc \in CallPcs
  BY <1>6 DEF Deciding, MergePcs, CallPcs
<1> QED BY <1>1, <1>2, <1>6, <1>7, NothingWritten, DecidesOn

LEMMA RecordMergeDone ==
  ASSUME Inv, PassesAsked, Attended, NEW a \in Actors, RecordMerge(a)
  PROVE  Done(a)
<1>1. /\ Good(a) /\ act[a].pc = "record" /\ UNCHANGED <<runtime, passes>>
      /\ \E e : SetExec(act[a].t, e)
      /\ Go(a, "settle", store'[act[a].t])
  BY RecordMergeIsGood DEF RecordMerge, At
<1>2. act[a].pc \in Deciding /\ act[a].pc # "idle"
  BY <1>1 DEF Deciding, MergePcs
<1>3. /\ act \in [Actors -> {Idle} \cup Activations] /\ act[a] \in Activations
      /\ act[a].t \in Tasks /\ store \in Store
  BY <1>2, Working DEF Inv, TypeOK
<1>4. PICK e : SetExec(act[a].t, e)
  BY <1>1
<1>5. /\ \A u \in Tasks : u # act[a].t => store'[u] = store[u]
      /\ store'[act[a].t].bg = store[act[a].t].bg
  BY <1>3, <1>4, WritesExec
<1>6. store'[act[a].t].bg => Kept(act[a].t)
  BY <1>2, <1>4, <1>5, NotesExec
<1>7. act'[a].pc = "settle" /\ act'[a].kind = act[a].kind /\ act'[a].t = act[a].t
  <2>1. "settle" \in Pcs
    BY DEF Pcs
  <2>2. PICK rec : rec = store'[act[a].t]
    OBVIOUS
  <2>3. Go(a, "settle", rec)
    BY <1>1, <2>2
  <2> QED BY <1>3, <2>1, <2>3, GoIs
<1>8. act'[a].pc \in Deciding /\ act'[a].pc \in CallPcs
  BY <1>7 DEF Deciding, MergePcs, CallPcs
<1> QED BY <1>1, <1>2, <1>5, <1>6, <1>7, <1>8, DecidesOn

LEMMA SettleOutcomeDone ==
  ASSUME Inv, PassesAsked, Attended, NEW a \in Actors, SettleOutcome(a)
  PROVE  Done(a)
<1>1. Good(a) /\ act[a].pc = "settle" /\ UNCHANGED <<runtime, passes>>
  BY SettleOutcomeIsGood DEF SettleOutcome, At
<1>2. act[a].pc \in Deciding /\ act[a].pc # "idle" /\ ~Asking(act[a])
  BY <1>1 DEF Deciding, MergePcs, Asking, FollowPcs
<1>3. /\ act \in [Actors -> {Idle} \cup Activations] /\ act[a] \in Activations
      /\ act[a].t \in Tasks /\ store \in Store /\ Ready(a, act[a], merged) /\ act[a] # Idle
      /\ a # Promoter /\ act[a].kind \in {"idle", "foreground"}
      /\ act[a].kind = "foreground" => ~store[act[a].t].bg
  BY <1>2, Busy, DecidesOnRunning DEF Inv, TypeOK
<1>4. PICK to \in Stored \ {"running"} : to = Outcome[act[a].out]
  <2>1. act[a].out \in DOMAIN Outcome
    BY <1>1, <1>3 DEF Ready
  <2> QED BY <2>1 DEF Outcome, Stored
<1>5. CASE MoveBack(a, to)
  BY <1>1, <1>2, <1>5, MoveBackIs
<1>6. CASE Move(a, to) /\ Go(a, "cleanup", store'[act[a].t])
  <2>1. /\ \A u \in Tasks : u # act[a].t => store'[u] = store[u]
        /\ store'[act[a].t].bg = store[act[a].t].bg
    BY <1>3, <1>6, WritesStatus
  <2>2. act'[a].pc = "cleanup" /\ act'[a].kind = act[a].kind /\ act'[a].t = act[a].t
    <3>1. "cleanup" \in Pcs
      BY DEF Pcs
    <3>2. PICK rec : rec = store'[act[a].t]
      OBVIOUS
    <3>3. Go(a, "cleanup", rec)
      BY <1>6, <3>2
    <3> QED BY <1>3, <3>1, <3>3, GoIs
  <2>3. Proper(act'[a]) /\ act'[a].pc \notin Deciding
    BY <1>3, <2>2 DEF Proper, CallPcs, Deciding, MergePcs
  <2>4. act[a].kind = "idle" => Served(a)
    BY <1>3, <2>2 DEF Served, Asking
  <2>5. Serves(a)
    BY <1>1, <1>2, <1>3, <2>1, <2>2, <2>3, <2>4, Ordinary
  <2> QED BY <1>1, <1>3, <2>5, Still DEF Done
<1> QED BY <1>4, <1>5, <1>6 DEF SettleOutcome

LEMMA CleanupDone ==
  ASSUME Inv, PassesAsked, Attended, NEW a \in Actors, Cleanup(a)
  PROVE  Done(a)
<1>1. /\ Good(a) /\ act[a].pc = "cleanup" /\ UNCHANGED <<runtime, passes>>
      /\ SetExec(act[a].t, My(a).exec) /\ Back(a, store'[act[a].t])
  BY CleanupIsGood DEF Cleanup, At
<1>2. act[a].pc # "idle" /\ act[a].pc \notin PassPcs
  BY <1>1 DEF PassPcs
<1>3. /\ act \in [Actors -> {Idle} \cup Activations] /\ act[a] \in Activations
      /\ act[a].t \in Tasks /\ store \in Store /\ Ready(a, act[a], merged) /\ act[a] # Idle
      /\ Faithful(act[a].t, act[a].rec) /\ Proper(act[a]) /\ a # Promoter
  BY <1>2, Busy, Working DEF Inv, TypeOK
<1>4. store[act[a].t].status \in Terminal
  BY <1>1, <1>3, NoContinuing DEF Ready, Faithful
<1>5. act[a].kind \in {"idle", "error", "interrupt", "foreground"}
  BY <1>1, <1>3 DEF Proper, PassPcs
<1>6. /\ \A u \in Tasks : u # act[a].t => store'[u] = store[u]
      /\ store'[act[a].t].status = store[act[a].t].status
  BY <1>1, <1>3, WritesExec
<1>7. PICK rec : rec = store'[act[a].t]
  OBVIOUS
<1>8. Back(a, rec) /\ rec.status # "running"
  BY <1>1, <1>4, <1>6, <1>7 DEF Terminal
<1>9. /\ Proper(act'[a]) /\ act'[a].pc \in {"idle", "follow"}
      /\ act'[a] = Idle \/ (act'[a].t = act[a].t /\ act'[a].kind = act[a].kind)
      /\ act[a].kind # "foreground" => act'[a].pc = "follow"
  BY <1>3, <1>5, <1>8, BackIs
<1>10. act'[a].pc \notin Deciding /\ act'[a].pc # "waive"
  BY <1>9 DEF Deciding, MergePcs
<1>11. Asking(act[a]) => Served(a)
  BY <1>1, <1>3, <1>9 DEF Asking, Served, FollowPcs
<1>12. Kept(act[a].t)
  BY <1>4, <1>6 DEF Kept, Terminal
<1> QED BY <1>1, <1>2, <1>3, <1>6, <1>9, <1>10, <1>11, <1>12, Quietly

-----------------------------------------------------------------------------
(* handleRootFollowThrough, and the pass that is asked for after it.       *)
LEMMA Follows ==
  ASSUME Inv, PassesAsked, Attended, NEW a \in Actors, a # Promoter, Good(a), act[a].pc \in FollowPcs,
         \A u \in Tasks : u # act[a].t => store'[u] = store[u],
         store'[act[a].t].status = store[act[a].t].status,
         UNCHANGED runtime,
         \/ /\ act'[a].pc \in FollowPcs /\ act'[a].t = act[a].t /\ act'[a].kind = act[a].kind
            /\ passes' = passes
         \/ AfterFollow(a)
  PROVE  Done(a)
<1>1. act[a].pc # "idle"
  BY DEF FollowPcs
<1>2. act \in [Actors -> {Idle} \cup Activations] /\ Proper(act[a]) /\ act[a].kind # "pass" /\ act[a] # Idle
  BY <1>1, Working
<1>3. act[a].kind \in {"idle", "error", "interrupt"}
  BY <1>2 DEF Proper, FollowPcs, CallPcs
<1>4. /\ Served(a) /\ Proper(act'[a])
      /\ act'[a] = Idle \/ (act'[a].t = act[a].t /\ act'[a].kind = act[a].kind)
      /\ act'[a].pc # "waive" /\ act'[a].pc \notin Deciding
      /\ passes' = passes \/ passes' = More(passes)
  <2>1. CASE AfterFollow(a)
    <3>1. Leave(a) /\ passes' = More(passes)
      BY <2>1 DEF AfterFollow
    <3>2. act'[a] = Idle /\ Proper(act'[a]) /\ act'[a].pc = "idle"
      BY <1>2, <3>1, LeftIs
    <3> QED BY <3>1, <3>2 DEF Served, Deciding, MergePcs
  <2>2. CASE act'[a].pc \in FollowPcs /\ act'[a].t = act[a].t /\ act'[a].kind = act[a].kind /\ passes' = passes
    BY <1>3, <2>2 DEF Served, Asking, Proper, Deciding, MergePcs, FollowPcs
  <2> QED BY <2>1, <2>2
<1>5. Serves(a)
  BY <1>1, <1>4, Ordinary
<1> QED BY <1>5, Still DEF Done

LEMMA FollowDone ==
  ASSUME Inv, PassesAsked, Attended, NEW a \in Actors, a # Promoter, Follow(a)
  PROVE  Done(a)
<1>1. Good(a) /\ act[a].pc = "follow" /\ UNCHANGED runtime
  BY FollowIsGood DEF Follow, At
<1>2. act[a].pc \in FollowPcs /\ act[a].pc # "idle"
  BY <1>1 DEF FollowPcs
<1>3. /\ act \in [Actors -> {Idle} \cup Activations] /\ act[a] \in Activations
      /\ act[a].t \in Tasks /\ store \in Store
  BY <1>2, Working DEF Inv, TypeOK
<1>4. CASE AfterFollow(a) /\ UNCHANGED store
  BY <1>1, <1>2, <1>4, Follows
<1>5. ASSUME SetFollowThrough(a, "pending"), Go(a, "mode", store'[act[a].t]), UNCHANGED passes
      PROVE  Done(a)
  <2>1. PICK e : SetExec(act[a].t, e)
    BY <1>5 DEF SetFollowThrough
  <2>2. /\ \A u \in Tasks : u # act[a].t => store'[u] = store[u]
        /\ store'[act[a].t].status = store[act[a].t].status
    BY <1>3, <2>1, WritesExec
  <2>3. act'[a].pc = "mode" /\ act'[a].kind = act[a].kind /\ act'[a].t = act[a].t
    <3>1. "mode" \in Pcs
      BY DEF Pcs
    <3>2. PICK rec : rec = store'[act[a].t]
      OBVIOUS
    <3>3. Go(a, "mode", rec)
      BY <1>5, <3>2
    <3> QED BY <1>3, <3>1, <3>3, GoIs
  <2>4. act'[a].pc \in FollowPcs
    BY <2>3 DEF FollowPcs
  <2> QED BY <1>1, <1>2, <1>5, <2>2, <2>3, <2>4, Follows
<1> QED BY <1>4, <1>5 DEF Follow

LEMMA ReadModeDone ==
  ASSUME Inv, PassesAsked, Attended, NEW a \in Actors, a # Promoter, ReadMode(a)
  PROVE  Done(a)
<1>1. Good(a) /\ act[a].pc = "mode" /\ UNCHANGED <<store, runtime, passes>>
  BY ReadModeIsGood DEF ReadMode, At
<1>2. act[a].pc \in FollowPcs /\ act[a].pc # "idle"
  BY <1>1 DEF FollowPcs
<1>3. act \in [Actors -> {Idle} \cup Activations] /\ act[a] \in Activations
  BY <1>2, Working
<1>4. act'[a].pc \in {"followed", "tell"} /\ act'[a].t = act[a].t /\ act'[a].kind = act[a].kind
  <2>1. CASE stopped
    <3>1. act'[a] = [[act[a] EXCEPT !.out = "pending"] EXCEPT !.pc = "followed"]
      BY <1>3, <2>1 DEF ReadMode
    <3> QED BY <1>3, <3>1 DEF Activations
  <2>2. CASE ~stopped
    <3>1. act'[a] = [act[a] EXCEPT !.pc = "tell"]
      BY <1>3, <2>2 DEF ReadMode
    <3> QED BY <1>3, <3>1 DEF Activations
  <2> QED BY <2>1, <2>2
<1>5. act'[a].pc \in FollowPcs
  BY <1>4 DEF FollowPcs
<1> QED BY <1>1, <1>2, <1>4, <1>5, NothingWritten, Follows

LEMMA TellRootDone ==
  ASSUME Inv, PassesAsked, Attended, NEW a \in Actors, a # Promoter, TellRoot(a)
  PROVE  Done(a)
<1>1. Good(a) /\ act[a].pc = "tell" /\ UNCHANGED <<store, runtime, passes>>
  BY TellRootIsGood DEF TellRoot, At
<1>2. act[a].pc \in FollowPcs /\ act[a].pc # "idle"
  BY <1>1 DEF FollowPcs
<1>3. act \in [Actors -> {Idle} \cup Activations] /\ act[a] \in Activations
  BY <1>2, Working
<1>4. PICK out : act' = [act EXCEPT ![a].out = out, ![a].pc = "followed"]
  BY NoContinuing DEF TellRoot
<1>5. act'[a] = [[act[a] EXCEPT !.out = out] EXCEPT !.pc = "followed"]
  BY <1>3, <1>4
<1>6. act'[a].pc = "followed" /\ act'[a].t = act[a].t /\ act'[a].kind = act[a].kind
  BY <1>3, <1>5 DEF Activations
<1>7. act'[a].pc \in FollowPcs
  BY <1>6 DEF FollowPcs
<1> QED BY <1>1, <1>2, <1>6, <1>7, NothingWritten, Follows

LEMMA FollowedDone ==
  ASSUME Inv, PassesAsked, Attended, NEW a \in Actors, a # Promoter, Followed(a)
  PROVE  Done(a)
<1>1. Good(a) /\ act[a].pc = "followed" /\ UNCHANGED runtime /\ AfterFollow(a)
  BY FollowedIsGood DEF Followed, At
<1>2. act[a].pc \in FollowPcs /\ act[a].pc # "idle"
  BY <1>1 DEF FollowPcs
<1>3. act[a].t \in Tasks /\ store \in Store
  BY <1>2, Working DEF Inv, TypeOK
<1>4. PICK e : SetExec(act[a].t, e)
  BY DEF Followed, SetFollowThrough
<1>5. /\ \A u \in Tasks : u # act[a].t => store'[u] = store[u]
      /\ store'[act[a].t].status = store[act[a].t].status
  BY <1>3, <1>4, WritesExec
<1> QED BY <1>1, <1>2, <1>5, Follows

-----------------------------------------------------------------------------
(* The events that end a task, foreground calls and background_cancel.     *)
LEMMA EndByEventDone ==
  ASSUME Inv, PassesAsked, Attended, NEW a \in Actors, SessionEvent(a)
  PROVE  Done(a)
<1>1. PICK type \in {"error", "interrupt"}, status \in {"failed", "cancelled"} : EndByEvent(a, type, status)
  BY DEF SessionEvent
<1>2. Good(a) /\ act[a].pc = type /\ UNCHANGED <<runtime, passes>>
  <2>1. Good(a)
    BY EndByEventIsGood DEF SessionEvent
  <2> QED BY <1>1, <2>1 DEF EndByEvent, At
<1>3. act[a].pc # "idle" /\ act[a].pc \notin PassPcs
  BY <1>2 DEF PassPcs
<1>4. /\ act \in [Actors -> {Idle} \cup Activations] /\ act[a] \in Activations
      /\ act[a].t \in Tasks /\ store \in Store /\ act[a] # Idle
      /\ Proper(act[a]) /\ a # Promoter
  BY <1>3, Working DEF Inv, TypeOK
<1>5. act[a].kind \in {"error", "interrupt"} /\ ~Asking(act[a])
  BY <1>2, <1>4 DEF Proper, PassPcs, CallPcs, Deciding, MergePcs, FollowPcs, Asking
<1>6. CASE Throw(a) /\ UNCHANGED store
  <2>1. Leave(a)
    BY <1>5, <1>6 DEF Throw
  <2>2. act'[a] = Idle /\ Proper(act'[a]) /\ act'[a].pc = "idle"
    BY <1>4, <2>1, LeftIs
  <2>3. act'[a].pc \notin Deciding
    BY <2>2 DEF Deciding, MergePcs
  <2> QED BY <1>2, <1>3, <1>4, <1>5, <1>6, <2>2, <2>3, NothingWritten, Quietly
<1>7. ASSUME Move(a, status), NEW pc \in {"cleanup", "follow"}, Go(a, pc, store'[act[a].t])
      PROVE  Done(a)
  <2>1. /\ \A u \in Tasks : u # act[a].t => store'[u] = store[u]
        /\ store'[act[a].t].status = status
    BY <1>4, <1>7, WritesStatus
  <2>2. act'[a].pc = pc /\ act'[a].kind = act[a].kind /\ act'[a].t = act[a].t
    <3>1. pc \in Pcs
      BY DEF Pcs
    <3>2. PICK rec : rec = store'[act[a].t]
      OBVIOUS
    <3>3. Go(a, pc, rec)
      BY <1>7, <3>2
    <3> QED BY <1>4, <3>1, <3>3, GoIs
  <2>3. Proper(act'[a]) /\ Served(a) /\ act'[a].pc \notin Deciding /\ act'[a].pc # "waive"
    BY <1>4, <1>5, <2>2 DEF Proper, Served, Asking, Deciding, MergePcs, FollowPcs
  <2>4. Serves(a)
    BY <1>2, <1>3, <1>4, <1>5, <2>1, <2>2, <2>3, Ordinary
  <2> QED BY <1>2, <1>4, <2>4, Still DEF Done
<1> QED BY <1>1, <1>6, <1>7 DEF EndByEvent

LEMMA ForegroundIs ==
  ASSUME Inv, PassesAsked, Attended, NEW a \in Actors, act[a].pc \in {"send", "await", "launchFailed"}
  PROVE  /\ act \in [Actors -> {Idle} \cup Activations] /\ act[a] \in Activations
         /\ act[a].t \in Tasks /\ store \in Store /\ a # Promoter /\ act[a] # Idle /\ act[a].pc # "idle"
         /\ act[a].kind = "foreground" /\ ~store[act[a].t].bg /\ ~Asking(act[a])
         /\ Proper(act[a])
<1>1. act[a].pc # "idle" /\ act[a].pc \notin PassPcs /\ ~Asking(act[a])
  BY DEF PassPcs, Asking, FollowPcs
<1>2. /\ act \in [Actors -> {Idle} \cup Activations] /\ act[a] \in Activations
      /\ act[a].t \in Tasks /\ store \in Store /\ a # Promoter /\ act[a] # Idle
      /\ Proper(act[a]) /\ Stands(act[a])
  BY <1>1, Working DEF Inv, TypeOK
<1>3. act[a].kind = "foreground"
  BY <1>1, <1>2 DEF Proper, Deciding, MergePcs, FollowPcs
<1> QED BY <1>1, <1>2, <1>3 DEF Stands

LEMMA SendDone ==
  ASSUME Inv, PassesAsked, Attended, NEW a \in Actors, Send(a)
  PROVE  Done(a)
<1>1. Good(a) /\ act[a].pc = "send" /\ UNCHANGED <<store, owed, passes>>
  BY SendIsGood DEF Send, At
<1>2. /\ act \in [Actors -> {Idle} \cup Activations] /\ act[a] \in Activations
      /\ act[a].t \in Tasks /\ a # Promoter /\ act[a].pc # "idle"
      /\ act[a].kind = "foreground" /\ ~store[act[a].t].bg /\ ~Asking(act[a])
      /\ Proper(act[a])
  BY <1>1, ForegroundIs
<1>3. /\ Proper(act'[a]) /\ act'[a].pc \notin Deciding /\ act'[a].pc # "waive"
      /\ act'[a] = Idle \/ (act'[a].t = act[a].t /\ act'[a].kind = act[a].kind)
  <2>1. CASE Throw(a)
    <3>1. /\ Proper(act'[a]) /\ act'[a].pc \in {"idle", "launchFailed"}
          /\ act'[a] = Idle \/ (act'[a].t = act[a].t /\ act'[a].kind = act[a].kind)
      BY <1>2, <2>1, ThrowIs
    <3> QED BY <3>1 DEF Deciding, MergePcs
  <2>2. CASE Go(a, "await", My(a))
    <3>1. "await" \in Pcs
      BY DEF Pcs
    <3>2. act'[a].pc = "await" /\ act'[a].kind = act[a].kind /\ act'[a].t = act[a].t
      BY <1>2, <2>2, <3>1, GoIs
    <3> QED BY <1>2, <3>2 DEF Proper, CallPcs, Deciding, MergePcs
  <2> QED BY <2>1, <2>2 DEF Send
<1>4. Serves(a)
  BY <1>1, <1>2, <1>3, NothingWritten, Ordinary
<1>5. TurnsEnd
  <2>1. /\ Faithful(act[a].t, act[a].rec) /\ session \in [Children -> {"unused", "created", "busy", "idle", "error"}]
    BY <1>2, Busy DEF Base
  <2>2. \A c \in Children : session'[c] = "busy" /\ session[c] # "busy" => c = act[a].rec.child
    BY <2>1 DEF Send, My
  <2>3. \A t \in Tasks : Present(store, t) /\ store[t].child = act[a].rec.child => t = act[a].t
    BY <2>1 DEF Faithful
  <2> QED BY <1>1, <1>2, <2>2, <2>3 DEF TurnsEnd
<1> QED BY <1>2, <1>4, <1>5 DEF Done

LEMMA AnsweredDone ==
  ASSUME Inv, PassesAsked, Attended, NEW a \in Actors, Answered(a)
  PROVE  Done(a)
<1>1. Good(a) /\ act[a].pc = "await" /\ UNCHANGED <<store, runtime, passes>>
  BY AnsweredIsGood DEF Answered, At
<1>2. /\ act \in [Actors -> {Idle} \cup Activations] /\ act[a] \in Activations
      /\ act[a].t \in Tasks /\ a # Promoter /\ act[a].pc # "idle"
      /\ act[a].kind = "foreground" /\ ~Asking(act[a])
  BY <1>1, ForegroundIs
<1>3. PICK pc \in {"launchFailed", "integrate"} : Go(a, pc, My(a))
  BY DEF Answered
<1>4. act'[a].pc = pc /\ act'[a].kind = act[a].kind /\ act'[a].t = act[a].t
  <2>1. pc \in Pcs
    BY DEF Pcs
  <2> QED BY <1>2, <1>3, <2>1, GoIs
<1>5. Proper(act'[a]) /\ act'[a].pc # "waive"
  BY <1>2, <1>4 DEF Proper, CallPcs
<1> QED BY <1>1, <1>2, <1>4, <1>5, NothingWritten, Quietly

LEMMA FailForegroundDone ==
  ASSUME Inv, PassesAsked, Attended, NEW a \in Actors, FailForeground(a)
  PROVE  Done(a)
<1>1. /\ Good(a) /\ act[a].pc = "launchFailed" /\ UNCHANGED <<runtime, passes>>
      /\ Move(a, "failed") \/ UNCHANGED store
      /\ Leave(a)
  BY FailForegroundIsGood DEF FailForeground, At
<1>2. /\ act \in [Actors -> {Idle} \cup Activations] /\ act[a] \in Activations
      /\ act[a].t \in Tasks /\ store \in Store /\ a # Promoter /\ act[a].pc # "idle"
      /\ ~store[act[a].t].bg /\ ~Asking(act[a])
  BY <1>1, ForegroundIs
<1>3. act'[a] = Idle /\ Proper(act'[a]) /\ act'[a].pc = "idle"
  BY <1>1, <1>2, LeftIs
<1>4. act'[a].pc \notin Deciding
  BY <1>3 DEF Deciding, MergePcs
<1>5. /\ \A u \in Tasks : u # act[a].t => store'[u] = store[u]
      /\ ~store'[act[a].t].bg
  <2>1. CASE Move(a, "failed")
    BY <1>2, <2>1, WritesStatus
  <2>2. CASE UNCHANGED store
    BY <1>2, <2>2
  <2> QED BY <1>1, <2>1, <2>2
<1> QED BY <1>1, <1>2, <1>3, <1>4, <1>5, Quietly

LEMMA CancelIs ==
  ASSUME Inv, PassesAsked, Attended, NEW a \in Actors, act[a].pc \in {"abort", "cancel", "waive"}
  PROVE  /\ act \in [Actors -> {Idle} \cup Activations] /\ act[a] \in Activations
         /\ act[a].t \in Tasks /\ store \in Store /\ a # Promoter /\ act[a] # Idle /\ act[a].pc # "idle"
         /\ \/ act[a].kind = "cancel" /\ Len(act[a].todo) = 1
            \/ act[a].kind = "waive" /\ act[a].pc = "waive"
         /\ act[a].pc = "waive" => store[act[a].t].status \in Terminal
<1>1. act[a].pc # "idle" /\ act[a].pc \notin PassPcs
  BY DEF PassPcs
<1>2. /\ act \in [Actors -> {Idle} \cup Activations] /\ act[a] \in Activations
      /\ act[a].t \in Tasks /\ store \in Store /\ a # Promoter /\ act[a] # Idle
      /\ Proper(act[a]) /\ Stands(act[a])
  BY <1>1, Working DEF Inv, TypeOK
<1> QED BY <1>1, <1>2 DEF Proper, Stands, Deciding, MergePcs, FollowPcs, CallPcs

LEMMA AbortDone ==
  ASSUME Inv, PassesAsked, Attended, NEW a \in Actors, Abort(a)
  PROVE  Done(a)
<1>1. act[a].pc = "abort" /\ UNCHANGED <<store, passes>>
  BY DEF Abort, At
<1>2. /\ act \in [Actors -> {Idle} \cup Activations] /\ act[a] \in Activations
      /\ a # Promoter /\ act[a].kind = "cancel" /\ Len(act[a].todo) = 1
      /\ session \in [Children -> {"unused", "created", "busy", "idle", "error"}]
  BY <1>1, CancelIs DEF Inv, TypeOK
<1>3. PICK u, rec : act' = [act EXCEPT ![a] = [@ EXCEPT !.pc = "cancel", !.t = u, !.rec = rec]]
  BY DEF Abort
<1>4. act'[a] = [act[a] EXCEPT !.pc = "cancel", !.t = u, !.rec = rec]
  BY <1>2, <1>3
<1>5. act'[a].pc = "cancel" /\ act'[a].kind = "cancel" /\ Len(act'[a].todo) = 1
  BY <1>2, <1>4 DEF Activations
<1>6. Proper(act'[a]) /\ Stands(act[a])'
  BY <1>5 DEF Proper, Stands
<1>7. ~Asking(act[a]) /\ ~Changes /\ \A t \in Tasks : ~Decides(act'[a], t)
  BY <1>1, <1>5 DEF Asking, FollowPcs, Changes, Kept, Decides
<1>8. Serves(a)
  BY <1>1, <1>6, <1>7 DEF Serves
<1>9. TurnsEnd
  <2> DEFINE c == Head(act[a].todo).rec.child
  <2>1. CASE UNCHANGED <<session, owed>>
    BY <2>1 DEF TurnsEnd
  <2>2. CASE session[c] = "busy" /\ session' = [session EXCEPT ![c] = "idle"] /\ owed' = owed \cup {<<"idle", c>>}
    <3> HIDE DEF c
    <3>1. \A d \in Children : session'[d] = IF d = c THEN "idle" ELSE session[d]
      BY <1>2, <2>2
    <3> QED BY <2>2, <3>1 DEF TurnsEnd
  <2> QED BY <2>1, <2>2 DEF Abort, runtime
<1> QED BY <1>2, <1>8, <1>9 DEF Done

LEMMA CancelTaskDone ==
  ASSUME Inv, PassesAsked, Attended, NEW a \in Actors, CancelTask(a)
  PROVE  Done(a)
<1>1. Good(a) /\ act[a].pc = "cancel" /\ UNCHANGED <<runtime, passes>>
  BY CancelTaskIsGood DEF CancelTask, At
<1>2. /\ act \in [Actors -> {Idle} \cup Activations] /\ act[a] \in Activations
      /\ act[a].t \in Tasks /\ store \in Store /\ a # Promoter /\ act[a].pc # "idle"
      /\ act[a].kind = "cancel" /\ Len(act[a].todo) = 1 /\ ~Asking(act[a])
  BY <1>1, CancelIs DEF Asking, FollowPcs
<1>3. CASE Throw(a) /\ UNCHANGED store
  <2>1. Leave(a)
    BY <1>2, <1>3 DEF Throw
  <2>2. act'[a] = Idle /\ Proper(act'[a]) /\ act'[a].pc = "idle"
    BY <1>2, <2>1, LeftIs
  <2>3. act'[a].pc \notin Deciding
    BY <2>2 DEF Deciding, MergePcs
  <2> QED BY <1>1, <1>2, <1>3, <2>2, <2>3, NothingWritten, Quietly
<1>4. CASE Move(a, "cancelled") /\ Go(a, "waive", store'[act[a].t])
  <2>1. /\ \A u \in Tasks : u # act[a].t => store'[u] = store[u]
        /\ store'[act[a].t].status = "cancelled"
    BY <1>2, <1>4, WritesStatus
  <2>2. /\ act'[a].pc = "waive" /\ act'[a].kind = act[a].kind /\ act'[a].t = act[a].t
        /\ act'[a].todo = act[a].todo
    <3>1. "waive" \in Pcs
      BY DEF Pcs
    <3>2. PICK rec : rec = store'[act[a].t]
      OBVIOUS
    <3>3. Go(a, "waive", rec)
      BY <1>4, <3>2
    <3> QED BY <1>2, <3>1, <3>3, GoIs
  <2>3. Proper(act'[a]) /\ Served(a) /\ act'[a].pc \notin Deciding
    BY <1>2, <2>2 DEF Proper, Served, Asking, Deciding, MergePcs
  <2>4. Serves(a)
    BY <1>1, <1>2, <2>1, <2>2, <2>3, Ordinary DEF Terminal
  <2> QED BY <1>1, <1>2, <2>4, Still DEF Done
<1> QED BY <1>3, <1>4 DEF CancelTask

LEMMA WaiveDone ==
  ASSUME Inv, PassesAsked, Attended, NEW a \in Actors, Waive(a)
  PROVE  Done(a)
<1>1. Good(a) /\ act[a].pc = "waive" /\ UNCHANGED runtime
  BY WaiveIsGood DEF Waive, At
<1>2. /\ act \in [Actors -> {Idle} \cup Activations] /\ act[a] \in Activations
      /\ act[a].t \in Tasks /\ store \in Store /\ a # Promoter /\ act[a].pc # "idle"
      /\ \/ act[a].kind = "cancel" /\ Len(act[a].todo) = 1
         \/ act[a].kind = "waive"
      /\ store[act[a].t].status \in Terminal
  BY <1>1, CancelIs
<1>3. Leave(a) /\ passes' = IF act[a].kind = "cancel" THEN More(passes) ELSE passes
  <2>1. ~(act[a].kind = "cancel" /\ Len(act[a].todo) > 1)
    <3>1. CASE act[a].kind = "cancel"
      <4>1. Len(act[a].todo) = 1
        BY <1>2, <3>1
      <4> QED BY ONLY <4>1
    <3>2. CASE act[a].kind # "cancel"
      BY <3>2
    <3> QED BY <3>1, <3>2
  <2> QED BY <2>1 DEF Waive
<1>4. act'[a] = Idle /\ Proper(act'[a]) /\ act'[a].pc = "idle"
  BY <1>2, <1>3, LeftIs
<1>5. act'[a].pc \notin Deciding
  BY <1>4 DEF Deciding, MergePcs
<1>6. PICK e : SetExec(act[a].t, e)
  BY DEF Waive, SetFollowThrough
<1>7. /\ \A u \in Tasks : u # act[a].t => store'[u] = store[u]
      /\ store'[act[a].t].status = store[act[a].t].status
  BY <1>2, <1>6, WritesExec
<1>8. Kept(act[a].t)
  BY <1>2, <1>7 DEF Kept, Terminal
<1>9. Asking(act[a]) => Served(a)
  BY <1>1, <1>2, <1>3, <1>4 DEF Asking, FollowPcs, Served
<1>10. Serves(a)
  BY <1>1, <1>2, <1>3, <1>4, <1>5, <1>7, <1>8, <1>9, Ordinary
<1> QED BY <1>1, <1>2, <1>10, Still DEF Done

(* What no tool leads to here.                                             *)
LEMMA NotReached ==
  ASSUME Inv, PassesAsked, Attended, NEW a \in Actors
  PROVE  act[a].pc \notin {"restart", "look", "consume"}
<1> SUFFICES ASSUME act[a].pc \in {"restart", "look", "consume"}
             PROVE  FALSE
  OBVIOUS
<1>1. act[a].pc # "idle"
  OBVIOUS
<1>2. Proper(act[a]) /\ act[a] # Idle
  BY <1>1, Working
<1> QED BY <1>2 DEF Proper, Deciding, MergePcs, FollowPcs, CallPcs, PassPcs

-----------------------------------------------------------------------------
(* New activations, and steps of no actor.                                 *)
LEMMA DeliverDone ==
  ASSUME Inv, PassesAsked, Attended, NEW h, NEW type \in {"idle", "error", "interrupt"},
         NEW c \in Children, Deliver(h, type, c)
  PROVE  h \in Actors /\ Done(h)
<1>1. /\ h \in Handlers /\ act[h] = Idle /\ <<type, c>> \in owed /\ owed' = owed \ {<<type, c>>}
      /\ UNCHANGED <<store, session, passes>>
  BY DEF Deliver
<1>2. /\ h \in Actors /\ h # Promoter /\ act \in [Actors -> {Idle} \cup Activations]
  BY <1>1, Rests, DelegationAssumption DEF Actors
<1>3. TurnsEnd
  BY <1>1 DEF TurnsEnd
<1>4. ~Asking(act[h]) /\ ~Changes
  BY <1>1 DEF Asking, FollowPcs, Idle, Changes, Kept
<1>5. CASE UNCHANGED act
  <2>1. Proper(act'[h]) /\ Stands(act[h])' /\ \A t \in Tasks : ~Decides(act'[h], t)
    BY <1>1, <1>5 DEF Proper, Stands, Decides, Idle, Deciding, MergePcs
  <2> QED BY <1>1, <1>2, <1>3, <1>4, <2>1 DEF Done, Serves
<1>6. ASSUME NEW t \in RunningWith(c),
             act' = [act EXCEPT ![h] =
               Activation(type, IF type = "idle" THEN "status" ELSE type, t, store[t])]
      PROVE  Done(h)
  <2>1. act'[h] = Activation(type, IF type = "idle" THEN "status" ELSE type, t, store[t])
    BY <1>2, <1>6
  <2>2. /\ act'[h].kind = type /\ act'[h].t = t
        /\ act'[h].pc = IF type = "idle" THEN "status" ELSE type
    BY <2>1 DEF Activation
  <2>3. Proper(act'[h]) /\ Stands(act[h])'
    BY <2>2 DEF Proper, Stands, Deciding
  <2>4. \A u \in Tasks : Decides(act'[h], u) => Heard(u)
    BY <1>1, <2>2 DEF Decides, Heard, RunningWith
  <2>5. Serves(h)
    BY <1>1, <1>4, <2>3, <2>4 DEF Serves
  <2> QED BY <1>2, <1>3, <2>5 DEF Done
<1> QED BY <1>2, <1>5, <1>6 DEF Deliver

LEMMA LaunchDone ==
  ASSUME Inv, PassesAsked, Attended, NEW a, NEW t \in Tasks, NEW k \in Keys, NEW bg \in BOOLEAN,
         NEW mode \in Modes, NEW c \in Children, Launch(a, t, k, bg, mode, c)
  PROVE  a \in Actors /\ Done(a)
<1>1. /\ ~Present(store, t) /\ session' = [session EXCEPT ![c] = "created"]
      /\ Started(a, t, bg) /\ UNCHANGED owed
  BY DEF Launch
<1>2. /\ a \in Actors /\ a # Promoter /\ act[a] = Idle /\ store \in Store
      /\ act \in [Actors -> {Idle} \cup Activations] /\ Base
  BY CallerIs DEF Launch
<1>3. TurnsEnd
  BY <1>1, <1>2 DEF TurnsEnd, Base
<1>4. /\ \A u \in Tasks : u # t => store'[u] = store[u]
      /\ store'[t].bg = bg /\ store'[t].deps = {}
  BY <1>2 DEF Launch, Created, Store
<1>5. ~Asking(act[a])
  BY <1>2 DEF Asking, FollowPcs, Idle
<1>6. \A u \in Tasks : u # t => Kept(u)
  BY <1>4 DEF Kept
<1>7. CASE bg
  <2>1. Leave(a) /\ passes' = More(passes)
    BY <1>1, <1>7 DEF Started
  <2>2. act'[a] = Idle /\ Proper(act'[a]) /\ act'[a].pc = "idle"
    BY <1>2, <2>1, LeftIs
  <2>3. Stands(act[a])' /\ \A u \in Tasks : ~Decides(act'[a], u)
    BY <2>2 DEF Stands, Decides, Deciding, MergePcs
  <2>4. Served(a)
    BY <1>2, <2>1, <2>2 DEF Served
  <2>5. Serves(a)
    BY <1>1, <1>4, <2>1, <2>2, <2>3, <2>4 DEF Serves, Present
  <2> QED BY <1>2, <1>3, <2>5 DEF Done
<1>8. CASE ~bg
  <2>1. act'[a] = Activation("foreground", "send", t, store'[t]) /\ UNCHANGED passes
    BY <1>1, <1>2, <1>8 DEF Started
  <2>2. act'[a].kind = "foreground" /\ act'[a].pc = "send" /\ act'[a].t = t
    BY <2>1 DEF Activation
  <2>3. /\ Proper(act'[a]) /\ Stands(act[a])'
        /\ \A u \in Tasks : ~Decides(act'[a], u)
    BY <1>4, <1>8, <2>2 DEF Proper, CallPcs, Stands, Decides
  <2>4. ~Changes
    BY <1>4, <1>6, <1>8 DEF Changes
  <2>5. Serves(a)
    BY <1>1, <1>4, <1>5, <2>1, <2>3, <2>4 DEF Serves, Present
  <2> QED BY <1>2, <1>3, <2>5 DEF Done
<1> QED BY <1>2, <1>7, <1>8

LEMMA CancelDone ==
  ASSUME Inv, PassesAsked, Attended, NEW a, NEW t \in Tasks, Cancel(a, t)
  PROVE  a \in Actors /\ Done(a)
<1>1. Present(store, t) /\ UNCHANGED <<store, runtime, passes>>
  BY DEF Cancel
<1>2. /\ a \in Actors /\ a # Promoter /\ act[a] = Idle /\ store \in Store
      /\ act \in [Actors -> {Idle} \cup Activations]
  BY CallerIs DEF Cancel
<1>3. ~Asking(act[a]) /\ ~Changes
  BY <1>1, <1>2 DEF Asking, FollowPcs, Idle, Changes, Kept
<1>4. ASSUME Proper(act'[a]), Stands(act[a])', act'[a].pc \in {"abort", "waive"}
      PROVE  Done(a)
  <2>1. \A u \in Tasks : ~Decides(act'[a], u)
    BY <1>4 DEF Decides, Deciding, MergePcs
  <2>2. Serves(a)
    BY <1>1, <1>3, <1>4, <2>1 DEF Serves
  <2> QED BY <1>1, <1>2, <2>2, Still DEF Done
<1>5. CASE CancelList(a, <<t>>)
  <2>1. PICK x : x = Activation("cancel", "abort", t, store[t])
    OBVIOUS
  <2>2. PICK q : q = [i \in DOMAIN <<t>> |-> [t |-> <<t>>[i], rec |-> store[<<t>>[i]]]]
    OBVIOUS
  <2>3. Len(q) = 1
    <3>1. DOMAIN <<t>> = 1..1
      OBVIOUS
    <3>2. PICK S : S = {[t |-> <<t>>[i], rec |-> store[<<t>>[i]]] : i \in 1..1}
      OBVIOUS
    <3>3. q \in [1..1 -> S]
      BY <2>2, <3>1, <3>2
    <3>4. 1 \in Nat
      OBVIOUS
    <3> QED BY <3>3, <3>4, Enumerated
  <2>4. act'[a] = [x EXCEPT !.todo = q]
    <3>1. <<t>>[1] = t
      OBVIOUS
    <3> QED BY <1>2, <1>5, <2>1, <2>2, <3>1 DEF CancelList
  <2>5. act'[a].kind = "cancel" /\ act'[a].pc = "abort" /\ act'[a].todo = q
    BY <2>1, <2>4 DEF Activation
  <2>6. Proper(act'[a]) /\ Stands(act[a])'
    BY <2>3, <2>5 DEF Proper, Stands
  <2> QED BY <1>2, <1>4, <2>5, <2>6
<1>6. CASE /\ store[t].status \notin Active
           /\ act' = [act EXCEPT ![a] = Activation("waive", "waive", t, store[t])]
  <2>1. act'[a].kind = "waive" /\ act'[a].pc = "waive" /\ act'[a].t = t
    BY <1>2, <1>6 DEF Activation
  <2>2. store'[t].status \in Terminal
    BY <1>1, <1>2, <1>6 DEF Store, Record, Present, Stored, Active, Terminal
  <2>3. Proper(act'[a]) /\ Stands(act[a])'
    BY <2>1, <2>2 DEF Proper, Stands
  <2> QED BY <1>2, <1>4, <2>1, <2>3
<1> QED BY <1>2, <1>5, <1>6 DEF Cancel

(* Steps that no activation takes.                                         *)
LEMMA Apart ==
  ASSUME Inv, PassesAsked, Attended, Good(Promoter), UNCHANGED <<store, act, passes>>, TurnsEnd
  PROVE  Attended'
<1>1. Promoter \in Actors /\ ~Changes
  BY DEF Actors, Changes, Kept
<1>2. Proper(act'[Promoter]) /\ Stands(act[Promoter])'
  BY <1>1 DEF Attended, Stands
<1>3. Serves(Promoter)
  BY <1>1, <1>2 DEF Serves
<1> QED BY <1>1, <1>3, ServesKeeps

LEMMA SessionEndsKeeps ==
  ASSUME Inv, PassesAsked, Attended, NEW c \in Children, SessionEnds(c)
  PROVE  Attended'
<1>1. Good(Promoter) /\ UNCHANGED <<store, act, passes>>
  BY SessionEndsIsGood DEF SessionEnds
<1>2. session \in [Children -> {"unused", "created", "busy", "idle", "error"}]
  BY DEF Inv, TypeOK
<1>3. TurnsEnd
  <2>1. session[c] = "busy" /\ session'[c] # "busy" /\ \A d \in Children : d # c => session'[d] = session[d]
    BY <1>2 DEF SessionEnds
  <2>2. \A d \in Children : <<"idle", d>> \in owed' => <<"idle", d>> \in owed \/ d = c
    BY DEF SessionEnds
  <2> QED BY <2>1, <2>2 DEF TurnsEnd
<1> QED BY <1>1, <1>3, Apart

-----------------------------------------------------------------------------
(* The steps of a pass.                                                    *)
LEMMA Passing ==
  ASSUME Inv, PassesAsked, Attended, act[Promoter].pc # "idle"
  PROVE  /\ Promoter \in Actors /\ act \in [Actors -> {Idle} \cup Activations]
         /\ act[Promoter] \in Activations /\ act[Promoter] # Idle
         /\ act[Promoter].kind = "pass" /\ act[Promoter].pc \in PassPcs
         /\ act[Promoter].todo # <<>> /\ act[Promoter].t \in Tasks
         /\ act[Promoter].t = act[Promoter].todo[1].t
         /\ Listed(act[Promoter]) /\ store \in Store
<1>1. Promoter \in Actors
  BY DEF Actors
<1>2. /\ act[Promoter] \in Activations /\ Ready(Promoter, act[Promoter], merged) /\ act[Promoter] # Idle
      /\ act[Promoter].t \in Tasks /\ store \in Store /\ act \in [Actors -> {Idle} \cup Activations]
  BY <1>1, Busy
<1>3. Listed(act[Promoter])
  BY DEF Attended
<1> QED BY <1>1, <1>2, <1>3 DEF Ready, Listed

(* A record is a background record of an active task after the step only   *)
(* when it was one before.                                                 *)
LEMMA ActiveBefore ==
  ASSUME Inv, PassesAsked, Good(Promoter), NEW t \in Tasks, Present(store', t) => Present(store, t),
         store'[t].bg, store'[t].status \in Active
  PROVE  /\ Present(store, t) /\ store[t].bg /\ store[t].status \in Active
         /\ store'[t].child = store[t].child
<1>1. Present(store, t)
  BY DEF Present, Active
<1>2. /\ store[t] \in Record /\ store[t].bg /\ store'[t].child = store[t].child
      /\ store[t].status \in Terminal => store'[t].status = store[t].status
  BY <1>1, RecordIs
<1>3. store[t].status \in Stored
  BY <1>1, <1>2 DEF Record, Present
<1>4. store[t].status \notin Terminal
  BY <1>2 DEF Active, Terminal
<1>5. store[t].status \in Active
  BY <1>3, <1>4 DEF Stored, Terminal, Active
<1> QED BY <1>1, <1>2, <1>5

(* The promoter never handles an event.                                    *)
LEMMA NotDeciding ==
  ASSUME Inv, PassesAsked, Attended, Good(Promoter), act'[Promoter] = Idle \/ act'[Promoter].kind = "pass"
  PROVE  \A b \in Actors, t \in Tasks : Decides(act'[b], t) <=> Decides(act[b], t)
<1>1. Promoter \in Actors
  BY DEF Actors
<1>2. \A b \in Actors : b # Promoter => act'[b] = act[b]
  BY <1>1, Others
<1>3. \A t \in Tasks : ~Decides(act[Promoter], t)
  <2>1. act[Promoter] = Idle \/ act[Promoter].kind = "pass"
    BY <1>1 DEF Inv, AllReady, Ready
  <2> QED BY <2>1 DEF Decides, Idle, Deciding, MergePcs
<1>4. \A t \in Tasks : ~Decides(act'[Promoter], t)
  BY DEF Decides, Idle, Deciding, MergePcs
<1> QED BY <1>2, <1>3, <1>4

LEMMA PassTurns ==
  ASSUME Inv, PassesAsked, Attended, Good(Promoter), UNCHANGED runtime,
         act'[Promoter] = Idle \/ act'[Promoter].kind = "pass",
         \A t \in Tasks : Present(store', t) => Present(store, t),
         \A t \in Tasks : store'[t].bg /\ store'[t].status \in {"queued", "blocked"} => Kept(t),
         \A t \in Tasks : At(Promoter, "launched") /\ act[Promoter].t = t =>
           store'[t].status \notin {"queued", "blocked"}
  PROVE  Turns'
<1> SUFFICES ASSUME NEW t \in Tasks, store'[t].bg, store'[t].status \in Active
             PROVE  Turn(t)'
  BY DEF Turns
<1>1. /\ Present(store, t) /\ store[t].bg /\ store[t].status \in Active
      /\ store'[t].child = store[t].child
  BY ActiveBefore
<1>2. Turn(t)
  BY <1>1 DEF Attended, Turns
<1>3. \A b \in Actors : Decides(act'[b], t) <=> Decides(act[b], t)
  BY NotDeciding
<1>4. UNCHANGED <<session, owed>>
  BY DEF runtime
<1>5. ASSUME store'[t].status # "running"
      PROVE  /\ \A b \in Actors : ~Decides(act[b], t)
             /\ ~(session[store[t].child] = "busy" \/ <<"idle", store[t].child>> \in owed)
  <2>1. store'[t].status \in {"queued", "blocked"}
    BY <1>5 DEF Active
  <2>2. store[t].status # "running"
    BY <1>5, <2>1 DEF Kept
  <2>3. ~(At(Promoter, "launched") /\ act[Promoter].t = t)
    BY <2>1
  <2> QED BY <1>2, <2>2, <2>3 DEF Turn
<1> QED BY <1>1, <1>2, <1>3, <1>4, <1>5 DEF Turn

(* What a step of a pass leaves to be shown.                               *)
LEMMA PassKeeps ==
  ASSUME Inv, PassesAsked, Attended, Good(Promoter), UNCHANGED owed,
         act'[Promoter] = Idle \/ (act'[Promoter].kind = "pass" /\ act'[Promoter].pc \in PassPcs),
         \A t \in Tasks : Present(store', t) => Present(store, t),
         Turns', Listed(act[Promoter])', (Asked \/ Seen(act[Promoter]))'
  PROVE  Attended'
<1>0. Promoter \in Actors
  BY DEF Actors
<1>1. \A t \in Tasks : Present(store', t) => store'[t].deps = {}
  BY RecordIs DEF Attended
<1>2. \A c \in Children : <<"idle", c>> \in owed' => session'[c] # "unused"
  BY DEF Attended, Good, Surroundings
<1>3. Proper(act'[Promoter]) /\ Stands(act[Promoter])'
  BY DEF Proper, Stands, PassPcs
<1>4. \A b \in Actors : Proper(act'[b]) /\ Stands(act[b])'
  BY <1>0, <1>3, StandsKept DEF Attended
<1> QED BY <1>1, <1>2, <1>4 DEF Attended

LEMMA StillAsked ==
  ASSUME Good(Promoter), UNCHANGED passes
  PROVE  Asked' <=> Asked
<1>1. \A b \in Actors : b # Promoter => act'[b] = act[b]
  BY Others DEF Actors
<1> QED BY <1>1 DEF Asked

(* A pass goes on with a part of its list.                                 *)
LEMMA PassSees ==
  ASSUME Inv, PassesAsked, Attended, Good(Promoter), UNCHANGED passes,
         \A t \in Tasks : store'[t].bg /\ store'[t].status \in {"queued", "blocked"} => Kept(t),
         \A t \in Tasks : store[t].status = "running" => store'[t].status = "running",
         Pending(act'[Promoter]) \subseteq Pending(act[Promoter]),
         \A t \in Pending(act'[Promoter]) : store'[t].status = store[t].status,
         \A t \in Pending(act[Promoter]) \ Pending(act'[Promoter]) : ~Waits(t)'
  PROVE  (Asked \/ Seen(act[Promoter]))'
<1> SUFFICES ASSUME ~Asked'
             PROVE  Seen(act[Promoter])'
  OBVIOUS
<1>1. Seen(act[Promoter])
  BY StillAsked DEF Attended
<1>2. Pending(act[Promoter])' = Pending(act'[Promoter])
  BY DEF Pending, Untried, Places
<1>3. \A t \in Pending(act'[Promoter]) : store'[t].status \notin Terminal
  BY <1>1 DEF Seen
<1>4. \A k : HasRoom(k)' => HasRoom(k)
  <2> SUFFICES ASSUME NEW k, HasRoom(k)'
               PROVE  HasRoom(k)
    OBVIOUS
  <2>1. Running(k) \subseteq Running(k)'
    <3> SUFFICES ASSUME NEW t \in Tasks, store[t].bg, store[t].status = "running", store[t].key = k
                 PROVE  store'[t].bg /\ store'[t].status = "running" /\ store'[t].key = k
      BY DEF Running
    <3>1. Present(store, t)
      BY DEF Present
    <3> QED BY <3>1, RecordIs, DelegationAssumption DEF Actors
  <2>2. Running(k)' \in SUBSET Tasks
    BY DEF Running
  <2>3. PICK R, T \in SUBSET Tasks : R = Running(k) /\ T = Running(k)'
    BY <2>1, <2>2
  <2>4. /\ Cardinality(R) <= Cardinality(T) /\ Cardinality(R) \in Nat /\ Cardinality(T) \in Nat
    BY <2>1, <2>3, Sizes
  <2>5. Cardinality(T) < MaxRunning
    BY <2>3 DEF HasRoom
  <2>6. Cardinality(R) < MaxRunning
    BY <2>4, <2>5, DelegationAssumption
  <2> QED BY <2>3, <2>6 DEF HasRoom
<1>5. ASSUME NEW t \in Tasks, Waits(t)'
      PROVE  t \in Pending(act'[Promoter])
  <2>0. unlisted' = unlisted
    <3>1. passes = 0
      BY DEF Asked, Good, Surroundings, Base
    <3> QED BY <3>1 DEF Good, Surroundings
  <2>1. store'[t].bg /\ Promotable(t)' /\ HasRoom(store[t].key)' /\ t \notin unlisted
    BY <1>5, <2>0 DEF Waits
  <2>2. Kept(t)
    BY <2>1 DEF Promotable
  <2>3. Promotable(t)
    BY <2>1, <2>2, KeptPromotable
  <2>4. Present(store, t)
    BY <2>3 DEF Promotable, Present
  <2>5. store[t].bg /\ store'[t].key = store[t].key
    BY <2>1, <2>4, RecordIs
  <2>6. HasRoom(store[t].key)
    <3>1. PICK k : k = store[t].key
      OBVIOUS
    <3>2. HasRoom(k)'
      BY <2>1, <2>5, <3>1 DEF HasRoom
    <3> QED BY <1>4, <3>1, <3>2
  <2>7. t \in Pending(act[Promoter])
    BY <1>1, <2>1, <2>3, <2>5, <2>6 DEF Seen, Waits
  <2> QED BY <1>5, <2>7
<1> QED BY <1>2, <1>3, <1>5 DEF Seen

(* The list without its first task.                                        *)
LEMMA Tails ==
  ASSUME NEW S, NEW q \in Seq(S), q # <<>>, Len(q) # 1
  PROVE  /\ Len(q) \in Nat /\ Len(q) >= 2 /\ Len(Tail(q)) = Len(q) - 1
         /\ \A i \in 1..(Len(q) - 1) : Tail(q)[i] = q[i + 1]
<1>1. Len(q) \in Nat /\ Len(q) # 0
  OBVIOUS
<1>2. Len(q) >= 2
  <2>1. PICK n \in Nat : n = Len(q)
    BY <1>1
  <2>2. n # 0 /\ n # 1
    BY <1>1, <2>1
  <2> QED BY <2>1, <2>2
<1>3. Len(Tail(q)) = Len(q) - 1
  BY <1>1, <1>2
<1> QED BY <1>1, <1>2, <1>3

LEMMA Shifts ==
  ASSUME Inv, PassesAsked, Attended, act[Promoter].pc # "idle", AfterFollow(Promoter)
  PROVE  /\ UNCHANGED passes
         /\ act'[Promoter] = Idle \/ (act'[Promoter].kind = "pass" /\ act'[Promoter].pc = "count")
         /\ Pending(act'[Promoter]) \subseteq Pending(act[Promoter])
         /\ act[Promoter].t \notin Pending(act'[Promoter])
         /\ \A t \in Pending(act[Promoter]) : t \in Pending(act'[Promoter]) \/ t = act[Promoter].t
         /\ act'[Promoter] # Idle =>
              /\ act'[Promoter].t = act'[Promoter].todo[1].t
              /\ \A i, j \in 1..Len(act'[Promoter].todo) :
                   act'[Promoter].todo[i].t = act'[Promoter].todo[j].t => i = j
<1>1. /\ act \in [Actors -> {Idle} \cup Activations] /\ Promoter \in Actors
      /\ act[Promoter] \in Activations /\ act[Promoter] # Idle /\ act[Promoter].todo # <<>>
      /\ act[Promoter].t = act[Promoter].todo[1].t /\ Listed(act[Promoter])
  BY Passing
<1>2. PICK q : q = act[Promoter].todo
  OBVIOUS
<1>3. \A i, j \in 1..Len(q) : q[i].t = q[j].t => i = j
  BY <1>1, <1>2 DEF Listed
<1>4. PICK S : q \in Seq(S) /\ q # <<>>
  BY <1>1, <1>2, Fields
<1>5. \A t : t \in Pending(act[Promoter]) <=>
        \E i \in 1..Len(q) : t = q[i].t /\ (i > 1 \/ act[Promoter].pc \notin FollowPcs)
  BY <1>1, <1>2 DEF Pending, Untried, Places
<1>6. CASE Len(q) = 1
  <2>1. act'[Promoter] = Idle /\ UNCHANGED passes
    BY <1>1, <1>2, <1>6 DEF AfterFollow
  <2>2. Pending(act'[Promoter]) = {}
    BY <2>1 DEF Pending, Untried, Places
  <2>3. \A t \in Pending(act[Promoter]) : t = act[Promoter].t
    <3>1. \A i \in 1..Len(q) : i = 1
      BY <1>6
    <3> QED BY <1>1, <1>2, <1>5, <3>1
  <2> QED BY <2>1, <2>2, <2>3
<1>7. CASE Len(q) # 1
  <2>1. PICK p : p = Tail(q)
    OBVIOUS
  <2>2. /\ Len(q) \in Nat /\ Len(q) >= 2 /\ Len(p) = Len(q) - 1
        /\ \A i \in 1..(Len(q) - 1) : p[i] = q[i + 1]
    BY <1>4, <1>7, <2>1, Tails
  <2>3. PICK n \in Nat : n = Len(q) /\ n >= 2
    BY <2>2
  <2>4. PICK x : x = Activation("pass", "count", q[2].t, q[2].rec)
    OBVIOUS
  <2>5. act'[Promoter] = [x EXCEPT !.todo = p] /\ UNCHANGED passes
    BY <1>1, <1>2, <1>7, <2>1, <2>4 DEF AfterFollow
  <2>6. PICK y : y = act'[Promoter]
    OBVIOUS
  <2>7. y.pc = "count" /\ y.kind = "pass" /\ y.t = q[2].t /\ y.todo = p /\ y # Idle
    <3>1. y.pc = "count" /\ y.kind = "pass" /\ y.t = q[2].t /\ y.todo = p
      BY <2>4, <2>5, <2>6 DEF Activation
    <3> QED BY <3>1 DEF Idle
  <2>8. \A t : t \in Pending(y) <=> \E i \in 1..(n - 1) : t = q[i + 1].t
    <3>1. \A t : t \in Pending(y) <=> \E i \in 1..Len(p) : t = p[i].t
      BY <2>7 DEF Pending, Untried, Places, FollowPcs
    <3>2. Len(p) = n - 1
      BY <2>2, <2>3
    <3>3. \A i \in 1..(n - 1) : p[i].t = q[i + 1].t
      BY <2>2, <2>3
    <3>4. \A t : t \in Pending(y) <=> \E i \in 1..(n - 1) : t = p[i].t
      BY <3>1, <3>2
    <3> QED BY <3>3, <3>4
  <2>9. \A i \in 1..(n - 1) : i + 1 \in 1..n /\ i + 1 > 1 /\ i + 1 # 1
    BY <2>3
  <2>10. \A i \in 1..n : i = 1 \/ (i - 1 \in 1..(n - 1) /\ (i - 1) + 1 = i)
    BY <2>3
  <2>11. Pending(y) \subseteq Pending(act[Promoter])
    BY <1>5, <2>3, <2>8, <2>9
  <2>12. q[1].t \notin Pending(y)
    <3>1. 1 \in 1..n
      BY <2>3
    <3> QED BY <1>3, <2>3, <2>8, <2>9, <3>1
  <2>13. \A t \in Pending(act[Promoter]) : t \in Pending(y) \/ t = q[1].t
    BY <1>5, <2>3, <2>8, <2>10
  <2>14. y.t = y.todo[1].t
    <3>1. 1 \in 1..(n - 1)
      BY <2>3
    <3> QED BY <2>2, <2>3, <2>7, <3>1
  <2>15. \A i, j \in 1..Len(y.todo) : y.todo[i].t = y.todo[j].t => i = j
    <3> SUFFICES ASSUME NEW i \in 1..(n - 1), NEW j \in 1..(n - 1), p[i].t = p[j].t
                 PROVE  i = j
      BY <2>2, <2>3, <2>7
    <3>1. q[i + 1].t = q[j + 1].t
      BY <2>2, <2>3
    <3>2. i + 1 = j + 1
      BY <1>3, <2>3, <2>9, <3>1
    <3> QED BY <3>2
  <2> QED BY <1>1, <1>2, <2>5, <2>6, <2>7, <2>11, <2>12, <2>13, <2>14, <2>15
<1> QED BY <1>6, <1>7

(* The pass goes on, or is at its end, after the task it was at.           *)
LEMMA GoesToNext ==
  ASSUME Inv, PassesAsked, Attended, act[Promoter].pc # "idle", Good(Promoter), UNCHANGED runtime,
         AfterFollow(Promoter),
         \A u \in Tasks : u # act[Promoter].t => store'[u] = store[u],
         store'[act[Promoter].t] = store[act[Promoter].t] \/
           (/\ Present(store, act[Promoter].t)
            /\ store'[act[Promoter].t].status \in Terminal \cup {"running"}),
         store[act[Promoter].t].status = "running" => store'[act[Promoter].t].status = "running",
         \A t \in Pending(act[Promoter]) : t = act[Promoter].t => ~Waits(t)',
         At(Promoter, "launched") => store'[act[Promoter].t].status \notin {"queued", "blocked"}
  PROVE  Attended'
<1>1. /\ Promoter \in Actors /\ act[Promoter].t \in Tasks /\ Listed(act[Promoter])
  BY Passing
<1>2. /\ UNCHANGED passes
      /\ act'[Promoter] = Idle \/ (act'[Promoter].kind = "pass" /\ act'[Promoter].pc = "count")
      /\ Pending(act'[Promoter]) \subseteq Pending(act[Promoter])
      /\ act[Promoter].t \notin Pending(act'[Promoter])
      /\ \A t \in Pending(act[Promoter]) : t \in Pending(act'[Promoter]) \/ t = act[Promoter].t
      /\ act'[Promoter] # Idle =>
           /\ act'[Promoter].t = act'[Promoter].todo[1].t
           /\ \A i, j \in 1..Len(act'[Promoter].todo) :
                act'[Promoter].todo[i].t = act'[Promoter].todo[j].t => i = j
  BY Shifts
<1>3. \A t \in Tasks : Present(store', t) => Present(store, t)
  BY <1>1 DEF Present
<1>4. \A t \in Tasks : store'[t].bg /\ store'[t].status \in {"queued", "blocked"} => Kept(t)
  BY <1>1 DEF Kept, Terminal
<1>5. Pending(act[Promoter]) \subseteq Tasks
  BY PendingTasks
<1>6. Turns'
  BY <1>2, <1>3, <1>4, PassTurns
<1>7. \A t \in Pending(act'[Promoter]) : t \in Tasks /\ store'[t] = store[t]
  BY <1>2, <1>5
<1>8. Listed(act[Promoter])'
  <2>1. \A t \in Pending(act'[Promoter]) : Present(store, t) /\ store[t].bg /\ store[t].status # "running"
    <3>1. act[Promoter] # Idle
      BY Passing
    <3> QED BY <1>1, <1>2, <3>1 DEF Listed
  <2>2. \A t \in Pending(act'[Promoter]) : Present(store', t) /\ store'[t].bg /\ store'[t].status # "running"
    BY <1>7, <2>1 DEF Present
  <2>3. Pending(act[Promoter])' = Pending(act'[Promoter])
    BY DEF Pending, Untried, Places
  <2>4. act'[Promoter] # Idle => act'[Promoter].pc \notin FollowPcs
    BY <1>2 DEF FollowPcs
  <2> QED BY <1>2, <2>2, <2>3, <2>4 DEF Listed
<1>9. (Asked \/ Seen(act[Promoter]))'
  <2>1. \A t \in Tasks : store[t].status = "running" => store'[t].status = "running"
    BY <1>1
  <2>2. \A t \in Pending(act[Promoter]) \ Pending(act'[Promoter]) : ~Waits(t)'
    BY <1>2
  <2> QED BY <1>2, <1>4, <1>7, <2>1, <2>2, PassSees
<1>10. act'[Promoter] = Idle \/ (act'[Promoter].kind = "pass" /\ act'[Promoter].pc \in PassPcs)
  BY <1>2 DEF PassPcs
<1> QED BY <1>3, <1>6, <1>8, <1>9, <1>10, PassKeeps DEF runtime

(* The pass goes on with the task it is at, in the same list.              *)
LEMMA StaysAt ==
  ASSUME Inv, PassesAsked, Attended, act[Promoter].pc # "idle", Good(Promoter),
         UNCHANGED <<owed, passes>>, Turns',
         \A u \in Tasks : u # act[Promoter].t => store'[u] = store[u],
         store'[act[Promoter].t].status = store[act[Promoter].t].status
           \/ store'[act[Promoter].t].status \in Terminal,
         Present(store, act[Promoter].t),
         store[act[Promoter].t].status = "running" => store'[act[Promoter].t].status = "running",
         store'[act[Promoter].t].bg /\ store'[act[Promoter].t].status \in {"queued", "blocked"} => Kept(act[Promoter].t),
         act'[Promoter].kind = "pass", act'[Promoter].pc \in PassPcs, act'[Promoter] # Idle,
         act'[Promoter].t = act[Promoter].t, act'[Promoter].todo = act[Promoter].todo,
         act[Promoter].pc \in FollowPcs => act'[Promoter].pc \in FollowPcs,
         act'[Promoter].pc \in FollowPcs => store'[act[Promoter].t].status \in Terminal,
         act'[Promoter].pc \notin FollowPcs => store'[act[Promoter].t].status = store[act[Promoter].t].status
  PROVE  Attended'
<1>1. /\ Promoter \in Actors /\ act[Promoter].t \in Tasks /\ Listed(act[Promoter])
      /\ act[Promoter].t = act[Promoter].todo[1].t /\ act[Promoter] # Idle
  BY Passing
<1>2. Pending(act[Promoter]) \subseteq Tasks
  BY PendingTasks
<1>3. /\ Pending(act'[Promoter]) \subseteq Pending(act[Promoter])
      /\ \A t \in Pending(act[Promoter]) \ Pending(act'[Promoter]) :
            t = act[Promoter].t /\ act'[Promoter].pc \in FollowPcs
      /\ act'[Promoter].pc \in FollowPcs => act[Promoter].t \notin Pending(act'[Promoter])
  <2>1. PICK q : q = act[Promoter].todo
    OBVIOUS
  <2>2. \A t : t \in Pending(act[Promoter]) <=>
          \E i \in 1..Len(q) : t = q[i].t /\ (i > 1 \/ act[Promoter].pc \notin FollowPcs)
    BY <1>1, <2>1 DEF Pending, Untried, Places
  <2>3. \A t : t \in Pending(act'[Promoter]) <=>
          \E i \in 1..Len(q) : t = q[i].t /\ (i > 1 \/ act'[Promoter].pc \notin FollowPcs)
    BY <2>1 DEF Pending, Untried, Places
  <2>4. \A i \in 1..Len(q) : i > 1 \/ i = 1
    OBVIOUS
  <2>5. Pending(act'[Promoter]) \subseteq Pending(act[Promoter])
    BY <2>2, <2>3
  <2>6. ASSUME NEW t \in Pending(act[Promoter]) \ Pending(act'[Promoter])
        PROVE  t = act[Promoter].t /\ act'[Promoter].pc \in FollowPcs
    <3>1. PICK i \in 1..Len(q) : t = q[i].t
      BY <2>2
    <3>2. ~(i > 1) /\ act'[Promoter].pc \in FollowPcs
      BY <2>3, <2>6, <3>1
    <3> QED BY <1>1, <2>1, <2>4, <3>1, <3>2
  <2>7. ASSUME act'[Promoter].pc \in FollowPcs, act[Promoter].t \in Pending(act'[Promoter])
        PROVE  FALSE
    <3>1. PICK i \in 1..Len(q) : q[1].t = q[i].t /\ i > 1
      BY <1>1, <2>1, <2>3, <2>7
    <3>2. 1 \in 1..Len(q)
      <4>1. act[Promoter].todo \in Seq([t : Tasks, rec : Record]) /\ act[Promoter].todo # <<>>
        BY Passing, Fields
      <4>2. PICK S : q \in Seq(S) /\ q # <<>>
        BY <2>1, <4>1
      <4> QED BY <4>2
    <3>3. i = 1
      BY <1>1, <2>1, <3>1, <3>2 DEF Listed
    <3> QED BY <3>1, <3>3
  <2> QED BY <2>5, <2>6, <2>7
<1>4. \A t \in Tasks : Present(store', t) => Present(store, t)
  BY <1>1 DEF Present
<1>5. \A t \in Pending(act'[Promoter]) : t \in Tasks /\ store'[t].status = store[t].status
  BY <1>2, <1>3
<1>6. Listed(act[Promoter])'
  <2>1. \A t \in Pending(act'[Promoter]) : Present(store, t) /\ store[t].bg /\ store[t].status # "running"
    BY <1>1, <1>3 DEF Listed
  <2>2. \A t \in Pending(act'[Promoter]) : Present(store', t) /\ store'[t].bg /\ store'[t].status # "running"
    BY <1>5, <2>1, RecordIs, <1>1 DEF Present
  <2>3. Pending(act[Promoter])' = Pending(act'[Promoter])
    BY DEF Pending, Untried, Places
  <2>4. \A i, j \in 1..Len(act'[Promoter].todo) :
          act'[Promoter].todo[i].t = act'[Promoter].todo[j].t => i = j
    BY <1>1 DEF Listed
  <2>5. act'[Promoter].t = act'[Promoter].todo[1].t
    BY <1>1
  <2> QED BY <2>2, <2>3, <2>4, <2>5 DEF Listed
<1>7. (Asked \/ Seen(act[Promoter]))'
  <2>1. \A t \in Tasks : store[t].status = "running" => store'[t].status = "running"
    BY <1>1
  <2>2. \A t \in Tasks : store'[t].bg /\ store'[t].status \in {"queued", "blocked"} => Kept(t)
    BY <1>1 DEF Kept
  <2>3. \A t \in Pending(act[Promoter]) \ Pending(act'[Promoter]) : ~Waits(t)'
    <3>1. \A t \in Pending(act[Promoter]) \ Pending(act'[Promoter]) : store'[t].status \in Terminal
      BY <1>3
    <3>2. \A t : Waits(t)' => store'[t].status \notin Terminal
      BY DEF Waits, Promotable, Terminal
    <3> QED BY <3>1, <3>2
  <2> QED BY <1>3, <1>5, <2>1, <2>2, <2>3, PassSees
<1> QED BY <1>4, <1>6, <1>7, PassKeeps

LEMMA Refused ==
  ASSUME store \in Store, act[Promoter].t \in Tasks, Present(store, act[Promoter].t),
         NEW s \in {"running", "failed"}, ~CanMove(Promoter, s)
  PROVE  store[act[Promoter].t].status \in Terminal
<1>1. store[act[Promoter].t].status \in Stored
  BY DEF Store, Record, Present
<1>2. ~TransitionAllowed(store[act[Promoter].t].status, s)
  BY DEF CanMove, TransitionAccepted
<1> QED BY <1>1, <1>2 DEF TransitionAllowed, ValidTransitions, Stored, Terminal

LEMMA PassFollows ==
  ASSUME Inv, PassesAsked, Attended, act[Promoter].pc \in FollowPcs, Good(Promoter), UNCHANGED runtime,
         \A u \in Tasks : u # act[Promoter].t => store'[u] = store[u],
         store'[act[Promoter].t].status = store[act[Promoter].t].status,
         \/ AfterFollow(Promoter)
         \/ /\ act'[Promoter].pc \in FollowPcs /\ act'[Promoter].t = act[Promoter].t
            /\ act'[Promoter].kind = act[Promoter].kind /\ act'[Promoter].todo = act[Promoter].todo
            /\ act'[Promoter] # Idle /\ UNCHANGED passes
  PROVE  Attended'
<1>1. act[Promoter].pc # "idle"
  BY DEF FollowPcs
<1>2. /\ Listed(act[Promoter]) /\ act[Promoter] # Idle /\ act[Promoter].t \in Tasks
      /\ act[Promoter].kind = "pass"
  BY <1>1, Passing
<1>3. /\ store[act[Promoter].t].status \in Terminal /\ store'[act[Promoter].t].status \in Terminal
      /\ Present(store, act[Promoter].t)
  BY <1>2 DEF Listed, Present, Terminal
<1>4. /\ store'[act[Promoter].t].status \notin {"queued", "blocked"}
      /\ \A t \in Pending(act[Promoter]) : t = act[Promoter].t => ~Waits(t)'
  <2>1. \A t : Waits(t)' => store'[t].status \in {"queued", "blocked"}
    BY DEF Waits, Promotable
  <2> QED BY <1>3, <2>1 DEF Terminal
<1>5. CASE AfterFollow(Promoter)
  BY <1>1, <1>3, <1>4, <1>5, GoesToNext
<1>6. CASE /\ act'[Promoter].pc \in FollowPcs /\ act'[Promoter].t = act[Promoter].t
           /\ act'[Promoter].kind = act[Promoter].kind /\ act'[Promoter].todo = act[Promoter].todo
           /\ act'[Promoter] # Idle /\ UNCHANGED passes
  <2>1. Turns'
    <3>1. \A t \in Tasks : Present(store', t) => Present(store, t)
      BY <1>3 DEF Present
    <3>2. \A t \in Tasks : store'[t].bg /\ store'[t].status \in {"queued", "blocked"} => Kept(t)
      BY <1>4 DEF Kept
    <3> QED BY <1>2, <1>4, <1>6, <3>1, <3>2, PassTurns
  <2>2. act'[Promoter].pc \in PassPcs
    BY <1>6 DEF FollowPcs, PassPcs
  <2> QED BY <1>1, <1>2, <1>3, <1>4, <1>6, <2>1, <2>2, StaysAt DEF runtime
<1> QED BY <1>5, <1>6

LEMMA FollowKeeps ==
  ASSUME Inv, PassesAsked, Attended, FollowThrough(Promoter)
  PROVE  Attended'
<1>1. Good(Promoter)
  BY FollowIsGood, ReadModeIsGood, TellRootIsGood, FollowedIsGood DEF FollowThrough, Actors
<1>2. act[Promoter].pc \in FollowPcs /\ act[Promoter].pc # "idle" /\ UNCHANGED runtime
  BY DEF FollowThrough, Follow, ReadMode, TellRoot, Followed, At, FollowPcs
<1>3. /\ act \in [Actors -> {Idle} \cup Activations] /\ Promoter \in Actors
      /\ act[Promoter] \in Activations /\ act[Promoter].t \in Tasks /\ store \in Store
  BY <1>2, Passing
<1>4. /\ \A u \in Tasks : u # act[Promoter].t => store'[u] = store[u]
      /\ store'[act[Promoter].t].status = store[act[Promoter].t].status
  <2>1. UNCHANGED store \/ \E e : SetExec(act[Promoter].t, e)
    BY DEF FollowThrough, Follow, ReadMode, TellRoot, Followed, SetFollowThrough
  <2>2. CASE UNCHANGED store
    BY <2>2, NothingWritten
  <2>3. CASE \E e : SetExec(act[Promoter].t, e)
    <3>1. PICK e : SetExec(act[Promoter].t, e)
      BY <2>3
    <3> QED BY <1>3, <3>1, WritesExec
  <2> QED BY <2>1, <2>2, <2>3
<1>5. ASSUME NEW pc \in FollowPcs, NEW x \in Activations,
             act'[Promoter] = x, x.pc = pc, x.t = act[Promoter].t, x.kind = act[Promoter].kind,
             x.todo = act[Promoter].todo, UNCHANGED passes
      PROVE  Attended'
  <2>1. x # Idle
    BY Fields
  <2> QED BY <1>1, <1>2, <1>4, <1>5, <2>1, PassFollows
<1>6. ASSUME NEW pc \in FollowPcs, NEW out, UNCHANGED passes,
             \/ act' = [act EXCEPT ![Promoter].out = out, ![Promoter].pc = pc]
             \/ act' = [act EXCEPT ![Promoter].pc = pc]
      PROVE  Attended'
  <2>1. \/ act'[Promoter] = [[act[Promoter] EXCEPT !.out = out] EXCEPT !.pc = pc]
        \/ act'[Promoter] = [act[Promoter] EXCEPT !.pc = pc]
    BY <1>3, <1>6
  <2>2. /\ act'[Promoter].pc = pc /\ act'[Promoter].t = act[Promoter].t
        /\ act'[Promoter].kind = act[Promoter].kind /\ act'[Promoter].todo = act[Promoter].todo
    BY <1>3, <2>1 DEF Activations
  <2>3. act'[Promoter] # Idle
    BY <2>2 DEF FollowPcs, Idle
  <2> QED BY <1>1, <1>2, <1>4, <1>6, <2>2, <2>3, PassFollows
<1>7. CASE Follow(Promoter)
  <2>1. CASE AfterFollow(Promoter)
    BY <1>1, <1>2, <1>4, <2>1, PassFollows
  <2>2. CASE Go(Promoter, "mode", store'[act[Promoter].t]) /\ UNCHANGED passes
    <3>1. PICK rec : rec = store'[act[Promoter].t]
      OBVIOUS
    <3>2. Go(Promoter, "mode", rec) /\ "mode" \in Pcs /\ "mode" \in FollowPcs
      BY <2>2, <3>1 DEF Pcs, FollowPcs
    <3>3. /\ act'[Promoter].pc = "mode" /\ act'[Promoter].kind = act[Promoter].kind
          /\ act'[Promoter].t = act[Promoter].t
          /\ act'[Promoter].todo = act[Promoter].todo /\ act'[Promoter] # Idle
      BY <1>3, <3>2, GoIs
    <3> QED BY <1>1, <1>2, <1>4, <2>2, <3>2, <3>3, PassFollows
  <2> QED BY <1>7, <2>1, <2>2 DEF Follow
<1>8. CASE ReadMode(Promoter)
  <2>1. "followed" \in FollowPcs /\ "tell" \in FollowPcs /\ UNCHANGED passes
    BY <1>8 DEF FollowPcs, ReadMode
  <2>2. \/ act' = [act EXCEPT ![Promoter].out = "pending", ![Promoter].pc = "followed"]
        \/ act' = [act EXCEPT ![Promoter].pc = "tell"]
    BY <1>8 DEF ReadMode
  <2> QED BY <1>6, <2>1, <2>2
<1>9. CASE TellRoot(Promoter)
  <2>1. "followed" \in FollowPcs /\ UNCHANGED passes
    BY <1>9 DEF FollowPcs, TellRoot
  <2>2. PICK out : act' = [act EXCEPT ![Promoter].out = out, ![Promoter].pc = "followed"]
    BY <1>9, NoContinuing DEF TellRoot
  <2> QED BY <1>6, <2>1, <2>2
<1>10. CASE Followed(Promoter)
  <2>1. AfterFollow(Promoter)
    BY <1>10 DEF Followed
  <2> QED BY <1>1, <1>2, <1>4, <2>1, PassFollows
<1> QED BY <1>7, <1>8, <1>9, <1>10 DEF FollowThrough

(* The task a pass is at, when it has not been decided on.                 *)
LEMMA AtHead ==
  ASSUME Inv, PassesAsked, Attended, act[Promoter].pc \in {"count", "launched", "unlaunched"}
  PROVE  /\ act[Promoter].t \in Pending(act[Promoter])
         /\ Present(store, act[Promoter].t) /\ store[act[Promoter].t].bg
         /\ store[act[Promoter].t].status # "running"
         /\ Head(act[Promoter].todo).t = act[Promoter].t
         /\ Head(act[Promoter].todo).rec.child = store[act[Promoter].t].child
         /\ Head(act[Promoter].todo).rec.key = store[act[Promoter].t].key
         /\ \A u \in Tasks : Present(store, u) /\ store[u].child = store[act[Promoter].t].child
              => u = act[Promoter].t
<1>1. act[Promoter].pc # "idle" /\ act[Promoter].pc \notin FollowPcs
  BY DEF FollowPcs
<1>2. /\ act[Promoter] # Idle /\ act[Promoter].todo # <<>> /\ act[Promoter] \in Activations
      /\ act[Promoter].t = act[Promoter].todo[1].t /\ Listed(act[Promoter]) /\ Promoter \in Actors
  BY <1>1, Passing
<1>3. /\ 1 \in 1..Len(act[Promoter].todo) /\ Head(act[Promoter].todo) = act[Promoter].todo[1]
      /\ act[Promoter].todo[1] \in [t : Tasks, rec : Record]
  <2> DEFINE S == [t : Tasks, rec : Record]
  <2>1. act[Promoter].todo \in Seq(S) /\ act[Promoter].todo # <<>>
    BY <1>2, Fields
  <2> HIDE DEF S
  <2>2. /\ act[Promoter].todo[1] \in S /\ 1 \in 1..Len(act[Promoter].todo)
        /\ Head(act[Promoter].todo) = act[Promoter].todo[1]
    BY <2>1
  <2> QED BY <2>2 DEF S
<1>4. act[Promoter].t \in Pending(act[Promoter])
  BY <1>1, <1>2, <1>3 DEF Pending, Untried, Places
<1>5. /\ Present(store, act[Promoter].t) /\ store[act[Promoter].t].bg
      /\ store[act[Promoter].t].status # "running"
  BY <1>2, <1>4 DEF Listed
<1>6. PICK one : one = Head(act[Promoter].todo)
  OBVIOUS
<1>7. one.t \in Tasks /\ one.rec \in Record /\ one.t = act[Promoter].t
  BY <1>2, <1>3, <1>6
<1>8. InHand(act[Promoter], one.t, one.rec)
  BY <1>2, <1>3, <1>6 DEF InHand
<1>9. Faithful(one.t, one.rec)
  BY <1>2, <1>7, <1>8 DEF Inv, Hands
<1>10. one.rec.child = store[one.t].child
  BY <1>9, NoContinuing DEF Faithful
<1>11. one.rec.key = store[one.t].key
  BY <1>9, <1>10 DEF Faithful
<1>12. \A u \in Tasks : Present(store, u) /\ store[u].child = store[one.t].child => u = one.t
  BY <1>9, <1>10 DEF Faithful
<1> QED BY <1>3, <1>4, <1>5, <1>6, <1>7, <1>10, <1>11, <1>12

LEMMA PromoteKeeps ==
  ASSUME Inv, PassesAsked, Attended, Promote
  PROVE  Attended'
<1> DEFINE one == Head(act[Promoter].todo)
<1>1. Good(Promoter) /\ act[Promoter].pc = "count" /\ UNCHANGED <<store, owed>>
  BY PromoteIsGood DEF Promote, At
<1>2. act[Promoter].pc # "idle" /\ act[Promoter].pc \notin FollowPcs /\ ~At(Promoter, "launched")
  BY <1>1 DEF FollowPcs, At
<1>3. /\ act \in [Actors -> {Idle} \cup Activations] /\ Promoter \in Actors
      /\ act[Promoter] \in Activations /\ act[Promoter].t \in Tasks /\ store \in Store
      /\ act[Promoter].kind = "pass"
  BY <1>2, Passing
<1>4. /\ act[Promoter].t \in Pending(act[Promoter])
      /\ Present(store, act[Promoter].t) /\ store[act[Promoter].t].bg
      /\ store[act[Promoter].t].status # "running"
      /\ one.t = act[Promoter].t
      /\ one.rec.child = store[act[Promoter].t].child
      /\ one.rec.key = store[act[Promoter].t].key
      /\ \A u \in Tasks : Present(store, u) /\ store[u].child = store[act[Promoter].t].child
           => u = act[Promoter].t
  BY <1>1, AtHead
<1> HIDE DEF one
<1>5. CASE Cardinality(Running(one.rec.key)) >= MaxRunning /\ AfterFollow(Promoter) /\ UNCHANGED session
  <2>1. \A t \in Pending(act[Promoter]) : t = act[Promoter].t => ~Waits(t)'
    <3> SUFFICES ASSUME NEW t \in Pending(act[Promoter]), t = act[Promoter].t, Waits(t)'
                 PROVE  FALSE
      OBVIOUS
    <3>1. HasRoom(store[t].key)'
      BY DEF Waits
    <3>2. PICK R \in SUBSET Tasks : R = Running(store[t].key)
      BY DEF Running
    <3>3. Cardinality(R) < MaxRunning
      BY <1>1, <3>1, <3>2 DEF HasRoom, Running
    <3>4. Cardinality(R) \in Nat /\ Cardinality(R) >= MaxRunning
      BY <1>4, <1>5, <3>2, Sizes
    <3> QED BY <3>3, <3>4, DelegationAssumption
  <2>2. UNCHANGED runtime
    BY <1>1, <1>5 DEF runtime
  <2> QED BY <1>1, <1>2, <1>5, <2>1, <2>2, GoesToNext
<1>6. ASSUME NEW pc \in {"launched", "unlaunched"}, UNCHANGED passes,
             act' = [act EXCEPT ![Promoter] = [act[Promoter] EXCEPT !.pc = pc, !.t = one.t, !.rec = one.rec]],
             \/ UNCHANGED session
             \/ pc = "launched" /\ session' = [session EXCEPT ![one.rec.child] = "busy"]
      PROVE  Attended'
  <2>1. act'[Promoter] = [act[Promoter] EXCEPT !.pc = pc, !.t = one.t, !.rec = one.rec]
    BY <1>3, <1>6
  <2>2. /\ act'[Promoter].pc = pc /\ act'[Promoter].t = act[Promoter].t /\ act'[Promoter].kind = "pass"
        /\ act'[Promoter].todo = act[Promoter].todo
    BY <1>3, <1>4, <2>1 DEF Activations
  <2>3. act'[Promoter] # Idle /\ act'[Promoter].pc \in PassPcs /\ act'[Promoter].pc \notin FollowPcs
    BY <2>2 DEF Idle, PassPcs, FollowPcs
  <2>4. \A t : Kept(t) /\ store'[t].status = store[t].status
    BY <1>1, NothingWritten
  <2>5. Turns'
    <3>1. CASE UNCHANGED session
      <4>1. UNCHANGED runtime
        BY <1>1, <3>1 DEF runtime
      <4> QED BY <1>1, <1>2, <2>2, <2>4, <4>1, PassTurns
    <3>2. CASE pc = "launched" /\ session' = [session EXCEPT ![one.rec.child] = "busy"]
      <4> SUFFICES ASSUME NEW t \in Tasks, store'[t].bg, store'[t].status \in Active
                   PROVE  Turn(t)'
        BY DEF Turns
      <4>1. store' = store
        BY <1>1
      <4>2. Turn(t) /\ Present(store, t)
        BY <4>1 DEF Attended, Turns, Present, Active
      <4>3. \A b \in Actors : Decides(act'[b], t) <=> Decides(act[b], t)
        BY <1>1, <2>2, NotDeciding
      <4>4. /\ session \in [Children -> {"unused", "created", "busy", "idle", "error"}]
            /\ store[t].child \in Children
        BY <1>3 DEF Inv, TypeOK, Store, Record
      <4>5. CASE t = act[Promoter].t
        <5>1. /\ \A b \in Actors : ~Decides(act[b], t)
              /\ <<"idle", store[t].child>> \notin owed
          BY <1>2, <1>4, <4>2, <4>5 DEF Turn
        <5>2. act'[Promoter].pc = "launched" /\ act'[Promoter].t = t /\ owed' = owed
          BY <1>1, <2>2, <3>2, <4>5
        <5> QED BY <4>1, <4>3, <5>1, <5>2 DEF Turn, At
      <4>6. CASE t # act[Promoter].t
        <5>1. store[t].child # one.rec.child
          BY <1>4, <4>2, <4>6
        <5>2. session'[store[t].child] = session[store[t].child]
          BY <3>2, <4>4, <5>1
        <5> QED BY <1>1, <1>2, <4>1, <4>2, <4>3, <5>2 DEF Turn
      <4> QED BY <4>5, <4>6
    <3> QED BY <1>6, <3>1, <3>2
  <2> QED BY <1>1, <1>2, <1>4, <1>6, <2>2, <2>3, <2>4, <2>5, StaysAt
<1> QED BY <1>5, <1>6 DEF Promote, one

LEMMA MarkRunningKeeps ==
  ASSUME Inv, PassesAsked, Attended, MarkRunning
  PROVE  Attended'
<1>1. Good(Promoter) /\ act[Promoter].pc = "launched" /\ UNCHANGED runtime
  BY MarkRunningIsGood DEF MarkRunning, At
<1>2. act[Promoter].pc # "idle" /\ act[Promoter].pc \notin FollowPcs
  BY <1>1 DEF FollowPcs
<1>3. /\ act \in [Actors -> {Idle} \cup Activations] /\ Promoter \in Actors
      /\ act[Promoter] \in Activations /\ act[Promoter].t \in Tasks /\ store \in Store
      /\ act[Promoter].kind = "pass"
  BY <1>2, Passing
<1>4. Present(store, act[Promoter].t) /\ store[act[Promoter].t].status # "running"
  BY <1>1, AtHead
<1>5. CASE Move(Promoter, "running") /\ AfterFollow(Promoter)
  <2>1. /\ \A u \in Tasks : u # act[Promoter].t => store'[u] = store[u]
        /\ store'[act[Promoter].t].status = "running"
    BY <1>3, <1>5, WritesStatus
  <2>2. \A t \in Pending(act[Promoter]) : t = act[Promoter].t => ~Waits(t)'
    <3>1. \A t : Waits(t)' => store'[t].status \in {"queued", "blocked"}
      BY DEF Waits, Promotable
    <3> QED BY <2>1, <3>1
  <2> QED BY <1>1, <1>2, <1>4, <1>5, <2>1, <2>2, GoesToNext
<1>6. CASE ~CanMove(Promoter, "running") /\ Go(Promoter, "unlaunched", My(Promoter)) /\ UNCHANGED <<store, passes>>
  <2>1. store[act[Promoter].t].status \in Terminal
    BY <1>3, <1>4, <1>6, Refused
  <2>2. "unlaunched" \in Pcs
    BY DEF Pcs
  <2>3. /\ act'[Promoter].pc = "unlaunched" /\ act'[Promoter].kind = act[Promoter].kind
        /\ act'[Promoter].t = act[Promoter].t
        /\ act'[Promoter].todo = act[Promoter].todo /\ act'[Promoter] # Idle
    BY <1>3, <1>6, <2>2, GoIs
  <2>4. act'[Promoter].pc \in PassPcs /\ act'[Promoter].pc \notin FollowPcs
    BY <2>3 DEF PassPcs, FollowPcs
  <2>5. \A t : Kept(t) /\ store'[t].status = store[t].status
    BY <1>6, NothingWritten
  <2>6. Turns'
    <3>1. store'[act[Promoter].t].status \notin {"queued", "blocked"}
      BY <2>1, <2>5 DEF Terminal
    <3>2. store' = store
      BY <1>6
    <3> QED BY <1>1, <1>3, <2>3, <2>5, <3>1, <3>2, PassTurns
  <2> QED BY <1>1, <1>2, <1>3, <1>4, <1>6, <2>3, <2>4, <2>5, <2>6, StaysAt DEF runtime
<1> QED BY <1>5, <1>6 DEF MarkRunning

LEMMA LaunchFailedKeeps ==
  ASSUME Inv, PassesAsked, Attended, LaunchFailed
  PROVE  Attended'
<1>1. Good(Promoter) /\ act[Promoter].pc = "unlaunched" /\ UNCHANGED <<runtime, passes>>
  BY LaunchFailedIsGood DEF LaunchFailed, At
<1>2. act[Promoter].pc # "idle" /\ act[Promoter].pc \notin FollowPcs /\ ~At(Promoter, "launched")
  BY <1>1 DEF FollowPcs, At
<1>3. /\ act \in [Actors -> {Idle} \cup Activations] /\ Promoter \in Actors
      /\ act[Promoter] \in Activations /\ act[Promoter].t \in Tasks /\ store \in Store
      /\ act[Promoter].kind = "pass"
  BY <1>2, Passing
<1>4. /\ Present(store, act[Promoter].t) /\ store[act[Promoter].t].status # "running"
      /\ act[Promoter].t \in Pending(act[Promoter])
  BY <1>1, AtHead
<1>5. CASE Move(Promoter, "failed") /\ Go(Promoter, "follow", store'[act[Promoter].t])
  <2>1. /\ \A u \in Tasks : u # act[Promoter].t => store'[u] = store[u]
        /\ store'[act[Promoter].t].status = "failed"
    BY <1>3, <1>5, WritesStatus
  <2>2. /\ act'[Promoter].pc = "follow" /\ act'[Promoter].kind = act[Promoter].kind
        /\ act'[Promoter].t = act[Promoter].t
        /\ act'[Promoter].todo = act[Promoter].todo /\ act'[Promoter] # Idle
    <3>1. "follow" \in Pcs
      BY DEF Pcs
    <3>2. PICK rec : rec = store'[act[Promoter].t]
      OBVIOUS
    <3>3. Go(Promoter, "follow", rec)
      BY <1>5, <3>2
    <3> QED BY <1>3, <3>1, <3>3, GoIs
  <2>3. act'[Promoter].pc \in PassPcs /\ act'[Promoter].pc \in FollowPcs
    BY <2>2 DEF PassPcs, FollowPcs
  <2>4. store'[act[Promoter].t].status \in Terminal
    BY <2>1 DEF Terminal
  <2>5. Turns'
    <3>1. \A t \in Tasks : Present(store', t) => Present(store, t)
      BY <1>4, <2>1 DEF Present
    <3>2. \A t \in Tasks : store'[t].bg /\ store'[t].status \in {"queued", "blocked"} => Kept(t)
      BY <2>1 DEF Kept
    <3> QED BY <1>1, <1>2, <1>3, <2>2, <3>1, <3>2, PassTurns
  <2> QED BY <1>1, <1>2, <1>3, <1>4, <2>1, <2>2, <2>3, <2>4, <2>5, StaysAt DEF runtime
<1>6. CASE ~CanMove(Promoter, "failed") /\ Leave(Promoter) /\ UNCHANGED store
  <2>1. store[act[Promoter].t].status \in Terminal
    BY <1>3, <1>4, <1>6, Refused
  <2>2. Asked'
    <3>1. ~Seen(act[Promoter])
      BY <1>4, <2>1 DEF Seen
    <3> QED BY <1>1, <3>1, StillAsked DEF Attended
  <2>3. act'[Promoter] = Idle
    BY <1>3, <1>6, LeftIs
  <2>4. Listed(act[Promoter])'
    BY <2>3 DEF Listed
  <2>5. Turns'
    <3>1. \A t : Kept(t) /\ store'[t].status = store[t].status
      BY <1>6, NothingWritten
    <3>2. store' = store
      BY <1>6
    <3> QED BY <1>1, <1>2, <2>3, <3>1, <3>2, PassTurns
  <2>6. store' = store
    BY <1>6
  <2> QED BY <1>1, <2>2, <2>3, <2>4, <2>5, <2>6, PassKeeps DEF runtime
<1> QED BY <1>5, <1>6 DEF LaunchFailed

(* A list as long as its set, without repetition, leaves nothing out.      *)
LEMMA NothingLeftOut ==
  ASSUME NEW S, IsFiniteSet(S), NEW n \in Nat, n = Cardinality(S), NEW list \in [1..n -> S],
         \A i, j \in 1..n : list[i] = list[j] => i = j, NEW t \in S
  PROVE  \E i \in 1..n : list[i] = t
<1> SUFFICES ASSUME \A i \in 1..n : list[i] # t
             PROVE  FALSE
  OBVIOUS
<1>1. IsFiniteSet(S \ {t}) /\ Cardinality(S \ {t}) = n - 1
  BY FS_RemoveElement
<1>2. IsFiniteSet(1..n) /\ Cardinality(1..n) = n
  <2>1. 1 \in Int /\ n \in Int
    OBVIOUS
  <2>2. IsFiniteSet(1..n) /\ Cardinality(1..n) = IF 1 > n THEN 0 ELSE n - 1 + 1
    BY ONLY <2>1, FS_Interval
  <2> QED BY <2>2
<1>3. PICK T, I : T = S \ {t} /\ I = 1..n
  OBVIOUS
<1>4. list \in [I -> T]
  BY <1>3
<1>5. Cardinality(T) < Cardinality(I) /\ IsFiniteSet(T) /\ IsFiniteSet(I)
  BY <1>1, <1>2, <1>3
<1>6. \E x, y \in I : x # y /\ list[x] = list[y]
  BY ONLY <1>4, <1>5, FS_PigeonHole
<1> QED BY <1>3, <1>6

LEMMA BeginPassKeeps ==
  ASSUME Inv, PassesAsked, Attended, BeginPass
  PROVE  Attended'
<1> DEFINE ready == {t \in Tasks : Promotable(t)}
           S == {t \in Oldest(ready) : store[t].bg}
           list == ByOrder(S)
<1>1. /\ Good(Promoter) /\ act[Promoter] = Idle /\ UNCHANGED <<store, runtime>>
      /\ store \in Store /\ WellFormed(store)
      /\ act \in [Actors -> {Idle} \cup Activations] /\ Promoter \in Actors
  BY BeginPassIsGood, Rests DEF BeginPass, Actors
<1>2. PICK n \in Nat : n = Cardinality(S) /\ IsFiniteSet(S) /\ list \in [1..n -> S] /\ Sorted(S, list)
  <2>1. S \in SUBSET Tasks /\ \A t \in S : Present(store, t)
    BY DEF Oldest, Promotable, Present
  <2> HIDE DEF S
  <2> QED BY <1>1, <2>1, CanBeSorted
<1>3. \A t \in Tasks : Waits(t)' => t \in S
  <2> SUFFICES ASSUME NEW t \in Tasks, Waits(t)'
               PROVE  t \in S
    OBVIOUS
  <2>1. store[t].bg /\ t \in ready /\ t \notin unlisted'
    BY <1>1 DEF Waits, Promotable
  <2>2. t \in Oldest(ready)
    BY <2>1 DEF BeginPass
  <2> QED BY <2>1, <2>2
<1>4. \A t \in S : /\ t \in Tasks /\ store[t].bg /\ Present(store, t)
                   /\ store[t].status \notin Terminal \cup {"running"}
  BY DEF Oldest, Promotable, Present, Terminal
<1>5. list \in Seq(S) /\ Len(list) = n
  <2> HIDE DEF S, list
  <2> QED BY <1>2, Enumerated
<1>6. \A i, j \in 1..n : list[i] = list[j] => i = j
  <2> SUFFICES ASSUME NEW i \in 1..n, NEW j \in 1..n, i < j, list[i] = list[j]
               PROVE  FALSE
    OBVIOUS
  <2>1. store[list[i]].order < store[list[j]].order
    BY <1>2 DEF Sorted
  <2>2. store[list[i]].order \in Nat
    BY <1>1, <1>2, <1>4 DEF Store, Record
  <2> QED BY <2>1, <2>2
<1>7. ASSUME act'[Promoter] = Idle \/ (act'[Promoter].kind = "pass" /\ act'[Promoter].pc \in PassPcs),
             Listed(act[Promoter])', Pending(act'[Promoter]) = S
      PROVE  Attended'
  <2>1. \A t : Kept(t)
    BY <1>1, NothingWritten
  <2>2. ~At(Promoter, "launched") /\ store' = store
    BY <1>1 DEF At, Idle
  <2>3. Turns'
    BY <1>1, <1>7, <2>1, <2>2, PassTurns
  <2>4. Seen(act[Promoter])'
    <3>1. \A t \in Pending(act'[Promoter]) : store'[t].status \notin Terminal
      BY <1>4, <1>7, <2>2
    <3>2. \A t \in Tasks : Waits(t)' => t \in Pending(act'[Promoter])
      BY <1>3, <1>7
    <3>3. Pending(act[Promoter])' = Pending(act'[Promoter])
      BY DEF Pending, Untried, Places
    <3> QED BY <3>1, <3>2, <3>3 DEF Seen
  <2> QED BY <1>1, <1>7, <2>2, <2>3, <2>4, PassKeeps DEF runtime
<1>8. CASE list = <<>>
  <2>1. act'[Promoter] = Idle
    BY <1>1, <1>8 DEF BeginPass
  <2>2. n = 0
    BY <1>5, <1>8
  <2>3. S = {}
    BY <1>2, <2>2, FS_EmptySet
  <2>4. Pending(act'[Promoter]) = {} /\ Listed(act[Promoter])'
    BY <2>1 DEF Pending, Untried, Places, Listed
  <2> QED BY <1>7, <2>1, <2>3, <2>4
<1>9. CASE list # <<>>
  <2>1. PICK q : q = [i \in 1..n |-> [t |-> list[i], rec |-> store[list[i]]]]
    OBVIOUS
  <2>2. Len(q) = n /\ \A i \in 1..n : q[i].t = list[i]
    <3>1. PICK R : R = {[t |-> list[i], rec |-> store[list[i]]] : i \in 1..n}
      OBVIOUS
    <3>2. q \in [1..n -> R]
      BY <2>1, <3>1
    <3>3. Len(q) = n
      BY <3>2, Enumerated
    <3> QED BY <2>1, <3>3
  <2>3. PICK x : x = Activation("pass", "count", list[1], store[list[1]])
    OBVIOUS
  <2>4. act'[Promoter] = [x EXCEPT !.todo = q]
    <3>1. DOMAIN list = 1..n
      BY <1>2
    <3> QED BY <1>1, <1>9, <2>1, <2>3, <3>1 DEF BeginPass
  <2>5. PICK y : y = act'[Promoter]
    OBVIOUS
  <2>6. y.pc = "count" /\ y.kind = "pass" /\ y.t = list[1] /\ y.todo = q /\ y # Idle
    <3>1. y.pc = "count" /\ y.kind = "pass" /\ y.t = list[1] /\ y.todo = q
      BY <2>3, <2>4, <2>5 DEF Activation
    <3> QED BY <3>1 DEF Idle
  <2>7. n > 0
    <3>1. n # 0
      <4> HIDE DEF S, list
      <4> QED BY <1>5, <1>9
    <3> QED BY <3>1
  <2> HIDE DEF list
  <2>8. \A t : t \in Pending(y) <=> \E i \in 1..n : list[i] = t
    <3>1. Pending(y) = {q[i].t : i \in 1..n}
      BY <2>2, <2>6 DEF Pending, Untried, Places, FollowPcs
    <3> QED BY <2>2, <3>1
  <2>9. Pending(y) = S
    <3> HIDE DEF S
    <3>1. \A t \in S : \E i \in 1..n : list[i] = t
      BY <1>2, <1>6, NothingLeftOut
    <3> QED BY <1>2, <2>8, <3>1
  <2> HIDE DEF S
  <2>10. Listed(act[Promoter])'
    <3>1. y.t = y.todo[1].t
      BY <2>2, <2>6, <2>7
    <3>2. \A i, j \in 1..Len(y.todo) : y.todo[i].t = y.todo[j].t => i = j
      BY <1>6, <2>2, <2>6
    <3>3. \A t \in Pending(y) : Present(store', t) /\ store'[t].bg /\ store'[t].status # "running"
      BY <1>1, <1>4, <2>9
    <3>4. y.pc \notin FollowPcs
      BY <2>6 DEF FollowPcs
    <3>5. Pending(act[Promoter])' = Pending(y)
      BY <2>5 DEF Pending, Untried, Places
    <3> QED BY <2>5, <3>1, <3>2, <3>3, <3>4, <3>5 DEF Listed
  <2>11. y.pc \in PassPcs
    BY <2>6 DEF PassPcs
  <2> QED BY <1>7, <2>5, <2>6, <2>9, <2>10, <2>11
<1> QED BY <1>8, <1>9

-----------------------------------------------------------------------------
LEMMA AttendedAtFirst ==
  ASSUME Init
  PROVE  Attended
<1>1. \A t \in Tasks : store[t] = NoRecord
  BY DEF Init
<1>2. \A t \in Tasks : ~Present(store, t) /\ store[t].status \notin Active
  <2>1. NoRecord.status = "absent"
    BY DEF NoRecord
  <2>2. \A t \in Tasks : store[t].status = "absent"
    BY <1>1, <2>1
  <2> QED BY <2>2 DEF Present, Active
<1>3. \A b \in Actors : act[b] = Idle
  BY DEF Init
<1>4. Promoter \in Actors
  BY DEF Actors
<1>5. \A b \in Actors : Proper(act[b]) /\ Stands(act[b])
  BY <1>3 DEF Proper, Stands
<1>6. Turns
  BY <1>2 DEF Turns
<1>7. act[Promoter] = Idle /\ Pending(act[Promoter]) = {}
  BY <1>3, <1>4 DEF Pending, Untried, Places
<1>8. Seen(act[Promoter])
  <2>1. \A t \in Tasks : ~Waits(t)
    BY <1>2 DEF Waits, Promotable, Active
  <2> QED BY <1>7, <2>1 DEF Seen
<1>9. Listed(act[Promoter])
  BY <1>7 DEF Listed
<1>10. owed = {}
  BY DEF Init
<1> QED BY <1>2, <1>5, <1>6, <1>8, <1>9, <1>10 DEF Attended

LEMMA AttendedKept ==
  ASSUME Inv, PassesAsked, Attended, [Next]_vars
  PROVE  Attended'
<1>0. Promoter \in Actors
  BY DEF Actors
<1>1. ASSUME NEW a \in Actors, Work(a)
      PROVE  Attended'
  <2>1. ASSUME Done(a), Good(a) PROVE Attended'
    BY <2>1, DoneKeeps
  <2>2. CASE Refresh(a)
    BY <2>1, <2>2, ReadStatusDone, SessionFailedDone, TelemetryDone, SaveStaleDone, BlockStaleDone,
       ReadStatusIsGood, SessionFailedIsGood, TelemetryIsGood, SaveStaleIsGood, BlockStaleIsGood
       DEF Refresh
  <2>3. CASE Integration(a)
    BY <2>1, <2>3, IntegrateDone, CheckRootDone, MergeDone, RecordMergeDone, SettleOutcomeDone, CleanupDone,
       IntegrateIsGood, CheckRootIsGood, MergeIsGood, RecordMergeIsGood, SettleOutcomeIsGood, CleanupIsGood
       DEF Integration
  <2>4. CASE FollowThrough(a) /\ a # Promoter
    BY <2>1, <2>4, FollowDone, ReadModeDone, TellRootDone, FollowedDone,
       FollowIsGood, ReadModeIsGood, TellRootIsGood, FollowedIsGood DEF FollowThrough
  <2>5. CASE FollowThrough(a) /\ a = Promoter
    BY <2>5, FollowKeeps
  <2>6. CASE SessionEvent(a)
    BY <2>1, <2>6, EndByEventDone, EndByEventIsGood DEF SessionEvent
  <2>7. CASE Foreground(a)
    <3>1. ~\E k \in Keys, bg \in BOOLEAN, mode \in Modes, c \in Children : Restart(a, k, bg, mode, c)
      BY NotReached DEF Restart, At
    <3> QED BY <2>1, <2>7, <3>1, SendDone, AnsweredDone, FailForegroundDone,
               SendIsGood, AnsweredIsGood, FailForegroundIsGood DEF Foreground
  <2>8. CASE LookAgain(a) \/ Consume(a) \/ Abort(a) \/ CancelTask(a) \/ Waive(a)
    <3>1. ~LookAgain(a) /\ ~Consume(a)
      BY NotReached DEF LookAgain, Consume, At
    <3> QED BY <2>1, <2>8, <3>1, AbortDone, CancelTaskDone, WaiveDone,
               AbortIsGood, CancelTaskIsGood, WaiveIsGood
  <2> QED BY <1>1, <2>2, <2>3, <2>4, <2>5, <2>6, <2>7, <2>8 DEF Work, ToolStep
<1>2. ASSUME Pass PROVE Attended'
  BY <1>2, BeginPassKeeps, PromoteKeeps, MarkRunningKeeps, LaunchFailedKeeps DEF Pass
<1>3. ASSUME Event PROVE Attended'
  <2>1. PICK h \in Handlers, type \in {"idle", "error", "interrupt"}, c \in Children : Deliver(h, type, c)
    BY <1>3 DEF Event
  <2> QED BY <2>1, DeliverDone, DeliverIsGood, DoneKeeps
<1>4. ASSUME NEW a \in Callers, ToolCall(a)
      PROVE  Attended'
  <2>1. ASSUME NEW t \in Tasks, NEW k \in Keys, NEW bg \in BOOLEAN, NEW mode \in Modes,
               NEW c \in Children, Launch(a, t, k, bg, mode, c)
        PROVE  Attended'
    BY <2>1, LaunchDone, LaunchIsGood, DoneKeeps
  <2>2. ASSUME NEW t \in Tasks, Cancel(a, t)
        PROVE  Attended'
    BY <2>2, CancelDone, CancelIsGood, DoneKeeps
  <2>3. ~(CancelAll(a) \/ \E t \in Tasks : Continue(a, t) \/ Output(a, t))
    BY NoContinuing DEF CancelAll, Continue, Output, Invoke
  <2> QED BY <1>4, <2>1, <2>2, <2>3 DEF ToolCall
<1>5. ASSUME NEW c \in Children, SessionEnds(c) PROVE Attended'
  BY <1>5, SessionEndsKeeps
<1>6. ASSUME Stop \/ UNCHANGED vars PROVE Attended'
  <2>1. UNCHANGED <<store, act, passes, runtime>>
    BY <1>6 DEF Stop, vars
  <2>2. Good(Promoter)
    <3>1. CASE Stop
      BY <3>1, StopIsGood
    <3>2. CASE UNCHANGED vars
      <4>1. UNCHANGED <<store, act>> /\ Surroundings
        BY <3>2, Rests DEF vars, runtime, git, Surroundings, Base
      <4> QED BY <4>1, NoActor
    <3> QED BY <1>6, <3>1, <3>2
  <2> QED BY <2>1, <2>2, Still, Apart
<1> QED BY <1>1, <1>2, <1>3, <1>4, <1>5, <1>6 DEF Next

(* When nothing is going on, a background task that could run waits only   *)
(* because its agent is at the limit or the latest pass cut it off: nobody *)
(* is on the way to ask for a pass, so no other task waits that has room.  *)
THEOREM NoCapacityIdles == Spec => []NoIdleCapacity
<1>1. Init => AInv
  BY AttendedAtFirst DEF AInv
<1>2. Inv /\ AInv /\ [Next]_vars => AInv'
  <2> SUFFICES ASSUME Inv, AInv, [Next]_vars, PassesAsked
               PROVE  Attended'
    BY DEF AInv, PassesAsked
  <2> QED BY AttendedKept DEF AInv
<1>3. Inv /\ AInv => NoIdleCapacity
  <2> SUFFICES ASSUME Inv, Attended, PassesAsked, Quiet, NEW t \in Tasks, store[t].bg, Promotable(t),
                      t \notin unlisted
               PROVE  Cardinality(Running(store[t].key)) >= MaxRunning
    BY DEF AInv, NoIdleCapacity
  <2>1. ~Asked /\ act[Promoter] = Idle
    BY DEF Quiet, Asked, Asking, FollowPcs, Idle, Actors
  <2>2. Pending(act[Promoter]) = {}
    BY <2>1 DEF Pending, Untried, Places
  <2>3. ~HasRoom(store[t].key)
    BY <2>1, <2>2 DEF Attended, Seen, Waits
  <2>4. PICK R \in SUBSET Tasks : R = Running(store[t].key)
    BY DEF Running
  <2>5. Cardinality(R) \in Nat /\ MaxRunning \in Nat
    BY Sizes, DelegationAssumption
  <2>6. ~(Cardinality(R) < MaxRunning)
    BY <2>3, <2>4 DEF HasRoom
  <2>7. Cardinality(R) >= MaxRunning
    BY <2>5, <2>6
  <2> QED BY <2>4, <2>7
<1> QED BY <1>1, <1>2, <1>3, InvHolds, PTL DEF Spec
=============================================================================
