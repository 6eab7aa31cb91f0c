---------------------------- MODULE PlanRegistry ----------------------------
(***************************************************************************)
(* The plan lifecycle of the workspace package: createStateManager of      *)
(* src/packages/workspace/src/plan/state.ts, and the plan_save tool of     *)
(* src/packages/workspace/src/index.ts.  Sessions of one or several        *)
(* processes share four kinds of files: the plans themselves, the registry *)
(* with the lifecycle of each plan, the file that names the active plan,   *)
(* and the contexts that say whether the user has confirmed a plan.  The   *)
(* calls that change the lifecycle hold two directory locks while they     *)
(* work; listPlanRecords reads and rewrites the registry without them, and *)
(* plan_save takes them several times, with its choices made in between.   *)
(* A call is a list of steps, each ending at an await that others can      *)
(* overtake.  Titles, paths, dates and session ids are left out, and of a  *)
(* context all but the confirmation.                                       *)
(***************************************************************************)
EXTENDS Integers, Sequences, FiniteSets

CONSTANTS
  Plans,        \* plan names, in the order of their names
  Sessions,
  Ops,          \* the calls made: subset of OpNames
  Boards,       \* what the first session finds on the disk
  MaxCalls,     \* bound: calls ever made
  MaxCrashes,   \* bound: sessions that die in a call
  MaxEdits      \* bound: plan files written or deleted by others

None == 0
Saves == {"saveActive", "saveDraft", "saveNew"}
OpNames == {"read", "set", "promote", "archive", "unarchive", "list"} \cup Saves
Lifecycle == {"absent", "active", "inactive", "archived", "draft"}
Confirmed == {"unknown", "yes", "no"}
Holders == Sessions \cup {"free", "left"}

ASSUME PlansAssumption ==
  /\ Plans \subseteq Nat \ {0} /\ IsFiniteSet(Plans) /\ Ops \subseteq OpNames
  /\ MaxCalls \in Nat /\ MaxCrashes \in Nat /\ MaxEdits \in Nat
  /\ "free" \notin Sessions /\ "left" \notin Sessions

VARIABLES
  files,          \* plan -> "future", "there" or "gone": the markdown files
  registry,       \* plan -> its lifecycle in plan-registry.json
  active,         \* the plan active-plan.json names, or None
  confirmed,      \* plan -> confirmed_by_user of its context, if it has one
  lifecycleLock,  \* who holds .active-plan-lifecycle.lock
  registryLock,   \* who holds .plan-registry.lock
  contextLeft,    \* the plans whose context lock a dead session has left
  act,            \* session -> the call it is in
  overwritten,    \* a list or a save has written over something newer
  calls, crashes, edits  \* still to come

disk == <<files, registry, active, confirmed>>
locks == <<lifecycleLock, registryLock, contextLeft>>
bounds == <<calls, crashes, edits>>
vars == <<disk, locks, act, overwritten, bounds>>

Absent == [p \in Plans |-> "absent"]
Idle == [todo |-> <<>>, op |-> "none", plan |-> None, target |-> None,
         reg |-> Absent, seen |-> Absent, cur |-> None, was |-> "unknown", life |-> "inactive"]

Consistent(b) ==
  /\ b \in [files : [Plans -> {"future", "there"}], registry : [Plans -> Lifecycle],
            active : Plans \cup {None}, confirmed : [Plans -> Confirmed]]
  /\ \A p \in Plans : b.registry[p] = "active" <=> p = b.active
  /\ \A p \in Plans : b.registry[p] # "absent" <=> b.files[p] = "there"

ASSUME BoardsAssumption == \A b \in Boards : Consistent(b)

Init ==
  /\ \E b \in Boards : /\ files = b.files /\ registry = b.registry
                       /\ active = b.active /\ confirmed = b.confirmed
  /\ lifecycleLock = "free" /\ registryLock = "free" /\ contextLeft = {}
  /\ act = [s \in Sessions |-> Idle]
  /\ overwritten = FALSE
  /\ calls = MaxCalls /\ crashes = MaxCrashes /\ edits = MaxEdits

-----------------------------------------------------------------------------
(* What the calls consist of.                                              *)
Sync == <<"load", "sync">>
ReadActive == <<"loadSeen", "syncSeen", "look">>
SetActive == <<"content">> \o Sync \o <<"check">> \o ReadActive \o <<"point", "mark", "confirm">>
Locked(work) == <<"lockLifecycle", "lockRegistry">> \o work \o <<"unlock">>
Upsert == <<"lockRegistry">> \o Sync \o <<"enter", "unlock">>
Settle == Locked(ReadActive) \o <<"again">>

Program(op) ==
  CASE op = "read" -> Locked(ReadActive)
    [] op = "set" -> Locked(SetActive)
    [] op = "promote" -> Locked(<<"resolve">> \o Sync \o <<"promote", "confirm">> \o SetActive)
    [] op = "archive" -> Locked(<<"resolve">> \o Sync \o <<"archive">> \o ReadActive
                                  \o <<"succeed", "conclude">> \o Sync)
    [] op = "unarchive" -> Locked(<<"resolve">> \o Sync \o <<"unarchive">>)
    [] op = "list" -> Sync
    [] op = "saveDraft" -> Locked(ReadActive) \o Sync \o <<"choose">>
    [] op \in {"saveActive", "saveNew"} -> Locked(ReadActive) \o <<"choose">>

Begin(s, op, p) ==
  /\ act[s] = Idle /\ calls > 0 /\ calls' = calls - 1
  /\ p = None <=> op \in {"read", "list"} \cup Saves
  /\ act' = [act EXCEPT ![s] = [Idle EXCEPT !.op = op, !.plan = p, !.target = p, !.todo = Program(op)]]
  /\ UNCHANGED <<disk, locks, overwritten, crashes, edits>>

My(s) == act[s]
At(s, step) == My(s).todo # <<>> /\ Head(My(s).todo) = step
Done(s) == [My(s) EXCEPT !.todo = Tail(@)]

(* The call goes on with what is left of x; x.todo empty: it has ended.    *)
GoOn(s, x) == act' = [act EXCEPT ![s] = IF x.todo = <<>> THEN Idle ELSE x]

(* An exception under the locks: they are released and the call ends.      *)
Throw(s) == GoOn(s, [My(s) EXCEPT !.todo = <<"unlock">>])

-----------------------------------------------------------------------------
(* The directory locks.                                                    *)
(* Mutant of LockLifecycle: the mkdir succeeds although the directory is   *)
(* there, as with `recursive`.                                             *)
LockAnyway(s) ==
  /\ At(s, "lockLifecycle") /\ lifecycleLock' = s
  /\ GoOn(s, Done(s))
  /\ UNCHANGED <<disk, registryLock, contextLeft, overwritten, bounds>>

LockLifecycle(s) ==
  /\ At(s, "lockLifecycle")
  /\ lifecycleLock = "free" /\ lifecycleLock' = s
  /\ GoOn(s, Done(s))
  /\ UNCHANGED <<disk, registryLock, contextLeft, overwritten, bounds>>

LockRegistry(s) ==
  /\ At(s, "lockRegistry")
  /\ registryLock = "free" /\ registryLock' = s
  /\ GoOn(s, Done(s))
  /\ UNCHANGED <<disk, lifecycleLock, contextLeft, overwritten, bounds>>

(* Mutant of GiveUp: the lifecycle lock is waited for without a limit.     *)
GiveUpSometimes(s) ==
  /\ \/ At(s, "lockRegistry") /\ registryLock # "free"
     \/ At(s, "confirm") /\ My(s).target \in contextLeft
     \/ At(s, "conclude") /\ My(s).plan \in contextLeft
  /\ Throw(s)
  /\ UNCHANGED <<disk, locks, overwritten, bounds>>

(* A save has marked the active plan as inactive and has yet to look again. *)
Pending(s, step) == \E i \in DOMAIN My(s).todo : My(s).todo[i] = step
Unsettled(s) == Pending(s, "again") /\ ~Pending(s, "enter")

(* The five seconds are over before the lock was free.                     *)
GiveUp(s) ==
  /\ \/ At(s, "lockLifecycle") /\ lifecycleLock # "free"
     \/ At(s, "lockRegistry") /\ registryLock # "free"
     \/ At(s, "confirm") /\ My(s).target \in contextLeft
     \/ At(s, "conclude") /\ My(s).plan \in contextLeft
  /\ Throw(s)
  /\ overwritten' = (overwritten \/ Unsettled(s))
  /\ UNCHANGED <<disk, locks, bounds>>

Unlock(s) ==
  /\ At(s, "unlock")
  /\ lifecycleLock' = IF lifecycleLock = s THEN "free" ELSE lifecycleLock
  /\ registryLock' = IF registryLock = s THEN "free" ELSE registryLock
  /\ GoOn(s, Done(s))
  /\ UNCHANGED <<disk, contextLeft, overwritten, bounds>>

(* The session's process dies: its lock directories stay, that of a        *)
(* context too if the session was writing it.                              *)
Crash(s) ==
  /\ act[s] # Idle /\ crashes > 0 /\ crashes' = crashes - 1
  /\ lifecycleLock' = IF lifecycleLock = s THEN "left" ELSE lifecycleLock
  /\ registryLock' = IF registryLock = s THEN "left" ELSE registryLock
  /\ \/ UNCHANGED contextLeft
     \/ At(s, "confirm") /\ contextLeft' = contextLeft \cup {My(s).target}
     \/ At(s, "conclude") /\ contextLeft' = contextLeft \cup {My(s).plan}
  /\ act' = [act EXCEPT ![s] = Idle]
  /\ overwritten' = (overwritten \/ Unsettled(s))
  /\ UNCHANGED <<disk, calls, edits>>

-----------------------------------------------------------------------------
(* syncPlanRegistry: read the registry; list the plans, drop the missing,  *)
(* add the new ones as inactive and write the registry back.               *)
There(p) == files[p] = "there"
Synced(r) ==
  [p \in Plans |-> IF ~There(p) THEN "absent"
                   ELSE IF r[p] = "absent" THEN "inactive" ELSE r[p]]

WriteRegistry(r) == registry' = r /\ UNCHANGED <<files, active, confirmed>>

Load(s) ==
  /\ \/ At(s, "load") /\ GoOn(s, [Done(s) EXCEPT !.reg = registry])
     \/ At(s, "loadSeen") /\ GoOn(s, [Done(s) EXCEPT !.seen = registry])
  /\ UNCHANGED <<disk, locks, overwritten, bounds>>

SyncRegistry(s) ==
  /\ \/ /\ At(s, "sync") /\ WriteRegistry(Synced(My(s).reg))
        /\ GoOn(s, [Done(s) EXCEPT !.reg = registry'])
        /\ overwritten' = (overwritten \/ My(s).reg # registry)
     \/ /\ At(s, "syncSeen") /\ WriteRegistry(Synced(My(s).seen))
        /\ GoOn(s, [Done(s) EXCEPT !.seen = registry'])
        /\ overwritten' = (overwritten \/ My(s).seen # registry)
  /\ UNCHANGED <<locks, bounds>>

-----------------------------------------------------------------------------
(* readActivePlanStateInternal after its sync.                             *)
Newest(S) == CHOOSE p \in S : \A q \in S : q <= p

(* Mutant of Candidates: drafts are not excluded.                          *)
CandidatesOrDrafts(r, out) == {p \in Plans \ {out} : r[p] \notin {"absent", "archived"}}

Candidates(r, out) == {p \in Plans \ {out} : r[p] \in {"active", "inactive"}}

Look(s) ==
  LET seen == My(s).seen
      good == active # None /\ seen[active] # "archived" /\ There(active)
      next == Candidates(seen, active)
  IN /\ At(s, "look")
     /\ IF good
        THEN /\ GoOn(s, [My(s) EXCEPT !.cur = active,
                           !.todo = (IF seen[active] \in {"active", "absent"} THEN <<>> ELSE <<"repair">>)
                                      \o Tail(@)])
             /\ UNCHANGED active
        ELSE IF next = {} \/ ~There(Newest(next))
        THEN active' = None /\ GoOn(s, [Done(s) EXCEPT !.cur = None])
        ELSE /\ active' = Newest(next)
             /\ GoOn(s, [My(s) EXCEPT !.cur = Newest(next), !.todo = <<"repair">> \o Tail(@)])
     /\ UNCHANGED <<files, registry, confirmed, locks, overwritten, bounds>>

(* The registry entry of the plan that was found active says so.           *)
Repair(s) ==
  /\ At(s, "repair")
  /\ WriteRegistry([My(s).seen EXCEPT ![My(s).cur] = "active"])
  /\ GoOn(s, Done(s))
  /\ UNCHANGED <<locks, overwritten, bounds>>

-----------------------------------------------------------------------------
(* setActivePlanInternal and promotePlanInternal.                          *)
Content(s) ==
  /\ At(s, "content")
  /\ IF There(My(s).target) THEN GoOn(s, Done(s)) ELSE Throw(s)
  /\ UNCHANGED <<disk, locks, overwritten, bounds>>

Check(s) ==
  /\ At(s, "check")
  /\ IF My(s).reg[My(s).target] \in {"archived", "draft"} THEN Throw(s) ELSE GoOn(s, Done(s))
  /\ UNCHANGED <<disk, locks, overwritten, bounds>>

Point(s) ==
  /\ At(s, "point")
  /\ active' = My(s).target
  /\ GoOn(s, Done(s))
  /\ UNCHANGED <<files, registry, confirmed, locks, overwritten, bounds>>

(* Mutant of Activated: the plan that was active stays marked as active.   *)
ActivatedToo(r, q) == [r EXCEPT ![q] = "active"]

(* Every other plan that is neither archived nor a draft becomes inactive. *)
Activated(r, q) ==
  [p \in Plans |-> IF p = q THEN "active"
                   ELSE IF r[p] \in {"absent", "archived", "draft"} THEN r[p] ELSE "inactive"]

Mark(s) ==
  /\ At(s, "mark")
  /\ WriteRegistry(Activated(My(s).reg, My(s).target))
  /\ GoOn(s, Done(s))
  /\ UNCHANGED <<locks, overwritten, bounds>>

(* withPlanContextMutation: a write of one plan's context under its lock.  *)
WriteContext(p, v) ==
  p \notin contextLeft /\ confirmed' = [confirmed EXCEPT ![p] = v] /\ UNCHANGED <<files, registry, active>>

Confirm(s) ==
  /\ At(s, "confirm")
  /\ WriteContext(My(s).target, "yes")
  /\ GoOn(s, Done(s))
  /\ UNCHANGED <<locks, overwritten, bounds>>

Resolve(s) ==
  /\ At(s, "resolve")
  /\ IF There(My(s).plan) THEN GoOn(s, Done(s)) ELSE Throw(s)
  /\ UNCHANGED <<disk, locks, overwritten, bounds>>

Promote(s) ==
  LET x == My(s)
  IN /\ At(s, "promote")
     /\ IF x.reg[x.plan] \in {"absent", "archived"} THEN Throw(s) ELSE GoOn(s, Done(s))
     /\ IF x.reg[x.plan] = "draft" THEN WriteRegistry([x.reg EXCEPT ![x.plan] = "inactive"])
        ELSE UNCHANGED disk
     /\ UNCHANGED <<locks, overwritten, bounds>>

-----------------------------------------------------------------------------
(* archivePlanInternal.  was: what the context will say of confirmation.   *)
Archive(s) ==
  LET x == My(s)
      was == IF confirmed[x.plan] # "unknown" THEN confirmed[x.plan]
             ELSE IF x.reg[x.plan] = "draft" THEN "no" ELSE "yes"
  IN /\ At(s, "archive")
     /\ IF x.reg[x.plan] = "absent" THEN Throw(s) /\ UNCHANGED disk
        ELSE /\ WriteRegistry([x.reg EXCEPT ![x.plan] = "archived"])
             /\ GoOn(s, [Done(s) EXCEPT !.was = was])
     /\ UNCHANGED <<locks, overwritten, bounds>>

(* Only if the plan just archived is still found active: another one is    *)
(* looked for, or none is active any more.                                 *)
Succeed(s) ==
  /\ At(s, "succeed")
  /\ GoOn(s, IF My(s).cur = My(s).plan THEN [My(s) EXCEPT !.todo = Sync \o <<"replace">> \o Tail(@)]
             ELSE Done(s))
  /\ UNCHANGED <<disk, locks, overwritten, bounds>>

Replace(s) ==
  LET next == Candidates(My(s).reg, My(s).plan)
  IN /\ At(s, "replace")
     /\ IF next = {} THEN active' = None /\ GoOn(s, Done(s))
        ELSE /\ GoOn(s, [My(s) EXCEPT !.target = Newest(next), !.todo = SetActive \o Tail(@)])
             /\ UNCHANGED active
     /\ UNCHANGED <<files, registry, confirmed, locks, overwritten, bounds>>

Conclude(s) ==
  /\ At(s, "conclude")
  /\ WriteContext(My(s).plan, My(s).was)
  /\ GoOn(s, Done(s))
  /\ UNCHANGED <<locks, overwritten, bounds>>

(* unarchivePlanInternal: back to draft if the user has not confirmed it.  *)
(* The context as it was then, if there was one, is written back.          *)
Unarchive(s) ==
  LET x == My(s)
  IN /\ At(s, "unarchive")
     /\ CASE x.reg[x.plan] = "absent" -> Throw(s) /\ UNCHANGED disk
          [] x.reg[x.plan] = "archived" ->
               /\ WriteRegistry([x.reg EXCEPT ![x.plan] =
                    IF confirmed[x.plan] = "no" THEN "draft" ELSE "inactive"])
               /\ GoOn(s, IF confirmed[x.plan] = "unknown" THEN Done(s)
                          ELSE [x EXCEPT !.was = confirmed[x.plan], !.todo[1] = "conclude"])
          [] OTHER -> GoOn(s, Done(s)) /\ UNCHANGED disk
     /\ UNCHANGED <<locks, overwritten, bounds>>

-----------------------------------------------------------------------------
(* plan_save.  Which plan it writes, and what becomes of it: the active    *)
(* plan (whose session list may be written first), a draft, or a new file, *)
(* which nothing but the absence of its name speaks for.                   *)
SaveTo(s, p, life, steps) ==
  GoOn(s, [My(s) EXCEPT !.plan = p, !.target = p, !.life = life, !.was = "no",
                        !.reg = Absent, !.seen = Absent, !.todo = steps])

Choose(s) ==
  LET x == My(s)
  IN /\ At(s, "choose")
     /\ \/ /\ x.op = "saveActive" /\ x.cur # None
           /\ \E first \in {<<>>, Locked(<<"remember">>)} :
                SaveTo(s, x.cur, "inactive", first \o <<"write">> \o Upsert \o Settle)
        \/ /\ x.op = "saveDraft"
           /\ \E p \in Plans : x.reg[p] = "draft" /\
                SaveTo(s, p, "draft", <<"write">> \o Upsert \o <<"conclude">> \o Settle)
        \/ /\ x.op = "saveDraft" /\ \A p \in Plans : x.reg[p] # "draft"
           /\ \E p \in Plans : files[p] = "future" /\
                SaveTo(s, p, "draft", <<"write">> \o Upsert \o <<"conclude">>)
        \/ /\ x.op = "saveNew" \/ (x.op = "saveActive" /\ x.cur = None)
           /\ \E p \in Plans : files[p] = "future" /\
                \/ SaveTo(s, p, "inactive", <<"write">> \o Locked(SetActive))
                \/ x.cur # None /\ SaveTo(s, p, "inactive", <<"write">> \o Upsert)
        \/ GoOn(s, [x EXCEPT !.todo = <<>>])
     /\ UNCHANGED <<disk, locks, overwritten, bounds>>

(* writeActivePlanState with the state read before.                        *)
Remember(s) ==
  /\ At(s, "remember")
  /\ active' = My(s).cur
  /\ overwritten' = (overwritten \/ active # My(s).cur)
  /\ GoOn(s, Done(s))
  /\ UNCHANGED <<files, registry, confirmed, locks, bounds>>

(* The file is written: one that was deleted meanwhile is there again.     *)
Write(s) ==
  /\ At(s, "write")
  /\ files' = [files EXCEPT ![My(s).target] = "there"]
  /\ overwritten' = (overwritten \/ files[My(s).target] = "gone")
  /\ GoOn(s, Done(s))
  /\ UNCHANGED <<registry, active, confirmed, locks, bounds>>

(* upsertPlanRegistryEntry.  The plan may have got another standing since  *)
(* it was chosen for the one it had then.                                  *)
Expected(x) == CASE x.life = "draft" -> {"draft", "absent", "inactive"}
                 [] x.op = "saveActive" -> {"active"}
                 [] x.life = "active" -> {"active"}
                 [] OTHER -> {"absent", "inactive"}

Enter(s) ==
  LET x == My(s)
  IN /\ At(s, "enter")
     /\ WriteRegistry([x.reg EXCEPT ![x.target] = x.life])
     /\ overwritten' = \/ overwritten \/ x.reg[x.target] \notin Expected(x)
                       \/ x.life = "draft" /\ active = x.target
     /\ GoOn(s, Done(s))
     /\ UNCHANGED <<locks, bounds>>

(* After the update of a plan that was there, the active one is entered.   *)
Again(s) ==
  /\ At(s, "again")
  /\ IF My(s).cur = None THEN GoOn(s, Done(s))
     ELSE GoOn(s, [My(s) EXCEPT !.target = My(s).cur, !.life = "active", !.todo = Upsert])
  /\ UNCHANGED <<disk, locks, overwritten, bounds>>

-----------------------------------------------------------------------------
(* The user and the agents write and delete plan files; names are unique.  *)
PlanFile(p) ==
  /\ edits > 0 /\ edits' = edits - 1
  /\ \/ files[p] = "future" /\ files' = [files EXCEPT ![p] = "there"]
     \/ files[p] = "there" /\ files' = [files EXCEPT ![p] = "gone"]
  /\ UNCHANGED <<registry, active, confirmed, locks, act, overwritten, calls, crashes>>

(* plan_context_write, for the confirmation it may carry: a call of one    *)
(* step, the write under the context's lock.                               *)
PlanContext(s, p, v) ==
  /\ act[s] = Idle /\ calls > 0 /\ calls' = calls - 1
  /\ There(p) /\ WriteContext(p, v)
  /\ UNCHANGED <<locks, act, overwritten, crashes, edits>>

Step(s) ==
  /\ act[s].todo # <<>>
  /\ \/ LockLifecycle(s) \/ LockRegistry(s) \/ GiveUp(s) \/ Unlock(s)
     \/ Load(s) \/ SyncRegistry(s) \/ Look(s) \/ Repair(s)
     \/ Content(s) \/ Check(s) \/ Point(s) \/ Mark(s) \/ Confirm(s)
     \/ Resolve(s) \/ Promote(s) \/ Archive(s) \/ Succeed(s) \/ Replace(s)
     \/ Conclude(s) \/ Unarchive(s)
     \/ Choose(s) \/ Remember(s) \/ Write(s) \/ Enter(s) \/ Again(s)

Next ==
  \/ \E s \in Sessions : Step(s) \/ Crash(s)
  \/ \E s \in Sessions, op \in Ops, p \in Plans \cup {None} : Begin(s, op, p)
  \/ \E p \in Plans : PlanFile(p)
  \/ \E s \in Sessions, p \in Plans, v \in {"yes", "no"} : PlanContext(s, p, v)

(* File operations end, and a wait for a lock ends after five seconds: as  *)
(* long as calls are under way, one of them gets on.                       *)
Fairness == WF_act(\E s \in Sessions : Step(s))

Spec == Init /\ [][Next]_vars /\ Fairness

-----------------------------------------------------------------------------
StepNames == {"lockLifecycle", "lockRegistry", "unlock", "load", "sync", "loadSeen", "syncSeen",
              "look", "repair", "content", "check", "point", "mark", "confirm", "resolve",
              "promote", "archive", "succeed", "replace", "conclude", "unarchive",
              "choose", "remember", "write", "enter", "again"}

(* Types, and mutual exclusion: a session that is past the locks of        *)
(* withActivePlanLifecycleMutation and has not given up holds them both, a *)
(* save the one of the registry.                                           *)
TypeOK ==
  /\ files \in [Plans -> {"future", "there", "gone"}]
  /\ registry \in [Plans -> Lifecycle]
  /\ active \in Plans \cup {None}
  /\ confirmed \in [Plans -> Confirmed]
  /\ lifecycleLock \in Holders /\ registryLock \in Holders /\ contextLeft \subseteq Plans
  /\ act \in [Sessions -> [todo : Seq(StepNames), op : OpNames \cup {"none"},
                           plan : Plans \cup {None}, target : Plans \cup {None},
                           reg : [Plans -> Lifecycle], seen : [Plans -> Lifecycle],
                           cur : Plans \cup {None}, was : Confirmed, life : Lifecycle]]
  /\ \A s \in Sessions :
       /\ /\ act[s].todo # <<>> /\ Head(act[s].todo) \notin {"lockLifecycle", "lockRegistry", "unlock"}
          /\ act[s].op \in Saves \cup {"list"} =>
               Head(act[s].todo) \in {"loadSeen", "syncSeen", "look", "repair", "point", "mark", "remember"}
          => lifecycleLock = s /\ registryLock = s
       /\ At(s, "enter") => registryLock = s
  /\ calls \in 0..MaxCalls /\ crashes \in 0..MaxCrashes /\ edits \in 0..MaxEdits

(* Whenever nobody is changing them, the registry and the active-plan file *)
(* agree on which plan is active, however plan files come and go, calls    *)
(* fail or give up, and however plan_save, which changes them in several   *)
(* turns, is overtaken: as long as no list and no save has written over    *)
(* something newer, and no save was cut off between its turns.  After any  *)
(* other crash nobody gets past the lock it leaves.                        *)
FilesAgree ==
  registryLock = "free" /\ ~overwritten /\ (\A s \in Sessions : ~Unsettled(s)) =>
    \A p \in Plans : There(p) => (registry[p] = "active" <=> p = active)

(* An archived plan or a draft gets another standing only from the call    *)
(* that is meant to give it, unless a list or a save overwrites something. *)
GuardedLifecycle ==
  [][\A p \in Plans : ~overwritten' /\ registry[p] \in {"archived", "draft"} =>
       \/ registry'[p] \in {registry[p], "archived", "absent"}
       \/ \E s \in Sessions : /\ registryLock = s /\ act[s].plan = p
                              /\ act[s].op = IF registry[p] = "draft" THEN "promote" ELSE "unarchive"]_vars

(* "Archive a plan so it is excluded from active rotation", plan_archive   *)
(* says: only unarchivePlan gives an archived plan another standing.       *)
ArchivedUntilUnarchived ==
  [][\A p \in Plans : registry[p] = "archived" =>
       \/ registry'[p] \in {"archived", "absent"}
       \/ \E s \in Sessions : act[s].op = "unarchive" /\ act[s].plan = p]_vars

(* Every call comes to an end, also when a lock was left behind: there are *)
(* only so many, so no call is under way again and again.                  *)
CallsEnd == []<>(\A s \in Sessions : act[s] = Idle)
=============================================================================
