------------------------------ MODULE Worktrees ------------------------------
(***************************************************************************)
(* Git worktrees of sessions, src/packages/workspace/src/worktree: the     *)
(* tools worktree_create, worktree_enter, worktree_leave, worktree_delete  *)
(* (tools.ts), executeWorktreeCleanup (operations.ts) and the tables they  *)
(* keep (state.ts).  Calls of several sessions run in one process; a step  *)
(* ends where a git command or a file is awaited.  Methods of the database *)
(* are synchronous.  Left out: terminals, the pending operations, which    *)
(* nothing reads, and other processes with the same database.              *)
(***************************************************************************)
EXTENDS Integers

CONSTANTS
  Owners,      \* sessions
  Calls,       \* tool calls that may be under way at once
  Names,       \* branches; each has its own directory
  None,
  MaxTools,    \* bound: calls ever made
  MaxChanges   \* bound: changes made in the directories

VARIABLES
  tree,        \* branch -> its directory: "none", "clean" or "dirty"
  ignored,     \* branches whose directory holds files that git ignores
  branches,    \* branches in the repository
  tracked,     \* session -> the branch of its row in `sessions', or None
  entered,     \* the row of `lifecycle_state': session and branch, or None
  call,        \* call -> where it is
  tools, changes,
  gone,        \* <<branch, force>>: changes that were deleted without a commit
  cut          \* branches with a git command that failed halfway or timed out, a call that was
               \* killed, or a deletion that overtook the creation

store == <<tracked, entered>>
git == <<tree, ignored, branches>>
vars == <<git, store, call, tools, changes, gone, cut>>

Quiet == [pc |-> "idle", who |-> None, branch |-> None, force |-> FALSE, snapshot |-> FALSE, entered |-> None]

Init ==
  /\ tree = [b \in Names |-> "none"] /\ ignored = {} /\ branches = {}
  /\ tracked = [s \in Owners |-> None] /\ entered = None
  /\ call = [c \in Calls |-> Quiet]
  /\ tools = 0 /\ changes = 0 /\ gone = {} /\ cut = {}

At(c, pc) == call[c].pc = pc
Go(c, pc) == call' = [call EXCEPT ![c].pc = pc]
End(c) == call' = [call EXCEPT ![c] = Quiet]
Its(c) == call[c].branch

(* git worktree remove: refused without --force when there are changes,    *)
(* whatever is ignored.                                                    *)
Refused(b, force) == tree[b] = "dirty" /\ ~force

Removed(b, force) ==
  /\ tree' = [tree EXCEPT ![b] = "none"]
  /\ ignored' = ignored \ {b}
  /\ gone' = IF tree[b] = "dirty" THEN gone \cup {<<b, force>>} ELSE gone
  /\ UNCHANGED branches

(* A creation that fails takes its directory away, unless that fails too:  *)
(* with --force, so that what somebody did there meanwhile goes as it goes *)
(* when a caller forces a deletion.                                        *)
Undone(b) ==
  \/ Removed(b, TRUE) /\ UNCHANGED cut
  \/ cut' = cut \cup {b} /\ UNCHANGED <<git, gone>>

-----------------------------------------------------------------------------
(* state.ts                                                                *)

(* removeSession and leaveSession of several rows: the row of the context  *)
(* entered is cleared with the session it names.                           *)
(* Mutant of Dropped: the context stays.                                   *)
DroppedRows(sessions) ==
  /\ tracked' = [s \in Owners |-> IF s \in sessions THEN None ELSE tracked[s]]
  /\ UNCHANGED entered

Dropped(sessions) ==
  /\ tracked' = [s \in Owners |-> IF s \in sessions THEN None ELSE tracked[s]]
  /\ entered' = IF entered # None /\ entered.who \in sessions THEN None ELSE entered

-----------------------------------------------------------------------------
(* worktree_create                                                         *)

BeginCreate(c, s, b) ==
  /\ At(c, "idle") /\ tools < MaxTools
  /\ tools' = tools + 1
  /\ tracked[s] = None
  /\ call' = [call EXCEPT ![c] = [Quiet EXCEPT !.pc = "add", !.who = s, !.branch = b]]
  /\ UNCHANGED <<git, store, changes, gone, cut>>

(* The directory must not be there, and git must not know the branch: the  *)
(* command always creates it.  A command that takes too long goes on alone.*)
GitAdd(c) ==
  LET b == Its(c)
  IN /\ At(c, "add")
     /\ \/ /\ tree[b] # "none" \/ b \in branches
           /\ End(c)
           /\ UNCHANGED <<tree, branches, cut>>
        \/ /\ tree[b] = "none" /\ b \notin branches
           /\ tree' = [tree EXCEPT ![b] = "clean"]
           /\ branches' = branches \cup {b}
           /\ \/ Go(c, "bootstrap") /\ UNCHANGED cut
              \/ End(c) /\ cut' = cut \cup {b}
     /\ UNCHANGED <<ignored, store, tools, changes, gone>>

(* Environment files are copied, which git may ignore; a linked            *)
(* node_modules removes the worktree again, though not its branch.         *)
Bootstrap(c) ==
  /\ At(c, "bootstrap")
  /\ \/ /\ ignored' \in {ignored, ignored \cup {Its(c)}}
        /\ Go(c, "track")
        /\ UNCHANGED <<tree, branches, gone, cut>>
     \/ Undone(Its(c)) /\ End(c)
  /\ UNCHANGED <<store, tools, changes>>

(* addSession: the session is the primary key, so the second of two calls  *)
(* of one session fails and takes its worktree away.                       *)
(* Mutant of Track: it leaves the worktree there.                          *)
TrackOnce(c) ==
  LET s == call[c].who
  IN /\ At(c, "track")
     /\ tracked' = IF tracked[s] = None THEN [tracked EXCEPT ![s] = Its(c)] ELSE tracked
     /\ End(c)
     /\ UNCHANGED <<git, entered, tools, changes, gone, cut>>

Track(c) ==
  LET s == call[c].who
  IN /\ At(c, "track")
     /\ \/ /\ tracked[s] = None
           /\ tracked' = [tracked EXCEPT ![s] = Its(c)]
           /\ UNCHANGED <<git, gone, cut>>
        \/ /\ tracked[s] # None
           /\ Undone(Its(c))
           /\ UNCHANGED tracked
     /\ End(c)
     /\ UNCHANGED <<entered, tools, changes>>

-----------------------------------------------------------------------------
(* worktree_enter and worktree_leave                                       *)

Enter(s) ==
  /\ tools < MaxTools /\ tracked[s] # None
  /\ tools' = tools + 1
  /\ entered' = [who |-> s, branch |-> tracked[s]]
  /\ UNCHANGED <<git, tracked, call, changes, gone, cut>>

ForceLeave ==
  /\ tools < MaxTools /\ entered # None
  /\ tools' = tools + 1
  /\ entered' = None
  /\ UNCHANGED <<git, tracked, call, changes, gone, cut>>

(* Without force the session must be the one entered, and its directory    *)
(* clean; git is asked in between.                                         *)
BeginLeave(c, s) ==
  /\ At(c, "idle") /\ tools < MaxTools
  /\ tools' = tools + 1
  /\ entered # None /\ entered.who = s
  /\ call' = [call EXCEPT ![c] = [Quiet EXCEPT !.pc = "status", !.who = s, !.branch = entered.branch]]
  /\ UNCHANGED <<git, store, changes, gone, cut>>

LeaveStatus(c) ==
  /\ At(c, "status")
  /\ IF tree[Its(c)] = "clean" THEN Go(c, "leave") ELSE End(c)
  /\ UNCHANGED <<git, store, tools, changes, gone, cut>>

Leave(c) ==
  /\ At(c, "leave")
  /\ entered' = IF entered # None /\ entered.who = call[c].who THEN None ELSE entered
  /\ End(c)
  /\ UNCHANGED <<git, tracked, tools, changes, gone, cut>>

-----------------------------------------------------------------------------
(* worktree_delete: executeWorktreeCleanup                                 *)

BeginDelete(c, b, snapshot, force) ==
  /\ At(c, "idle") /\ tools < MaxTools
  /\ tools' = tools + 1
  /\ call' = [call EXCEPT ![c] =
       [Quiet EXCEPT !.pc = "list", !.branch = b, !.snapshot = snapshot, !.force = force]]
  /\ UNCHANGED <<git, store, changes, gone, cut>>

(* The branch must have a worktree, which nobody has entered.  What was    *)
(* entered is kept for later.                                              *)
List(c) ==
  /\ At(c, "list")
  /\ IF tree[Its(c)] = "none" \/ (entered # None /\ entered.branch = Its(c) /\ ~call[c].force)
     THEN End(c)
     ELSE call' = [call EXCEPT ![c].pc = IF call[c].snapshot THEN "inspect" ELSE "remove",
                               ![c].entered = entered]
  /\ UNCHANGED <<git, store, tools, changes, gone, cut>>

Inspect(c) ==
  LET b == Its(c)
  IN /\ At(c, "inspect")
     /\ \/ tree[b] = "none" /\ End(c)
        \/ /\ tree[b] # "none"
           /\ IF b \in ignored /\ ~call[c].force THEN End(c)
              ELSE Go(c, IF tree[b] = "dirty" THEN "commit" ELSE "remove")
     /\ UNCHANGED <<git, store, tools, changes, gone, cut>>

Commit(c) ==
  LET b == Its(c)
  IN /\ At(c, "commit")
     /\ \/ End(c) /\ UNCHANGED tree
        \/ /\ tree[b] # "none"
           /\ tree' = [tree EXCEPT ![b] = "clean"]
           /\ Go(c, "verify")
     /\ UNCHANGED <<ignored, branches, store, tools, changes, gone, cut>>

Verify(c) ==
  /\ At(c, "verify")
  /\ IF tree[Its(c)] = "clean" THEN Go(c, "remove") ELSE End(c)
  /\ UNCHANGED <<git, store, tools, changes, gone, cut>>

(* The flag is passed on only when the caller forces the deletion.         *)
(* Mutant of RemoveFlag: after a snapshot it always is.                    *)
RemoveAlways(c) == call[c].force \/ call[c].snapshot
RemoveFlag(c) == call[c].force

(* A directory may go while the call that made it has yet to note it: that *)
(* call then adds a row for nothing.                                       *)
Making(b) == \E c \in Calls : Its(c) = b /\ call[c].pc \in {"bootstrap", "track"}

Remove(c) ==
  LET b == Its(c)
  IN /\ At(c, "remove")
     /\ \/ /\ tree[b] = "none" \/ Refused(b, RemoveFlag(c))
           /\ End(c)
           /\ UNCHANGED <<git, gone, cut>>
        \/ /\ tree[b] # "none" /\ ~Refused(b, RemoveFlag(c))
           /\ Removed(b, call[c].force)
           /\ \/ Go(c, "forget") /\ cut' = IF Making(b) THEN cut \cup {b} ELSE cut
              \/ End(c) /\ cut' = cut \cup {b}
     /\ UNCHANGED <<store, tools, changes>>

(* The rows of the branch go; if its directory was the one entered when    *)
(* the call looked, whatever is entered now is left.                       *)
Forget(c) ==
  LET sessions == {s \in Owners : tracked[s] = Its(c)}
  IN /\ At(c, "forget")
     /\ IF call[c].entered # None /\ call[c].entered.branch = Its(c)
        THEN /\ tracked' = [s \in Owners |-> IF s \in sessions THEN None ELSE tracked[s]]
             /\ entered' = None
        ELSE Dropped(sessions)
     /\ End(c)
     /\ UNCHANGED <<git, tools, changes, gone, cut>>

-----------------------------------------------------------------------------
(* Whoever works in a directory changes and commits files there.           *)
Change(b) ==
  /\ tree[b] # "none" /\ changes < MaxChanges
  /\ changes' = changes + 1
  /\ \/ tree' = [tree EXCEPT ![b] = IF @ = "clean" THEN "dirty" ELSE "clean"] /\ UNCHANGED ignored
     \/ ignored' = ignored \cup {b} /\ UNCHANGED tree
  /\ UNCHANGED <<branches, store, call, tools, gone, cut>>

(* The process ends with its calls.                                        *)
Killed ==
  /\ \E c \in Calls : ~At(c, "idle")
  /\ cut' = cut \cup {Its(c) : c \in {d \in Calls : call[d].pc \in {"bootstrap", "track", "forget"}}}
  /\ call' = [c \in Calls |-> Quiet]
  /\ UNCHANGED <<git, store, tools, changes, gone>>

Next ==
  \/ \E c \in Calls :
       \/ \E s \in Owners, b \in Names : BeginCreate(c, s, b)
       \/ GitAdd(c) \/ Bootstrap(c) \/ Track(c)
       \/ \E s \in Owners : BeginLeave(c, s)
       \/ LeaveStatus(c) \/ Leave(c)
       \/ \E b \in Names, snapshot, force \in BOOLEAN : BeginDelete(c, b, snapshot, force)
       \/ List(c) \/ Inspect(c) \/ Commit(c) \/ Verify(c) \/ Remove(c) \/ Forget(c)
  \/ (\E s \in Owners : Enter(s)) \/ ForceLeave
  \/ (\E b \in Names : Change(b)) \/ Killed

Spec == Init /\ [][Next]_vars
-----------------------------------------------------------------------------
(* Directories, rows and contexts name branches and sessions.              *)
TypeOK ==
  /\ tree \in [Names -> {"none", "clean", "dirty"}]
  /\ ignored \subseteq Names /\ branches \subseteq Names /\ cut \subseteq Names
  /\ tracked \in [Owners -> Names \cup {None}]
  /\ entered = None \/ entered \in [who : Owners, branch : Names]
  /\ \A c \in Calls : Its(c) \in Names \cup {None}
  /\ tools \in 0..MaxTools /\ changes \in 0..MaxChanges

(* Changes that were never committed disappear only with a deletion that   *)
(* was forced, whoever works in the directory while the calls look,        *)
(* snapshot and remove (operations.ts:203): `gone' knows of no other.      *)
UnforcedKeepsWork == \A g \in gone : g[2]

Deleting(b) == \E c \in Calls : Its(c) = b /\ At(c, "forget")

(* The tables and git agree where no call is between the two and none was  *)
(* cut off there: each row has its directory, each directory has one row,  *)
(* and the context entered is that of a session's own row.                 *)
RowsMatchTrees ==
  /\ \A b \in Names \ cut :
       LET owners == {s \in Owners : tracked[s] = b}
       IN /\ \A s, t \in owners : s = t
          /\ owners # {} => tree[b] # "none" \/ Deleting(b)
          /\ tree[b] # "none" => owners # {} \/ Making(b)
  /\ entered # None => tracked[entered.who] = entered.branch
=============================================================================
