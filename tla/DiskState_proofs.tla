--------------------------- MODULE DiskState_proofs --------------------------
(***************************************************************************)
(* What holds of the parts of MCDiskState for every value of the constants.*)
(* A behaviour exercises one part, and its steps are steps of that part:   *)
(* an invariant of a part is one of the whole.                             *)
(***************************************************************************)
EXTENDS MCDiskState, CodeIndex_proofs

allVars == <<part, vars, installation, worktrees, continuation, assignment>>

(* A step of the whole, in a part, is a step of that part or leaves it.    *)
LEMMA PartSteps ==
  ASSUME [DiskNext]_allVars
  PROVE  /\ part' = part /\ [Next]_vars
         /\ part = "modes" => [M!Next]_continuation
         /\ part = "worktrees" => [W!Next]_worktrees
         /\ part = "assignment" => [A!Next]_assignment
         /\ part = "installer" => [I!Next]_installation
<1>1. CASE DiskNext
  BY <1>1 DEF DiskNext
<1>2. CASE UNCHANGED allVars
  BY <1>2 DEF allVars
<1> QED BY <1>1, <1>2

-----------------------------------------------------------------------------
(* The modes of sessions                                                   *)

ModeSteps == {"idle", "copy", "open", "create", "write", "delete", "reopen", "restore"}
Mutations == [step : ModeSteps, session : Owners \cup {None}, new : M!Contents]

ModesTyped ==
  /\ M!TypeOK /\ mutation \in Mutations
  /\ ~M!At("idle") => mutation.session \in Owners

(* What is to be written of the other sessions is what they may be.        *)
OthersKept == \A s \in Owners \ {mutation.session} : mutation.new[s] \in possible[s]

(* Which of the file and its copy can be relied on at each step.           *)
WhileMutating ==
  /\ M!At("idle") => M!Kept(IF modes = Torn THEN copy ELSE modes)
  /\ M!At("copy") => modes # Torn /\ M!Kept(modes) /\ OthersKept
  /\ M!At("open") => modes # Torn /\ M!Kept(modes) /\ OthersKept /\ copy = modes
  /\ mutation.step \in {"create", "write"} => modes = Torn /\ M!Kept(copy) /\ OthersKept
  /\ M!At("delete") => modes = mutation.new /\ M!Kept(modes) /\ M!Kept(copy)
  /\ M!At("reopen") => modes # Torn /\ M!Kept(modes) /\ M!Kept(copy)
  /\ M!At("restore") => modes = Torn /\ M!Kept(copy)

ModesInvariant ==
  /\ ModesTyped
  /\ modes = NoFile => copy = NoFile
  /\ forgotten \/ WhileMutating

USE DEF M!At, M!Go

LEMMA RestTyped == M!Rest \in Mutations /\ M!Rest.step = "idle" /\ M!Nobody \in M!Contents
BY DEF M!Rest, Mutations, ModeSteps, M!Nobody, M!Contents

LEMMA ModesInit == M!Init => ModesInvariant
<1> SUFFICES ASSUME M!Init PROVE ModesInvariant
  OBVIOUS
<1>1. ModesTyped
  BY DiskAssumption, RestTyped DEF M!Init, ModesTyped, M!TypeOK, Mutations
<1>2. WhileMutating
  BY DiskAssumption, RestTyped DEF M!Init, WhileMutating, M!Kept, M!readStore, M!Nobody
<1> QED BY <1>1, <1>2 DEF ModesInvariant, M!Init

(* What a mutation writes has the records of the other sessions.           *)
LEMMA ChangesAreContents ==
  ASSUME NEW f \in {NoFile, Torn} \cup M!Contents
  PROVE  /\ M!readStore(f) \in M!Contents
         /\ \A asked \in M!ModeCalls :
              /\ M!setSessionMode(M!readStore(f), asked) \in M!Contents
              /\ \A s \in Owners \ {asked.session} :
                   M!setSessionMode(M!readStore(f), asked)[s] = M!readStore(f)[s]
         /\ \A t \in Owners, terminal \in BOOLEAN :
              /\ M!setSessionTmuxMetadata(M!readStore(f), t, terminal) \in M!Contents
              /\ \A s \in Owners \ {t} :
                   M!setSessionTmuxMetadata(M!readStore(f), t, terminal)[s] = M!readStore(f)[s]
<1> DEFINE C == M!Contents
           r == M!readStore(f)
<1>1. r \in C
  BY DEF M!readStore, M!Contents, M!Nobody
<1>2. ASSUME NEW asked \in M!ModeCalls
      PROVE  /\ M!setSessionMode(r, asked) \in C
             /\ \A s \in Owners \ {asked.session} : M!setSessionMode(r, asked)[s] = r[s]
  <2> PICK x \in C : x = r
    BY <1>1
  <2> HIDE DEF r
  <2> DEFINE new == [mode |-> asked.mode, key |-> asked.key, terminal |-> x[asked.session] # None /\ x[asked.session].terminal]
  <2>1. new \in M!Records
    BY <1>2 DEF M!Records, M!ModeCalls, M!Contents
  <2> QED BY <1>2, <2>1 DEF M!setSessionMode, M!ModeCalls, M!Contents
<1>3. ASSUME NEW t \in Owners, NEW terminal \in BOOLEAN
      PROVE  /\ M!setSessionTmuxMetadata(r, t, terminal) \in C
             /\ \A s \in Owners \ {t} : M!setSessionTmuxMetadata(r, t, terminal)[s] = r[s]
  <2> PICK x \in C : x = r
    BY <1>1
  <2> HIDE DEF r
  <2> QED BY DEF M!setSessionTmuxMetadata, M!Contents, M!Records, M!Modes
<1> QED BY <1>1, <1>2, <1>3

LEMMA MutateKeeps ==
  ASSUME ModesInvariant, NEW s \in Owners, NEW new \in M!Contents, M!Mutate(s, new),
         \A t \in Owners \ {s} : new[t] = M!readStore(modes)[t]
  PROVE  ModesInvariant'
<1>1. ModesTyped'
  BY DiskAssumption DEF ModesInvariant, ModesTyped, M!TypeOK, M!Mutate, Mutations, ModeSteps
<1>2. (modes = NoFile => copy = NoFile)'
  BY DEF ModesInvariant, M!Mutate
<1>3. (forgotten \/ WhileMutating)'
  BY DEF ModesInvariant, ModesTyped, M!TypeOK, M!Mutate, WhileMutating, OthersKept, M!Kept
<1> QED BY <1>1, <1>2, <1>3 DEF ModesInvariant

LEMMA WritingKeeps ==
  ASSUME ModesInvariant, M!Copy \/ M!Open \/ M!Write
  PROVE  ModesInvariant'
<1> USE DEF ModesInvariant
<1>1. CASE M!Copy
  <2>1. ModesTyped'
    BY <1>1, RestTyped DEF ModesTyped, M!TypeOK, M!Copy, Mutations, ModeSteps
  <2> QED BY <1>1, <2>1, RestTyped DEF ModesTyped, M!TypeOK, M!Copy, WhileMutating, OthersKept, M!Kept, Mutations
<1>2. CASE M!Open
  <2>1. ModesTyped'
    BY <1>2 DEF ModesTyped, M!TypeOK, M!Open, Mutations, ModeSteps
  <2> QED BY <1>2, <2>1, DiskAssumption DEF ModesTyped, M!TypeOK, M!Open, WhileMutating, OthersKept, M!Kept, Mutations
<1>3. CASE M!Write
  <2>0. mutation.session \in Owners /\ mutation.new[mutation.session] \in M!Records \cup {None}
    BY <1>3 DEF ModesTyped, Mutations, M!Write, M!Contents
  <2>1. ModesTyped'
    BY <1>3, <2>0, RestTyped DEF ModesTyped, M!TypeOK, M!Write, Mutations, ModeSteps
  <2>2. mutation.new \notin {NoFile, Torn} /\ M!readStore(mutation.new) = mutation.new
    BY DiskAssumption DEF ModesTyped, M!TypeOK, M!readStore
  <2>3. CASE modes' = modes
    BY <1>3, <2>1, <2>3, RestTyped, DiskAssumption DEF ModesTyped, M!TypeOK, M!Write, WhileMutating, OthersKept, M!Kept, Mutations
  <2>4. CASE modes' # modes
    <3>1. /\ modes' = mutation.new /\ mutation' = [mutation EXCEPT !.step = "delete"]
          /\ possible' = [possible EXCEPT ![mutation.session] = @ \cup {mutation.new[mutation.session]}]
          /\ copy' = copy /\ forgotten' = forgotten /\ mutation.step \in {"create", "write"}
      BY <1>3, <2>4 DEF M!Write
    <3>2. \A s \in Owners : possible[s] \subseteq possible'[s]
      BY <3>1 DEF ModesTyped, M!TypeOK
    <3>3. mutation.new[mutation.session] \in possible'[mutation.session]
      BY <3>1, <2>0 DEF ModesTyped, M!TypeOK
    <3>4. mutation'.step = "delete" /\ mutation'.new = mutation.new
      BY <3>1 DEF ModesTyped, Mutations
    <3>5. WhileMutating => WhileMutating'
      BY <3>1, <3>2, <3>3, <3>4, <2>2 DEF WhileMutating, OthersKept, M!Kept
    <3> QED BY <2>1, <3>1, <3>5, <2>2
  <2> QED BY <2>3, <2>4
<1> QED BY <1>1, <1>2, <1>3

LEMMA EndingKeeps ==
  ASSUME ModesInvariant, M!DeleteCopy \/ M!Reopen \/ M!Restore \/ M!Killed
  PROVE  ModesInvariant'
<1> USE DEF ModesInvariant
<1>1. CASE M!DeleteCopy
  <2>0. mutation.session \in Owners /\ mutation.new[mutation.session] \in M!Records \cup {None}
    BY <1>1 DEF ModesTyped, Mutations, M!DeleteCopy, M!Contents
  <2>1. ModesTyped'
    BY <1>1, <2>0, RestTyped DEF ModesTyped, M!TypeOK, M!DeleteCopy, Mutations, ModeSteps
  <2> QED BY <1>1, <2>1, DiskAssumption, RestTyped DEF ModesTyped, M!TypeOK, M!DeleteCopy, WhileMutating, M!Kept, M!readStore, Mutations
<1>2. CASE M!Reopen
  <2>1. ModesTyped'
    BY <1>2 DEF ModesTyped, M!TypeOK, M!Reopen, Mutations, ModeSteps
  <2> QED BY <1>2, <2>1, DiskAssumption DEF ModesTyped, M!TypeOK, M!Reopen, WhileMutating, M!Kept, Mutations
<1>3. CASE M!Restore
  <2>1. ModesTyped'
    BY <1>3, RestTyped DEF ModesTyped, M!TypeOK, M!Restore, M!Restored, Mutations, ModeSteps
  <2> QED BY <1>3, <2>1, DiskAssumption, RestTyped DEF ModesTyped, M!TypeOK, M!Restore, M!Restored, WhileMutating, M!Kept, M!readStore, Mutations
<1>4. CASE M!Killed
  <2>1. ModesTyped'
    BY <1>4, RestTyped DEF ModesTyped, M!TypeOK, M!Killed, Mutations, ModeSteps
  <2> QED BY <1>4, <2>1, RestTyped DEF ModesTyped, M!TypeOK, M!Killed, WhileMutating, M!Kept, Mutations, ModeSteps
<1> QED BY <1>1, <1>2, <1>3, <1>4

LEMMA ModesStep == ModesInvariant /\ [M!Next]_continuation => ModesInvariant'
<1> SUFFICES ASSUME ModesInvariant, [M!Next]_continuation
             PROVE  ModesInvariant'
  OBVIOUS
<1>1. modes \in {NoFile, Torn} \cup M!Contents
  BY DEF ModesInvariant, ModesTyped, M!TypeOK
<1>2. ASSUME NEW asked \in M!ModeCalls, M!SetMode(asked)
      PROVE  ModesInvariant'
  BY <1>1, <1>2, ChangesAreContents, MutateKeeps DEF M!SetMode, M!ModeCalls
<1>3. ASSUME NEW s \in Owners, M!NoteTerminal(s)
      PROVE  ModesInvariant'
  BY <1>1, <1>3, ChangesAreContents, MutateKeeps DEF M!NoteTerminal
<1>4. CASE UNCHANGED continuation
  BY <1>4 DEF continuation, ModesInvariant, ModesTyped, M!TypeOK, WhileMutating, OthersKept, M!Kept
<1> QED BY <1>2, <1>3, <1>4, WritingKeeps, EndingKeeps DEF M!Next

LEMMA ModesInvariantHolds == DiskSpec => [](part = "modes" => ModesInvariant)
<1>1. DiskInit => (part = "modes" => ModesInvariant)
  BY ModesInit DEF DiskInit
<1>2. (part = "modes" => ModesInvariant) /\ [DiskNext]_allVars => (part = "modes" => ModesInvariant)'
  BY PartSteps, ModesStep
<1> QED BY <1>1, <1>2, PTL DEF DiskSpec, allVars

(* A session keeps its mode through any sequence of calls of all sessions, *)
(* failed writes and kills (continuation/state.ts), for every number of    *)
(* sessions, keys and calls.                                               *)
THEOREM ModesAreKept == DiskSpec => []ModesKept
<1>1. (part = "modes" => ModesInvariant) => ModesKept
  BY DiskAssumption DEF ModesKept, M!ModesKept, ModesInvariant, ModesTyped, M!TypeOK, Mutations, ModeSteps, WhileMutating, M!Kept
<1> QED BY <1>1, ModesInvariantHolds, PTL

-----------------------------------------------------------------------------
(* Worktrees                                                               *)

CallSteps == {"idle", "add", "bootstrap", "track", "status", "leave", "list", "inspect", "commit", "verify",
              "remove", "forget"}
Contexts == {None} \cup [who : Owners, branch : Names]
WorktreeCalls == [pc : CallSteps, who : Owners \cup {None}, branch : Names \cup {None},
                  force : BOOLEAN, snapshot : BOOLEAN, entered : Contexts]

CallsTyped ==
  /\ call \in [Calls -> WorktreeCalls]
  /\ \A c \in Calls :
       /\ ~W!At(c, "idle") => W!Its(c) \in Names
       /\ call[c].pc \in {"add", "bootstrap", "track", "status", "leave"} => call[c].who \in Owners

WorktreesTyped == W!TypeOK /\ CallsTyped

(* A call that has yet to note the directory it made, and one that has yet *)
(* to forget the rows of the directory it removed.                         *)
Maker(c, b) == W!Its(c) = b /\ call[c].pc \in {"bootstrap", "track"}
Deleter(c, b) == W!Its(c) = b /\ W!At(c, "forget")
There(b) == tree[b] # "none"
Owned(b) == \E s \in Owners : tracked[s] = b

(* The directory of a branch has one row, or one call that will make it; a *)
(* row without a directory has a call that will forget it; and a branch is *)
(* made once.                                                              *)
Consistent(b) ==
  /\ \A s, t \in Owners : tracked[s] = b /\ tracked[t] = b => s = t
  /\ \A c, d \in Calls : Maker(c, b) /\ Maker(d, b) => c = d
  /\ \A c \in Calls : Maker(c, b) => There(b) /\ ~Owned(b)
  /\ \A c \in Calls : Deleter(c, b) => ~There(b)
  /\ There(b) => Owned(b) \/ \E c \in Calls : Maker(c, b)
  /\ Owned(b) => There(b) \/ \E c \in Calls : Deleter(c, b)
  /\ There(b) \/ Owned(b) \/ (\E c \in Calls : Deleter(c, b)) => b \in branches

TreesConsistent == \A b \in Names \ cut : Consistent(b)
EnteredIsRow == entered # None => tracked[entered.who] = entered.branch

WorktreesInvariant ==
  /\ WorktreesTyped /\ TreesConsistent /\ EnteredIsRow
  /\ \A g \in gone : g[2]

LEMMA WorktreesInit == W!Init => WorktreesInvariant
<1> SUFFICES ASSUME W!Init PROVE WorktreesInvariant
  OBVIOUS
<1>1. WorktreesTyped
  BY DiskAssumption DEF W!Init, WorktreesTyped, W!TypeOK, CallsTyped, WorktreeCalls, Contexts, CallSteps, W!Quiet, W!At, W!Its
<1>2. TreesConsistent
  BY DiskAssumption DEF W!Init, TreesConsistent, Consistent, Maker, Deleter, There, Owned, W!Its, W!At, W!Quiet
<1> QED BY <1>1, <1>2 DEF W!Init, WorktreesInvariant, EnteredIsRow

(* A step that changes nothing of a branch leaves it consistent.           *)
LEMMA BranchUntouched ==
  ASSUME NEW b \in Names, Consistent(b),
         (There(b)' <=> There(b)), b \in branches => b \in branches',
         \A s \in Owners : tracked'[s] = b <=> tracked[s] = b,
         \A c \in Calls : (Maker(c, b)' <=> Maker(c, b)) /\ (Deleter(c, b)' <=> Deleter(c, b))
  PROVE  Consistent(b)'
BY DEF Consistent, Owned

(* What becomes of the makers and deleters when one call goes on.          *)
OthersStand(c) ==
  \A d \in Calls \ {c}, b \in Names : (Maker(d, b)' <=> Maker(d, b)) /\ (Deleter(d, b)' <=> Deleter(d, b))

LEMMA CallBecomes ==
  ASSUME CallsTyped, NEW c \in Calls, NEW x \in WorktreeCalls, call' = [call EXCEPT ![c] = x],
         x.pc # "idle" => x.branch \in Names,
         x.pc \in {"add", "bootstrap", "track", "status", "leave"} => x.who \in Owners
  PROVE  /\ CallsTyped' /\ OthersStand(c)
         /\ \A b \in Names : /\ Maker(c, b)' <=> (x.branch = b /\ x.pc \in {"bootstrap", "track"})
                             /\ Deleter(c, b)' <=> (x.branch = b /\ x.pc = "forget")
<1>1. call' \in [Calls -> WorktreeCalls] /\ call'[c] = x /\ \A d \in Calls \ {c} : call'[d] = call[d]
  BY DEF CallsTyped
<1>2. CallsTyped'
  BY <1>1 DEF CallsTyped, W!At, W!Its
<1> QED BY <1>1, <1>2 DEF OthersStand, Maker, Deleter, W!Its, W!At

LEMMA CallGoes ==
  ASSUME CallsTyped, NEW c \in Calls, NEW pc \in CallSteps, W!Go(c, pc), ~W!At(c, "idle"),
         pc \in {"add", "bootstrap", "track", "status", "leave"} => call[c].who \in Owners
  PROVE  /\ CallsTyped' /\ OthersStand(c)
         /\ \A b \in Names : /\ Maker(c, b)' <=> (W!Its(c) = b /\ pc \in {"bootstrap", "track"})
                             /\ Deleter(c, b)' <=> (W!Its(c) = b /\ pc = "forget")
<1> PICK x \in WorktreeCalls : x = [call[c] EXCEPT !.pc = pc]
  BY DEF CallsTyped, WorktreeCalls
<1>1. call' = [call EXCEPT ![c] = x]
  BY DEF W!Go, CallsTyped
<1>2. x.pc = pc /\ x.branch = W!Its(c) /\ x.who = call[c].who
  BY DEF W!Its, CallsTyped, WorktreeCalls
<1>3. W!Its(c) \in Names
  BY DEF CallsTyped
<1>4. /\ CallsTyped' /\ OthersStand(c)
      /\ \A b \in Names : /\ Maker(c, b)' <=> (x.branch = b /\ x.pc \in {"bootstrap", "track"})
                          /\ Deleter(c, b)' <=> (x.branch = b /\ x.pc = "forget")
  <2>1. (x.pc # "idle" => x.branch \in Names) /\ (x.pc \in {"add", "bootstrap", "track", "status", "leave"} => x.who \in Owners)
    BY <1>2, <1>3
  <2> QED BY <1>1, <2>1, CallBecomes
<1> QED BY <1>2, <1>4

LEMMA CallEnds ==
  ASSUME CallsTyped, NEW c \in Calls, W!End(c)
  PROVE  /\ CallsTyped' /\ OthersStand(c)
         /\ \A b \in Names : ~Maker(c, b)' /\ ~Deleter(c, b)'
<1>1. W!Quiet \in WorktreeCalls /\ W!Quiet.pc = "idle"
  BY DEF W!Quiet, WorktreeCalls, CallSteps, Contexts
<1> QED BY <1>1, CallBecomes DEF W!End

(* A step that makes and forgets nothing.                                  *)
LEMMA QuietStep ==
  ASSUME WorktreesInvariant, CallsTyped', W!TypeOK',
         \A b \in Names : (There(b)' <=> There(b)),
         branches' = branches, cut \subseteq cut', tracked' = tracked, gone' = gone,
         entered' = entered \/ EnteredIsRow',
         \A c \in Calls, b \in Names : (Maker(c, b)' <=> Maker(c, b)) /\ (Deleter(c, b)' <=> Deleter(c, b))
  PROVE  WorktreesInvariant'
<1>1. TreesConsistent'
  BY BranchUntouched DEF WorktreesInvariant, TreesConsistent
<1> QED BY <1>1 DEF WorktreesInvariant, WorktreesTyped, EnteredIsRow

LEMMA BeginningKeeps ==
  ASSUME WorktreesInvariant, NEW c \in Calls,
         \/ \E s \in Owners, b \in Names : W!BeginCreate(c, s, b)
         \/ \E s \in Owners : W!BeginLeave(c, s)
         \/ \E b \in Names, snapshot, force \in BOOLEAN : W!BeginDelete(c, b, snapshot, force)
  PROVE  WorktreesInvariant'
<1>1. PICK x \in WorktreeCalls :
        /\ call' = [call EXCEPT ![c] = x] /\ x.branch \in Names
        /\ \/ x.pc \in {"add", "status"} /\ x.who \in Owners
           \/ x.pc = "list"
  <2> USE DEF W!Quiet, WorktreeCalls, CallSteps, Contexts
  <2>1. CASE \E s \in Owners, b \in Names : W!BeginCreate(c, s, b)
    <3> PICK s \in Owners, b \in Names : W!BeginCreate(c, s, b)
      BY <2>1
    <3> WITNESS [W!Quiet EXCEPT !.pc = "add", !.who = s, !.branch = b] \in WorktreeCalls
    <3> QED BY DEF W!BeginCreate
  <2>2. CASE \E s \in Owners : W!BeginLeave(c, s)
    <3> PICK s \in Owners : W!BeginLeave(c, s)
      BY <2>2
    <3>1. entered.branch \in Names
      BY DEF W!BeginLeave, WorktreesInvariant, WorktreesTyped, W!TypeOK
    <3> WITNESS [W!Quiet EXCEPT !.pc = "status", !.who = s, !.branch = entered.branch] \in WorktreeCalls
    <3> QED BY <3>1 DEF W!BeginLeave
  <2>3. CASE \E b \in Names, snapshot, force \in BOOLEAN : W!BeginDelete(c, b, snapshot, force)
    <3> PICK b \in Names, snapshot \in BOOLEAN, force \in BOOLEAN : W!BeginDelete(c, b, snapshot, force)
      BY <2>3
    <3> WITNESS [W!Quiet EXCEPT !.pc = "list", !.branch = b, !.snapshot = snapshot, !.force = force] \in WorktreeCalls
    <3> QED BY DEF W!BeginDelete
  <2> QED BY <2>1, <2>2, <2>3
<1>2. /\ UNCHANGED <<tree, ignored, branches, tracked, entered, changes, gone, cut>>
      /\ W!At(c, "idle") /\ tools < MaxTools /\ tools' = tools + 1
  BY DEF W!BeginCreate, W!BeginLeave, W!BeginDelete, W!git, W!store
<1>3. /\ CallsTyped' /\ OthersStand(c) /\ \A e \in Names : ~Maker(c, e)' /\ ~Deleter(c, e)'
  BY <1>1, CallBecomes DEF WorktreesInvariant, WorktreesTyped
<1>4. W!TypeOK'
  BY <1>2, <1>3, DiskAssumption DEF WorktreesInvariant, WorktreesTyped, W!TypeOK, CallsTyped, WorktreeCalls, W!Its
<1>5. \A e \in Names : ~Maker(c, e) /\ ~Deleter(c, e)
  BY <1>2 DEF Maker, Deleter, W!At
<1> QED BY <1>2, <1>3, <1>4, <1>5, QuietStep DEF OthersStand, There

LEMMA LookingKeeps ==
  ASSUME WorktreesInvariant, NEW c \in Calls,
         W!LeaveStatus(c) \/ W!Leave(c) \/ W!List(c) \/ W!Inspect(c) \/ W!Commit(c) \/ W!Verify(c)
  PROVE  WorktreesInvariant'
<1> USE DEF WorktreesInvariant, WorktreesTyped
<1>1. /\ UNCHANGED <<ignored, branches, tracked, tools, changes, gone, cut>>
      /\ call[c].pc \in {"status", "leave", "list", "inspect", "commit", "verify"}
  BY DEF W!LeaveStatus, W!Leave, W!List, W!Inspect, W!Commit, W!Verify, W!At, W!git, W!store
<1>2. tree' \in [Names -> {"none", "clean", "dirty"}] /\ \A b \in Names : (There(b)' <=> There(b))
  <2>1. CASE W!Commit(c)
    BY <2>1 DEF W!Commit, There, W!TypeOK, W!git, W!store
  <2>2. CASE ~W!Commit(c)
    BY <2>2 DEF W!LeaveStatus, W!Leave, W!List, W!Inspect, W!Verify, W!git, There, W!TypeOK
  <2> QED BY <2>1, <2>2
<1>3. entered' = entered \/ entered' = None
  BY DEF W!LeaveStatus, W!Leave, W!List, W!Inspect, W!Commit, W!Verify, W!git, W!store
<1>4. \/ W!End(c)
      \/ \E pc \in {"leave", "commit", "remove", "verify"} : W!Go(c, pc) /\ (pc = "leave" => W!At(c, "status"))
      \/ W!List(c) /\ call' = [call EXCEPT ![c].pc = IF call[c].snapshot THEN "inspect" ELSE "remove", ![c].entered = entered]
  BY DEF W!LeaveStatus, W!Leave, W!List, W!Inspect, W!Commit, W!Verify
<1>5. CallsTyped' /\ OthersStand(c) /\ \A e \in Names : ~Maker(c, e)' /\ ~Deleter(c, e)'
  <2>1. CASE W!End(c)
    BY <2>1, CallEnds
  <2>2. ASSUME NEW pc \in {"leave", "commit", "remove", "verify"}, W!Go(c, pc), pc = "leave" => W!At(c, "status")
        PROVE  CallsTyped' /\ OthersStand(c) /\ \A e \in Names : ~Maker(c, e)' /\ ~Deleter(c, e)'
    <3>1. ~W!At(c, "idle") /\ pc \in CallSteps
      BY <1>1 DEF W!At, CallSteps
    <3>2. pc \in {"add", "bootstrap", "track", "status", "leave"} => call[c].who \in Owners
      BY <2>2 DEF CallsTyped, W!At
    <3> QED BY <2>2, <3>1, <3>2, CallGoes
  <2>3. CASE W!List(c) /\ call' = [call EXCEPT ![c].pc = IF call[c].snapshot THEN "inspect" ELSE "remove", ![c].entered = entered]
    <3>1. PICK x \in WorktreeCalls : x = [call[c] EXCEPT !.pc = IF call[c].snapshot THEN "inspect" ELSE "remove", !.entered = entered]
      <4> PICK y \in WorktreeCalls : y = call[c]
        BY DEF CallsTyped
      <4>1. entered \in Contexts
        BY DEF Contexts, W!TypeOK
      <4>2. [y EXCEPT !.pc = IF y.snapshot THEN "inspect" ELSE "remove", !.entered = entered] \in WorktreeCalls
        BY <4>1 DEF WorktreeCalls, CallSteps
      <4> QED BY <4>2
    <3>2. x.pc \in {"inspect", "remove"} /\ x.branch = W!Its(c)
      BY <3>1 DEF CallsTyped, WorktreeCalls, W!Its
    <3>3. call' = [call EXCEPT ![c] = x] /\ W!Its(c) \in Names
      BY <2>3, <3>1, <1>1 DEF CallsTyped, W!At
    <3> QED BY <3>2, <3>3, CallBecomes
  <2> QED BY <1>4, <2>1, <2>2, <2>3
<1>6. W!TypeOK'
  BY <1>1, <1>2, <1>3, <1>5 DEF W!TypeOK, CallsTyped, WorktreeCalls, W!Its
<1>7. \A e \in Names : ~Maker(c, e) /\ ~Deleter(c, e)
  BY <1>1 DEF Maker, Deleter, W!At
<1>8. entered' = entered \/ EnteredIsRow'
  BY <1>3 DEF EnteredIsRow
<1> QED BY <1>1, <1>2, <1>5, <1>6, <1>7, <1>8, QuietStep DEF OthersStand

LEMMA ElsewhereKeeps ==
  ASSUME WorktreesInvariant,
         (\E s \in Owners : W!Enter(s)) \/ W!ForceLeave \/ (\E b \in Names : W!Change(b))
  PROVE  WorktreesInvariant'
<1> USE DEF WorktreesInvariant, WorktreesTyped
<1>1. UNCHANGED <<branches, tracked, call, gone, cut>>
  BY DEF W!Enter, W!ForceLeave, W!Change, W!git, W!store
<1>2. \A e \in Names : (There(e)' <=> There(e))
  BY DEF W!Enter, W!ForceLeave, W!Change, W!git, W!TypeOK, There
<1>3. entered' = entered \/ EnteredIsRow'
  BY DEF W!Enter, W!ForceLeave, W!Change, W!store, EnteredIsRow
<1>4. W!TypeOK'
  <2>1. CASE \E s \in Owners : W!Enter(s)
    BY <2>1, DiskAssumption DEF W!Enter, W!git, W!TypeOK, W!Its
  <2>2. CASE W!ForceLeave
    BY <2>2, DiskAssumption DEF W!ForceLeave, W!git, W!TypeOK, W!Its
  <2>3. CASE \E b \in Names : W!Change(b)
    BY <2>3, DiskAssumption DEF W!Change, W!store, W!TypeOK, W!Its
  <2> QED BY <2>1, <2>2, <2>3
<1>5. CallsTyped' /\ \A c \in Calls, e \in Names : (Maker(c, e)' <=> Maker(c, e)) /\ (Deleter(c, e)' <=> Deleter(c, e))
  BY <1>1 DEF CallsTyped, Maker, Deleter, W!Its, W!At
<1> QED BY <1>1, <1>2, <1>3, <1>4, <1>5, QuietStep

(* A step of a call changes nothing of the other branches.                 *)
LEMMA LocalStep ==
  ASSUME WorktreesInvariant, NEW c \in Calls, NEW b \in Names, OthersStand(c), cut \subseteq cut',
         \A e \in Names \ {b} :
           /\ There(e)' <=> There(e)
           /\ e \in branches => e \in branches'
           /\ \A s \in Owners : tracked'[s] = e <=> tracked[s] = e
           /\ Maker(c, e)' <=> Maker(c, e)
           /\ Deleter(c, e)' <=> Deleter(c, e),
         b \notin cut' => Consistent(b)'
  PROVE  TreesConsistent'
<1> SUFFICES ASSUME NEW e \in Names, e \notin cut'
             PROVE  Consistent(e)'
  BY DEF TreesConsistent
<1>1. CASE e = b
  BY <1>1
<1>2. CASE e # b
  <2>1. Consistent(e)
    BY DEF WorktreesInvariant, TreesConsistent
  <2> QED BY <1>2, <2>1, BranchUntouched DEF OthersStand
<1> QED BY <1>1, <1>2

LEMMA GitAddKeeps ==
  ASSUME WorktreesInvariant, NEW c \in Calls, W!GitAdd(c)
  PROVE  WorktreesInvariant'
<1> USE DEF WorktreesInvariant, WorktreesTyped
<1> PICK b \in Names : b = W!Its(c)
  BY DEF CallsTyped, W!GitAdd, W!At
<1>1. /\ UNCHANGED <<ignored, tracked, entered, tools, changes, gone>>
      /\ W!At(c, "add") /\ call[c].who \in Owners
      /\ \A e \in Names : ~Maker(c, e) /\ ~Deleter(c, e)
  BY DEF W!GitAdd, W!store, W!At, CallsTyped, Maker, Deleter
<1>2. W!End(c) \/ W!Go(c, "bootstrap")
  BY DEF W!GitAdd
<1>3. CallsTyped' /\ OthersStand(c) /\ \A e \in Names \ {b} : ~Maker(c, e)' /\ ~Deleter(c, e)'
  <2>1. CASE W!End(c)
    BY <2>1, CallEnds
  <2>2. CASE W!Go(c, "bootstrap")
    BY <2>2, <1>1, CallGoes DEF CallSteps, W!At
  <2> QED BY <1>2, <2>1, <2>2
<1>4. CASE UNCHANGED <<tree, branches, cut>> /\ W!End(c)
  <2>1. W!TypeOK'
    BY <1>1, <1>3, <1>4 DEF W!TypeOK, CallsTyped, WorktreeCalls, W!Its
  <2> QED BY <1>1, <1>3, <1>4, <2>1, CallEnds, QuietStep DEF OthersStand, There
<1>5. CASE /\ tree[b] = "none" /\ b \notin branches
           /\ tree' = [tree EXCEPT ![b] = "clean"] /\ branches' = branches \cup {b}
           /\ \/ W!Go(c, "bootstrap") /\ UNCHANGED cut
              \/ W!End(c) /\ cut' = cut \cup {b}
  <2>1. W!TypeOK'
    BY <1>1, <1>3, <1>5 DEF W!TypeOK, CallsTyped, WorktreeCalls, W!Its
  <2>2. ASSUME b \notin cut'
        PROVE  Consistent(b)'
    <3>1. Consistent(b) /\ W!Go(c, "bootstrap")
      BY <1>5, <2>2 DEF TreesConsistent
    <3>2. ~There(b) /\ There(b)' /\ b \in branches'
      BY <1>5 DEF There, W!TypeOK
    <3>3. Maker(c, b)' /\ ~Deleter(c, b)'
      BY <3>1, <1>1, CallGoes DEF CallSteps, W!At
    <3>4. ~Owned(b) /\ \A d \in Calls : ~Maker(d, b) /\ ~Deleter(d, b)
      BY <3>1, <3>2, <1>5 DEF Consistent
    <3>5. ~Owned(b)' /\ \A s \in Owners : tracked'[s] # b
      BY <3>4, <1>1 DEF Owned
    <3>6. \A d \in Calls \ {c} : ~Maker(d, b)' /\ ~Deleter(d, b)'
      BY <3>4, <1>3 DEF OthersStand
    <3> QED BY <3>2, <3>3, <3>5, <3>6 DEF Consistent
  <2>3. TreesConsistent'
    <3>1. \A e \in Names \ {b} : There(e)' <=> There(e)
      BY <1>5 DEF There, W!TypeOK
    <3> QED BY <1>1, <1>3, <1>5, <2>2, <3>1, LocalStep
  <2> QED BY <1>1, <1>3, <2>1, <2>3 DEF EnteredIsRow
<1> QED BY <1>4, <1>5 DEF W!GitAdd

(* A creation that is undone leaves no directory, or a branch cut.         *)
LEMMA UndoKeeps ==
  ASSUME WorktreesInvariant, NEW c \in Calls, NEW b \in Names, Maker(c, b), W!Undone(b), W!End(c),
         UNCHANGED <<tracked, entered, tools, changes>>
  PROVE  WorktreesInvariant'
<1> USE DEF WorktreesInvariant, WorktreesTyped
<1>1. CallsTyped' /\ OthersStand(c) /\ \A e \in Names : ~Maker(c, e)' /\ ~Deleter(c, e)'
  BY CallEnds
<1>2. ~Deleter(c, b) /\ \A e \in Names \ {b} : ~Maker(c, e) /\ ~Deleter(c, e)
  BY DEF Maker, Deleter, W!At
<1>3. /\ \A g \in gone' : g[2]
      /\ branches' = branches /\ cut \subseteq cut' /\ cut' \subseteq Names
      /\ ignored' \subseteq Names /\ tree' \in [Names -> {"none", "clean", "dirty"}]
      /\ \A e \in Names \ {b} : There(e)' <=> There(e)
      /\ b \notin cut' => ~There(b)'
  <2>1. CASE W!Removed(b, TRUE) /\ UNCHANGED cut
    <3>1. \A g \in gone' : g[2]
      <4>1. gone' \subseteq gone \cup {<<b, TRUE>>}
        BY <2>1 DEF W!Removed
      <4>2. \A g : g = <<b, TRUE>> => g[2] = TRUE
        OBVIOUS
      <4> QED BY <4>1, <4>2
    <3> QED BY <2>1, <3>1 DEF W!Removed, W!TypeOK, There
  <2>2. CASE cut' = cut \cup {b} /\ UNCHANGED <<W!git, gone>>
    BY <2>2 DEF W!git, W!TypeOK, There
  <2> QED BY <2>1, <2>2 DEF W!Undone
<1>4. W!TypeOK'
  BY <1>1, <1>3 DEF W!TypeOK, CallsTyped, WorktreeCalls, W!Its
<1>5. ASSUME b \notin cut'
      PROVE  Consistent(b)'
  <2>1. Consistent(b)
    BY <1>3, <1>5 DEF TreesConsistent
  <2>2. There(b) /\ ~Owned(b) /\ \A d \in Calls : ~Deleter(d, b) /\ (d # c => ~Maker(d, b))
    BY <2>1 DEF Consistent
  <2>3. ~Owned(b)' /\ \A s \in Owners : tracked'[s] # b
    BY <2>2 DEF Owned
  <2>4. \A d \in Calls : ~Deleter(d, b)' /\ ~Maker(d, b)'
    BY <2>2, <1>1 DEF OthersStand
  <2> QED BY <2>3, <2>4, <1>3, <1>5 DEF Consistent
<1>6. TreesConsistent'
  BY <1>1, <1>2, <1>3, <1>5, LocalStep
<1> QED BY <1>1, <1>3, <1>4, <1>6 DEF EnteredIsRow

LEMMA BootstrapKeeps ==
  ASSUME WorktreesInvariant, NEW c \in Calls, W!Bootstrap(c)
  PROVE  WorktreesInvariant'
<1> USE DEF WorktreesInvariant, WorktreesTyped
<1> PICK b \in Names : b = W!Its(c)
  BY DEF CallsTyped, W!Bootstrap, W!At
<1>1. W!At(c, "bootstrap") /\ call[c].who \in Owners /\ Maker(c, b) /\ UNCHANGED <<tracked, entered, tools, changes>>
  BY DEF W!Bootstrap, W!At, CallsTyped, Maker, W!store
<1>2. CASE ignored' \in {ignored, ignored \cup {b}} /\ W!Go(c, "track") /\ UNCHANGED <<tree, branches, gone, cut>>
  <2>1. CallsTyped' /\ OthersStand(c) /\ \A e \in Names : (Maker(c, e)' <=> W!Its(c) = e) /\ ~Deleter(c, e)'
    BY <1>1, <1>2, CallGoes DEF CallSteps, W!At
  <2>2. \A e \in Names : (Maker(c, e) <=> W!Its(c) = e) /\ ~Deleter(c, e)
    BY <1>1 DEF Maker, Deleter, W!At
  <2>3. W!TypeOK'
    BY <1>1, <1>2, <2>1 DEF W!TypeOK, CallsTyped, WorktreeCalls, W!Its
  <2> QED BY <1>1, <1>2, <2>1, <2>2, <2>3, QuietStep DEF OthersStand, There
<1>3. CASE W!Undone(b) /\ W!End(c)
  BY <1>1, <1>3, UndoKeeps
<1> QED BY <1>2, <1>3 DEF W!Bootstrap

LEMMA TrackKeeps ==
  ASSUME WorktreesInvariant, NEW c \in Calls, W!Track(c)
  PROVE  WorktreesInvariant'
<1> USE DEF WorktreesInvariant, WorktreesTyped
<1> PICK b \in Names : b = W!Its(c)
  BY DEF CallsTyped, W!Track, W!At
<1> PICK s \in Owners : s = call[c].who
  BY DEF CallsTyped, W!Track, W!At
<1>1. W!At(c, "track") /\ Maker(c, b) /\ W!End(c) /\ UNCHANGED <<entered, tools, changes>>
  BY DEF W!Track, W!At, Maker, W!store
<1>2. CASE W!Undone(b) /\ UNCHANGED tracked
  BY <1>1, <1>2, UndoKeeps
<1>3. CASE tracked[s] = None /\ tracked' = [tracked EXCEPT ![s] = b] /\ UNCHANGED <<tree, ignored, branches, gone, cut>>
  <2>1. CallsTyped' /\ OthersStand(c) /\ \A e \in Names : ~Maker(c, e)' /\ ~Deleter(c, e)'
    BY <1>1, CallEnds
  <2>2. ~Deleter(c, b) /\ \A e \in Names \ {b} : ~Maker(c, e) /\ ~Deleter(c, e)
    BY <1>1 DEF Maker, Deleter, W!At
  <2>3. W!TypeOK'
    BY <1>1, <1>3, <2>1 DEF W!TypeOK, CallsTyped, WorktreeCalls, W!Its
  <2>4. /\ tracked'[s] = b /\ \A t \in Owners \ {s} : tracked'[t] = tracked[t]
        /\ \A e \in Names \ {b}, t \in Owners : tracked'[t] = e <=> tracked[t] = e
    BY <1>3, DiskAssumption DEF W!TypeOK
  <2>5. ASSUME b \notin cut'
        PROVE  Consistent(b)'
    <3>1. Consistent(b)
      BY <1>3, <2>5 DEF TreesConsistent
    <3>2. There(b) /\ ~Owned(b) /\ b \in branches /\ \A d \in Calls : ~Deleter(d, b) /\ (d # c => ~Maker(d, b))
      BY <3>1, <1>1 DEF Consistent
    <3>3. There(b)' /\ b \in branches' /\ Owned(b)' /\ \A t \in Owners : tracked'[t] = b => t = s
      BY <3>2, <1>3, <2>4 DEF Owned, There
    <3>4. \A d \in Calls : ~Deleter(d, b)' /\ ~Maker(d, b)'
      BY <3>2, <2>1 DEF OthersStand
    <3> QED BY <3>3, <3>4 DEF Consistent
  <2>6. TreesConsistent'
    BY <1>3, <2>1, <2>2, <2>4, <2>5, LocalStep DEF There
  <2>7. EnteredIsRow'
    BY <1>1, <1>3, <2>4, DiskAssumption DEF EnteredIsRow, W!TypeOK
  <2> QED BY <1>3, <2>1, <2>3, <2>6, <2>7
<1> QED BY <1>2, <1>3 DEF W!Track, W!git

LEMMA RemoveKeeps ==
  ASSUME WorktreesInvariant, NEW c \in Calls, W!Remove(c)
  PROVE  WorktreesInvariant'
<1> USE DEF WorktreesInvariant, WorktreesTyped
<1> PICK b \in Names : b = W!Its(c)
  BY DEF CallsTyped, W!Remove, W!At
<1>1. W!At(c, "remove") /\ UNCHANGED <<tracked, entered, tools, changes>>
  BY DEF W!Remove, W!store
<1>2. \A e \in Names : ~Maker(c, e) /\ ~Deleter(c, e)
  BY <1>1 DEF Maker, Deleter, W!At
<1>3. W!End(c) \/ W!Go(c, "forget")
  BY DEF W!Remove
<1>4. CallsTyped' /\ OthersStand(c) /\ \A e \in Names : ~Maker(c, e)' /\ (e # b => ~Deleter(c, e)')
  <2>1. CASE W!End(c)
    BY <2>1, CallEnds
  <2>2. CASE W!Go(c, "forget")
    BY <2>2, <1>1, CallGoes DEF CallSteps, W!At
  <2> QED BY <1>3, <2>1, <2>2
<1>5. CASE W!End(c) /\ UNCHANGED <<W!git, gone, cut>>
  <2>1. W!TypeOK'
    BY <1>1, <1>4, <1>5 DEF W!TypeOK, CallsTyped, WorktreeCalls, W!Its, W!git
  <2>2. \A e \in Names : ~Deleter(c, e)'
    BY <1>5, CallEnds
  <2> QED BY <1>1, <1>2, <1>4, <1>5, <2>1, <2>2, QuietStep DEF OthersStand, There, W!git
<1>6. CASE /\ tree[b] # "none" /\ ~W!Refused(b, W!RemoveFlag(c)) /\ W!Removed(b, call[c].force)
           /\ \/ W!Go(c, "forget") /\ cut' = IF W!Making(b) THEN cut \cup {b} ELSE cut
              \/ W!End(c) /\ cut' = cut \cup {b}
  <2>1. \A g \in gone' : g[2]
    <3>1. gone' = gone \/ (tree[b] = "dirty" /\ gone' = gone \cup {<<b, call[c].force>>})
      BY <1>6 DEF W!Removed
    <3>2. tree[b] = "dirty" => call[c].force
      BY <1>6 DEF W!Refused, W!RemoveFlag
    <3>3. call[c].force \in BOOLEAN
      BY DEF CallsTyped, WorktreeCalls
    <3> QED BY <3>1, <3>2, <3>3
  <2>2. /\ branches' = branches /\ cut \subseteq cut' /\ cut' \subseteq Names
        /\ ignored' \subseteq Names /\ tree' \in [Names -> {"none", "clean", "dirty"}]
        /\ ~There(b)' /\ \A e \in Names \ {b} : There(e)' <=> There(e)
    BY <1>6 DEF W!Removed, W!TypeOK, There
  <2>3. W!TypeOK'
    BY <1>1, <1>4, <2>2 DEF W!TypeOK, CallsTyped, WorktreeCalls, W!Its
  <2>4. ASSUME b \notin cut'
        PROVE  Consistent(b)'
    <3>1. W!Go(c, "forget") /\ ~W!Making(b) /\ Consistent(b)
      BY <1>6, <2>4 DEF TreesConsistent
    <3>2. Deleter(c, b)'
      BY <3>1, <1>1, CallGoes DEF CallSteps, W!At
    <3>3. \A d \in Calls : ~Maker(d, b)'
      BY <3>1, <1>4 DEF W!Making, Maker, OthersStand
    <3>4. b \in branches' /\ (Owned(b)' <=> Owned(b)) /\ \A t, u \in Owners : tracked'[t] = b /\ tracked'[u] = b => t = u
      BY <1>1, <1>6, <2>2, <3>1 DEF Consistent, There, Owned
    <3> QED BY <2>2, <3>2, <3>3, <3>4 DEF Consistent
  <2>5. TreesConsistent'
    BY <1>1, <1>2, <1>4, <2>2, <2>4, LocalStep
  <2> QED BY <1>1, <1>4, <2>1, <2>3, <2>5 DEF EnteredIsRow
<1> QED BY <1>5, <1>6 DEF W!Remove

LEMMA ForgetKeeps ==
  ASSUME WorktreesInvariant, NEW c \in Calls, W!Forget(c)
  PROVE  WorktreesInvariant'
<1> USE DEF WorktreesInvariant, WorktreesTyped
<1> PICK b \in Names : b = W!Its(c)
  BY DEF CallsTyped, W!Forget, W!At
<1>1. W!At(c, "forget") /\ Deleter(c, b) /\ W!End(c) /\ UNCHANGED <<tree, ignored, branches, tools, changes, gone, cut>>
  BY DEF W!Forget, W!git, Deleter, W!At
<1>2. /\ tracked' = [s \in Owners |-> IF tracked[s] = b THEN None ELSE tracked[s]]
      /\ entered' = None \/ (entered' = entered /\ (entered # None => tracked[entered.who] # b))
  <2>1. CASE call[c].entered # None /\ call[c].entered.branch = W!Its(c)
    BY <2>1 DEF W!Forget
  <2>2. CASE ~(call[c].entered # None /\ call[c].entered.branch = W!Its(c))
    BY <2>2 DEF W!Forget, W!Dropped, W!TypeOK
  <2> QED BY <2>1, <2>2
<1>3. CallsTyped' /\ OthersStand(c) /\ \A e \in Names : ~Maker(c, e)' /\ ~Deleter(c, e)'
  BY <1>1, CallEnds
<1>4. \A e \in Names : ~Maker(c, e) /\ (e # b => ~Deleter(c, e))
  BY <1>1 DEF Maker, Deleter, W!At
<1>5. W!TypeOK'
  BY <1>1, <1>2, <1>3 DEF W!TypeOK, CallsTyped, WorktreeCalls, W!Its
<1>6. /\ \A s \in Owners : tracked'[s] # b
      /\ \A e \in Names \ {b}, s \in Owners : tracked'[s] = e <=> tracked[s] = e
  BY <1>2, DiskAssumption
<1>7. ASSUME b \notin cut'
      PROVE  Consistent(b)'
  <2>1. Consistent(b)
    BY <1>1, <1>7 DEF TreesConsistent
  <2>2. ~There(b)' /\ b \in branches' /\ \A d \in Calls : ~Maker(d, b)'
    BY <2>1, <1>1, <1>3 DEF Consistent, There, OthersStand
  <2> QED BY <2>2, <1>6 DEF Consistent, Owned
<1>8. TreesConsistent'
  BY <1>1, <1>3, <1>4, <1>6, <1>7, LocalStep DEF There
<1>9. EnteredIsRow'
  BY <1>2 DEF EnteredIsRow, W!TypeOK
<1> QED BY <1>1, <1>3, <1>5, <1>8, <1>9

LEMMA KillKeeps ==
  ASSUME WorktreesInvariant, W!Killed
  PROVE  WorktreesInvariant'
<1> USE DEF WorktreesInvariant, WorktreesTyped
<1>1. UNCHANGED <<tree, ignored, branches, tracked, entered, tools, changes, gone>>
  BY DEF W!Killed, W!git, W!store
<1>2. call' = [c \in Calls |-> W!Quiet]
  BY DEF W!Killed
<1>3. W!Quiet \in WorktreeCalls /\ W!Quiet.pc = "idle" /\ W!Quiet.branch = None
  BY DEF W!Quiet, WorktreeCalls, CallSteps, Contexts
<1>4. CallsTyped' /\ \A c \in Calls, e \in Names : ~Maker(c, e)' /\ ~Deleter(c, e)'
  BY <1>2, <1>3 DEF CallsTyped, Maker, Deleter, W!At, W!Its
<1>5. /\ cut \subseteq cut' /\ cut' \subseteq Names
      /\ \A c \in Calls, e \in Names : Maker(c, e) \/ Deleter(c, e) => e \in cut'
  <2>1. cut' = cut \cup {W!Its(c) : c \in {d \in Calls : call[d].pc \in {"bootstrap", "track", "forget"}}}
    BY DEF W!Killed
  <2>2. \A d \in Calls : call[d].pc \in {"bootstrap", "track", "forget"} => W!Its(d) \in Names
    BY DEF CallsTyped, W!At
  <2> QED BY <2>1, <2>2 DEF Maker, Deleter, W!At, W!TypeOK
<1>6. W!TypeOK'
  BY <1>1, <1>4, <1>5 DEF W!TypeOK, CallsTyped, WorktreeCalls, W!Its
<1>7. TreesConsistent'
  <2> SUFFICES ASSUME NEW e \in Names, e \notin cut'
               PROVE  Consistent(e)'
    BY DEF TreesConsistent
  <2>1. Consistent(e) /\ \A c \in Calls : ~Maker(c, e) /\ ~Deleter(c, e)
    BY <1>5 DEF TreesConsistent
  <2>2. (There(e)' <=> There(e)) /\ \A c \in Calls : ~Maker(c, e)' /\ ~Deleter(c, e)'
    BY <1>1, <1>4 DEF There
  <2> QED BY <1>1, <2>1, <2>2, BranchUntouched
<1> QED BY <1>1, <1>4, <1>6, <1>7 DEF EnteredIsRow

LEMMA WorktreesStep == WorktreesInvariant /\ [W!Next]_worktrees => WorktreesInvariant'
<1> SUFFICES ASSUME WorktreesInvariant, [W!Next]_worktrees
             PROVE  WorktreesInvariant'
  OBVIOUS
<1>1. CASE UNCHANGED worktrees
  <2>1. WorktreesTyped'
    BY <1>1 DEF worktrees, WorktreesInvariant, WorktreesTyped, W!TypeOK, CallsTyped, W!Its, W!At
  <2>2. TreesConsistent'
    BY <1>1 DEF worktrees, WorktreesInvariant, TreesConsistent, Consistent, Maker, Deleter, There, Owned, W!Its, W!At
  <2> QED BY <1>1, <2>1, <2>2 DEF worktrees, WorktreesInvariant, EnteredIsRow
<1>2. ASSUME NEW c \in Calls,
             \/ \E s \in Owners, b \in Names : W!BeginCreate(c, s, b)
             \/ W!GitAdd(c) \/ W!Bootstrap(c) \/ W!Track(c)
             \/ \E s \in Owners : W!BeginLeave(c, s)
             \/ W!LeaveStatus(c) \/ W!Leave(c)
             \/ \E b \in Names, snapshot, force \in BOOLEAN : W!BeginDelete(c, b, snapshot, force)
             \/ W!List(c) \/ W!Inspect(c) \/ W!Commit(c) \/ W!Verify(c) \/ W!Remove(c) \/ W!Forget(c)
      PROVE  WorktreesInvariant'
  BY <1>2, BeginningKeeps, GitAddKeeps, BootstrapKeeps, TrackKeeps, LookingKeeps, RemoveKeeps, ForgetKeeps
<1> QED BY <1>1, <1>2, ElsewhereKeeps, KillKeeps DEF W!Next

LEMMA WorktreesInvariantHolds == DiskSpec => [](part = "worktrees" => WorktreesInvariant)
<1>1. DiskInit => (part = "worktrees" => WorktreesInvariant)
  BY WorktreesInit DEF DiskInit
<1>2. (part = "worktrees" => WorktreesInvariant) /\ [DiskNext]_allVars => (part = "worktrees" => WorktreesInvariant)'
  BY PartSteps, WorktreesStep
<1> QED BY <1>1, <1>2, PTL DEF DiskSpec, allVars

(* No change that was never committed is deleted unless the deletion is    *)
(* forced (worktree/operations.ts), whatever sessions, calls and branches  *)
(* there are and however they interleave.                                  *)
THEOREM ChangesAreKept == DiskSpec => []UnforcedKeepsWork
<1>1. (part = "worktrees" => WorktreesInvariant) => UnforcedKeepsWork
  BY DEF UnforcedKeepsWork, W!UnforcedKeepsWork, WorktreesInvariant
<1> QED BY <1>1, WorktreesInvariantHolds, PTL

(* Rows and directories agree where no call is between the two and none    *)
(* was cut off there (worktree/state.ts), for all sessions and calls.      *)
THEOREM RowsAndTreesAgree == DiskSpec => []RowsMatchTrees
<1>1. ASSUME WorktreesInvariant
      PROVE  W!RowsMatchTrees
  <2>1. ASSUME NEW b \in Names \ cut
        PROVE  LET owners == {s \in Owners : tracked[s] = b}
               IN /\ \A s, t \in owners : s = t
                  /\ owners # {} => tree[b] # "none" \/ W!Deleting(b)
                  /\ tree[b] # "none" => owners # {} \/ W!Making(b)
    <3>1. Consistent(b)
      BY <1>1 DEF WorktreesInvariant, TreesConsistent
    <3> QED BY <3>1 DEF Consistent, Owned, There, Maker, Deleter, W!Deleting, W!Making
  <2> QED BY <1>1, <2>1 DEF W!RowsMatchTrees, WorktreesInvariant, EnteredIsRow
<1>2. (part = "worktrees" => WorktreesInvariant) => RowsMatchTrees
  BY <1>1 DEF RowsMatchTrees
<1> QED BY <1>2, WorktreesInvariantHolds, PTL

-----------------------------------------------------------------------------
(* Tasks of a manager                                                      *)

IntegratingSteps == {"integrate", "merge", "save", "settle", "clean"}
BeforeStart == {"resync", "replay", "root", "prepare", "restart"}
ActorSteps == {"idle", "review", "prompt", "fail"} \cup BeforeStart \cup IntegratingSteps
Outs == {"none", "unchanged", "unverified", "verified", "deferred", "conflicted", "merged"}
ActorStates == [pc : ActorSteps, by : Agents, bg : BOOLEAN, event : BOOLEAN, child : 0..MaxContinuations,
                task : A!Record, out : Outs]

AssignmentTyped ==
  /\ A!TypeOK /\ actor \in [Calls -> ActorStates]
  /\ continuations \in 0..MaxContinuations
  /\ \A a \in Calls : actor[a].pc \in {"save", "settle"} => actor[a].out \in DOMAIN A!Outcome

LEMMA AgentsAreNamed == Own \in Agents /\ Own # "reviewer"
BY DiskAssumption

LEMMA AsleepTyped ==
  /\ A!Asleep \in ActorStates /\ A!Asleep.pc = "idle" /\ A!Asleep.child = 0
  /\ \A bg \in BOOLEAN : A!Created(bg) \in A!Record /\ A!Created(bg).child = 0
<1>1. \A bg \in BOOLEAN : A!Created(bg) \in A!Record /\ A!Created(bg).child = 0
  BY DiskAssumption, AgentsAreNamed DEF A!Created, A!Record, A!Unassigned, A!Assignment, A!Statuses
<1>2. PICK task \in A!Record : task = A!Created(TRUE)
  BY <1>1
<1>3. 0 \in 0..MaxContinuations
  BY DiskAssumption
<1> QED BY <1>1, <1>2, <1>3, AgentsAreNamed DEF A!Asleep, ActorStates, ActorSteps, Outs

LEMMA StartedTyped ==
  ASSUME NEW agent \in Agents, NEW child \in 0..MaxContinuations, NEW task \in A!Record
  PROVE  /\ A!Started(agent, child, task) \in ActorStates
         /\ A!Started(agent, child, task).pc = "prompt" /\ A!Started(agent, child, task).by = agent
         /\ A!Started(agent, child, task).child = child /\ A!Started(agent, child, task).task = task
BY AsleepTyped DEF A!Started, ActorStates, ActorSteps

LEMMA AssignmentInit == A!Init => AssignmentTyped
<1> SUFFICES ASSUME A!Init PROVE AssignmentTyped
  OBVIOUS
<1>1. record \in A!Record /\ record.child = 0
  BY AsleepTyped DEF A!Init
<1>2. A!Started(Own, 0, record) \in ActorStates /\ A!Started(Own, 0, record).pc = "prompt"
  BY <1>1, AgentsAreNamed, StartedTyped, DiskAssumption
<1>3. actor \in [Calls -> ActorStates] /\ \A a \in Calls : actor[a].pc \in {"idle", "prompt"}
  BY <1>2, AsleepTyped DEF A!Init
<1>4. A!TypeOK
  BY <1>1, <1>3 DEF A!Init, A!TypeOK, A!My, ActorStates
<1> QED BY <1>3, <1>4, DiskAssumption DEF A!Init, AssignmentTyped

(* What becomes of an actor that goes on, ends or has an outcome.          *)
OthersStay(a) == \A b \in Calls \ {a} : actor'[b] = actor[b]
ActorsTyped == actor \in [Calls -> ActorStates]

LEMMA ActorGoes ==
  ASSUME ActorsTyped, NEW a \in Calls, NEW pc \in ActorSteps, NEW task \in A!Record, A!Go(a, pc, task)
  PROVE  /\ ActorsTyped' /\ OthersStay(a)
         /\ actor'[a].pc = pc /\ actor'[a].task = task
         /\ actor'[a].by = actor[a].by /\ actor'[a].bg = actor[a].bg /\ actor'[a].event = actor[a].event
         /\ actor'[a].child = actor[a].child /\ actor'[a].out = actor[a].out
BY DEF ActorsTyped, ActorStates, A!Go, OthersStay

LEMMA ActorLeaves ==
  ASSUME ActorsTyped, NEW a \in Calls, A!Leave(a)
  PROVE  ActorsTyped' /\ OthersStay(a) /\ actor'[a] = A!Asleep
BY AsleepTyped DEF ActorsTyped, A!Leave, OthersStay

LEMMA ActorHasOutcome ==
  ASSUME ActorsTyped, NEW a \in Calls, NEW pc \in ActorSteps, NEW out \in Outs, A!Out(a, out, pc)
  PROVE  /\ ActorsTyped' /\ OthersStay(a)
         /\ actor'[a].pc = pc /\ actor'[a].out = out /\ actor'[a].task = actor[a].task
         /\ actor'[a].by = actor[a].by /\ actor'[a].bg = actor[a].bg /\ actor'[a].event = actor[a].event
         /\ actor'[a].child = actor[a].child
BY DEF ActorsTyped, ActorStates, A!Out, OthersStay

LEMMA WriteFacts ==
  ASSUME record \in A!Record, gate = {}, NEW a \in Calls, NEW asg \in A!Assignment, NEW mode \in {"direct", "worktree"},
         A!Write(a, asg, mode)
  PROVE  /\ record' \in A!Record /\ record'.asg = asg /\ record'.mode = mode
         /\ record'.status = record.status /\ record'.bg = record.bg /\ record'.by = record.by
         /\ record'.child = record.child
         /\ gate' \subseteq {"overtaken"}
         /\ gate' = {} => A!My(a).asg = record.asg
BY DEF A!Write, A!Record

LEMMA StatusFacts ==
  ASSUME record \in A!Record, NEW status \in A!Statuses, record' = [record EXCEPT !.status = status]
  PROVE  /\ record' \in A!Record /\ record'.status = status
         /\ record'.bg = record.bg /\ record'.by = record.by /\ record'.child = record.child
         /\ record'.asg = record.asg /\ record'.mode = record.mode
BY DEF A!Record

-----------------------------------------------------------------------------
(* The gates of a continuation: what each step does, in terms the invariant*)
(* is about.                                                               *)
SameTurn ==
  /\ record'.status = record.status /\ record'.bg = record.bg /\ record'.by = record.by
  /\ record'.child = record.child

Prepared(a) ==
  /\ actor'[a].pc \in BeforeStart /\ actor'[a].by = actor[a].by /\ actor'[a].child = actor[a].child

GateStep(a) ==
  /\ AssignmentTyped' /\ OthersStay(a) /\ SameTurn
  /\ actor[a].pc \in BeforeStart \cup {"review"}
  /\ UNCHANGED <<ended, continuations, unreviewed>>
  /\ actor'[a] = A!Asleep \/ Prepared(a)
  /\ gate' = {} /\ actor[a].pc = "review" =>
       /\ record.asg.review = actor[a].task.asg.review /\ Prepared(a)
       /\ record'.asg.review = "running" /\ actor'[a].task.asg.review = "running"
       /\ record'.mode = record.mode
  /\ gate' = {} /\ actor[a].pc # "review" =>
       /\ record'.asg.review = record.asg.review
       /\ Prepared(a) => actor'[a].task.asg.review = actor[a].task.asg.review
       /\ record'.mode # record.mode => record.asg = actor[a].task.asg
  /\ actor'[a].pc = "restart" /\ actor[a].by = "reviewer" => actor'[a].task.mode = "direct"

LEMMA TypedSoFar ==
  ASSUME AssignmentTyped, record' \in A!Record, ActorsTyped', gate' \subseteq {"overtaken", "unfinished", "overlap"},
         worktree' \in BOOLEAN, rootDirty' \in BOOLEAN, unreviewed' \in BOOLEAN, ended' \in BOOLEAN,
         branch' \in {"none", "even", "ahead", "clashing"}, continuations' \in 0..MaxContinuations,
         \A a \in Calls : actor'[a].pc \in {"save", "settle"} => actor'[a].out \in DOMAIN A!Outcome
  PROVE  AssignmentTyped'
BY DEF AssignmentTyped, A!TypeOK, A!My, ActorStates, ActorsTyped

LEMMA TypedFacts ==
  ASSUME AssignmentTyped
  PROVE  /\ record \in A!Record /\ ActorsTyped /\ gate \subseteq {"overtaken", "unfinished", "overlap"}
         /\ worktree \in BOOLEAN /\ rootDirty \in BOOLEAN /\ unreviewed \in BOOLEAN /\ ended \in BOOLEAN
         /\ branch \in {"none", "even", "ahead", "clashing"} /\ continuations \in 0..MaxContinuations
         /\ \A a \in Calls : /\ A!My(a) = actor[a].task /\ actor[a].task \in A!Record /\ actor[a].pc \in ActorSteps
                             /\ actor[a].task.asg \in A!Assignment /\ actor[a].task.mode \in {"direct", "worktree"}
                             /\ actor[a].out \in Outs /\ actor[a].by \in Agents
                             /\ actor[a].child \in 0..MaxContinuations
         /\ record.asg \in A!Assignment /\ record.mode \in {"direct", "worktree"} /\ record.child \in 0..MaxContinuations
         /\ record.status \in A!Statuses /\ record.by \in Agents /\ record.bg \in BOOLEAN
BY DEF AssignmentTyped, A!TypeOK, A!My, ActorStates, ActorsTyped, A!Record

LEMMA BeginReviewIsGate ==
  ASSUME AssignmentTyped, gate = {}, NEW a \in Calls, A!BeginReview(a)
  PROVE  GateStep(a)
<1> USE TypedFacts
<1> PICK task \in A!Record : task = actor[a].task
  OBVIOUS
<1> PICK asg \in A!Assignment : asg = [task.asg EXCEPT !.review = "running"]
  BY DEF A!Assignment
<1>1. /\ record' \in A!Record /\ record'.asg = asg /\ record'.mode = record.mode /\ SameTurn
      /\ gate' \subseteq {"overtaken"} /\ (gate' = {} => task.asg = record.asg)
  BY WriteFacts DEF A!BeginReview, SameTurn
<1> PICK new \in A!Record : new = record'
  BY <1>1
<1>2. asg.review = "running"
  BY DEF A!Assignment
<1> PICK pc \in BeforeStart : pc = A!ResyncGate(new)
  BY DEF A!ResyncGate, A!RootGate, BeforeStart
<1>3. A!Go(a, pc, new) /\ actor[a].pc = "review" /\ UNCHANGED <<worktree, branch, rootDirty, events, ended, continuations, unreviewed>>
  BY DEF A!BeginReview, A!At, A!repository
<1>4. /\ ActorsTyped' /\ OthersStay(a) /\ actor'[a].pc = pc /\ actor'[a].task = new
      /\ actor'[a].by = actor[a].by /\ actor'[a].child = actor[a].child
  BY <1>3, ActorGoes DEF ActorSteps
<1>5. AssignmentTyped'
  <2>1. \A b \in Calls : actor'[b].pc \in {"save", "settle"} => actor'[b].out \in DOMAIN A!Outcome
    BY <1>4 DEF OthersStay, BeforeStart, AssignmentTyped
  <2> QED BY <1>1, <1>3, <1>4, <2>1, TypedSoFar
<1>6. pc # "restart"
  BY DEF A!ResyncGate, A!RootGate
<1>7. record'.asg.review = "running" /\ actor'[a].task.asg.review = "running" /\ Prepared(a)
  <2>1. new.asg.review = "running"
    BY <1>1, <1>2
  <2>2. actor'[a].task.asg.review = "running"
    BY <2>1, <1>4
  <2> QED BY <2>1, <2>2, <1>4 DEF Prepared
<1>8. gate' = {} => record.asg.review = actor[a].task.asg.review
  BY <1>1
<1> QED BY <1>1, <1>3, <1>4, <1>5, <1>6, <1>7, <1>8 DEF GateStep

LEMMA PrepareIsGate ==
  ASSUME AssignmentTyped, gate = {}, NEW a \in Calls, A!Prepare(a)
  PROVE  GateStep(a)
<1> USE TypedFacts
<1> PICK task \in A!Record : task = actor[a].task
  OBVIOUS
<1>1. /\ actor[a].pc = "prepare"
      /\ UNCHANGED <<record, rootDirty, events, ended, continuations, unreviewed, gate>>
      /\ worktree' \in BOOLEAN /\ branch' \in {"none", "even", "ahead", "clashing"}
  BY DEF A!Prepare, A!At, A!ghosts
<1>2. \/ A!Leave(a)
      \/ \E mode \in {"direct", "worktree"} :
           /\ A!Go(a, "restart", [task EXCEPT !.mode = mode])
           /\ mode = "worktree" => actor[a].by \in Editors
  BY DEF A!Prepare
<1>3. CASE A!Leave(a)
  <2>1. ActorsTyped' /\ OthersStay(a) /\ actor'[a] = A!Asleep /\ actor'[a].pc = "idle"
    BY <1>3, ActorLeaves, AsleepTyped
  <2>2. \A b \in Calls : actor'[b].pc \in {"save", "settle"} => actor'[b].out \in DOMAIN A!Outcome
    BY <2>1 DEF OthersStay, AssignmentTyped
  <2>3. AssignmentTyped'
    BY <1>1, <2>1, <2>2, TypedSoFar
  <2> QED BY <1>1, <2>1, <2>3 DEF GateStep, SameTurn, Prepared, BeforeStart
<1>4. ASSUME NEW mode \in {"direct", "worktree"}, A!Go(a, "restart", [task EXCEPT !.mode = mode]),
             mode = "worktree" => actor[a].by \in Editors
      PROVE  GateStep(a)
  <2> PICK new \in A!Record : new = [task EXCEPT !.mode = mode]
    BY DEF A!Record
  <2>1. new.asg = task.asg /\ new.mode = mode
    BY DEF A!Record
  <2>2. /\ ActorsTyped' /\ OthersStay(a) /\ actor'[a].pc = "restart" /\ actor'[a].task = new
        /\ actor'[a].by = actor[a].by /\ actor'[a].child = actor[a].child
    BY <1>4, ActorGoes DEF ActorSteps, BeforeStart
  <2>3. \A b \in Calls : actor'[b].pc \in {"save", "settle"} => actor'[b].out \in DOMAIN A!Outcome
    BY <2>2 DEF OthersStay, AssignmentTyped
  <2>4. AssignmentTyped'
    BY <1>1, <2>2, <2>3, TypedSoFar
  <2>5. actor[a].by = "reviewer" => mode = "direct"
    BY <1>4, DiskAssumption
  <2> QED BY <1>1, <2>1, <2>2, <2>4, <2>5 DEF GateStep, SameTurn, Prepared, BeforeStart
<1> QED BY <1>2, <1>3, <1>4

(* A gate that writes an assignment with the review as it was.             *)
LEMMA WritingGate ==
  ASSUME AssignmentTyped, gate = {}, NEW a \in Calls, actor[a].pc \in {"resync", "replay", "root"},
         UNCHANGED <<worktree, branch, rootDirty, events, ended, continuations, unreviewed>>,
         NEW asg \in A!Assignment, asg.review = actor[a].task.asg.review,
         NEW mode \in {"direct", "worktree"}, mode \in {record.mode, actor[a].task.mode},
         A!Write(a, asg, mode),
         \/ A!Leave(a)
         \/ \E pc \in BeforeStart \ {"restart"}, task \in A!Record : A!Go(a, pc, task) /\ task.asg.review = asg.review
  PROVE  GateStep(a)
<1> USE TypedFacts
<1>1. /\ record' \in A!Record /\ record'.asg = asg /\ record'.mode = mode /\ SameTurn
      /\ gate' \subseteq {"overtaken"} /\ (gate' = {} => actor[a].task.asg = record.asg)
  BY WriteFacts DEF SameTurn
<1>2. /\ ActorsTyped' /\ OthersStay(a) /\ actor'[a].pc # "restart"
      /\ actor'[a] = A!Asleep \/ (Prepared(a) /\ actor'[a].task.asg.review = asg.review)
  <2>1. CASE A!Leave(a)
    BY <2>1, ActorLeaves, AsleepTyped
  <2>2. ASSUME NEW pc \in BeforeStart \ {"restart"}, NEW task \in A!Record, A!Go(a, pc, task), task.asg.review = asg.review
        PROVE  /\ ActorsTyped' /\ OthersStay(a) /\ actor'[a].pc # "restart"
               /\ Prepared(a) /\ actor'[a].task.asg.review = asg.review
    <3>1. pc \in ActorSteps
      BY DEF ActorSteps
    <3> QED BY <2>2, <3>1, ActorGoes DEF Prepared
  <2> QED BY <2>1, <2>2
<1>3. AssignmentTyped'
  <2>1. \A b \in Calls : actor'[b].pc \in {"save", "settle"} => actor'[b].out \in DOMAIN A!Outcome
    BY <1>2, AsleepTyped DEF OthersStay, AssignmentTyped, Prepared, BeforeStart
  <2> QED BY <1>1, <1>2, <2>1, TypedSoFar
<1> QED BY <1>1, <1>2, <1>3, AsleepTyped DEF GateStep, BeforeStart, Prepared

LEMMA ResyncIsGate ==
  ASSUME AssignmentTyped, gate = {}, NEW a \in Calls, A!Resync(a)
  PROVE  GateStep(a)
<1> USE TypedFacts
<1> PICK task \in A!Record : task = actor[a].task
  OBVIOUS
<1>1. actor[a].pc = "resync" /\ UNCHANGED <<worktree, branch, rootDirty, events, ended, continuations, unreviewed>>
  BY DEF A!Resync, A!At, A!repository
<1>2. CASE A!Leave(a) /\ UNCHANGED <<record, gate>>
  <2>1. ActorsTyped' /\ OthersStay(a) /\ actor'[a] = A!Asleep /\ actor'[a].pc = "idle"
    BY <1>2, ActorLeaves, AsleepTyped
  <2>2. \A b \in Calls : actor'[b].pc \in {"save", "settle"} => actor'[b].out \in DOMAIN A!Outcome
    BY <2>1 DEF OthersStay, AssignmentTyped
  <2>3. AssignmentTyped'
    BY <1>1, <1>2, <2>1, <2>2, TypedSoFar
  <2> QED BY <1>1, <1>2, <2>1, <2>3 DEF GateStep, SameTurn, Prepared, BeforeStart
<1>3. CASE ~(A!Leave(a) /\ UNCHANGED <<record, gate>>)
  <2> PICK asg \in A!Assignment : asg = [task.asg EXCEPT !.retry = IF rootDirty THEN "blocked" ELSE "resync_required"]
    BY DEF A!Assignment
  <2>1. asg.review = task.asg.review
    BY DEF A!Assignment
  <2>2. A!Write(a, asg, record.mode)
    BY <1>3 DEF A!Resync
  <2>3. A!Leave(a) \/ A!Go(a, "replay", task)
    BY <1>3 DEF A!Resync
  <2>4. \/ A!Leave(a)
        \/ \E pc \in BeforeStart \ {"restart"}, t \in A!Record : A!Go(a, pc, t) /\ t.asg.review = asg.review
    BY <2>1, <2>3 DEF BeforeStart
  <2> QED BY <1>1, <2>1, <2>2, <2>4, WritingGate
<1> QED BY <1>2, <1>3

LEMMA ReplayIsGate ==
  ASSUME AssignmentTyped, gate = {}, NEW a \in Calls, A!Replay(a) \/ A!CheckRoot(a)
  PROVE  GateStep(a)
<1> USE TypedFacts
<1> PICK task \in A!Record : task = actor[a].task
  OBVIOUS
<1>1. /\ actor[a].pc \in {"replay", "root"}
      /\ UNCHANGED <<worktree, branch, rootDirty, events, ended, continuations, unreviewed>>
  BY DEF A!Replay, A!CheckRoot, A!At, A!repository
<1>2. CASE A!Leave(a) /\ UNCHANGED <<record, gate>>
  <2>1. ActorsTyped' /\ OthersStay(a) /\ actor'[a] = A!Asleep /\ actor'[a].pc = "idle"
    BY <1>2, ActorLeaves, AsleepTyped
  <2>2. \A b \in Calls : actor'[b].pc \in {"save", "settle"} => actor'[b].out \in DOMAIN A!Outcome
    BY <2>1 DEF OthersStay, AssignmentTyped
  <2>3. AssignmentTyped'
    BY <1>1, <1>2, <2>1, <2>2, TypedSoFar
  <2> QED BY <1>1, <1>2, <2>1, <2>3 DEF GateStep, SameTurn, Prepared, BeforeStart
<1>3. ASSUME NEW asg \in A!Assignment, asg.review = task.asg.review, NEW mode \in {record.mode, task.mode},
             A!Write(a, asg, mode),
             A!Leave(a) \/ \E pc \in BeforeStart \ {"restart"} : A!Go(a, pc, record')
      PROVE  GateStep(a)
  <2>1. record' \in A!Record /\ record'.asg.review = asg.review
    BY <1>3, WriteFacts
  <2> PICK new \in A!Record : new = record'
    BY <2>1
  <2>2. mode \in {"direct", "worktree"}
    OBVIOUS
  <2> QED BY <1>1, <1>3, <2>1, <2>2, WritingGate
<1>4. CASE A!Replay(a) /\ branch = "clashing" /\ ~(A!Leave(a) /\ UNCHANGED <<record, gate>>)
  <2> PICK asg \in A!Assignment : asg = [task.asg EXCEPT !.retry = "blocked"]
    BY DEF A!Assignment
  <2>1. asg.review = task.asg.review
    BY DEF A!Assignment
  <2> QED BY <1>3, <1>4, <2>1 DEF A!Replay
<1>5. CASE A!Replay(a) /\ branch # "clashing" /\ ~(A!Leave(a) /\ UNCHANGED <<record, gate>>)
  <2> PICK asg \in A!Assignment : asg = [task.asg EXCEPT !.retry = "ready"]
    BY DEF A!Assignment
  <2>1. asg.review = task.asg.review
    BY DEF A!Assignment
  <2>2. A!Write(a, asg, task.mode) /\ A!Go(a, A!RootGate(record'), record')
    BY <1>5 DEF A!Replay
  <2>3. record' \in A!Record
    BY <2>2, WriteFacts
  <2> PICK new \in A!Record : new = record'
    BY <2>3
  <2> PICK pc \in BeforeStart \ {"restart"} : pc = A!RootGate(new)
    BY DEF A!RootGate, BeforeStart
  <2> QED BY <1>3, <2>1, <2>2
<1>6. CASE A!CheckRoot(a) /\ ~(A!Leave(a) /\ UNCHANGED <<record, gate>>)
  <2> PICK asg \in A!Assignment : asg = [task.asg EXCEPT !.reason = "none", !.retry = "idle"]
    BY DEF A!Assignment
  <2>1. asg.review = task.asg.review
    BY DEF A!Assignment
  <2>2. A!Write(a, asg, task.mode) /\ A!Go(a, "prepare", record')
    BY <1>6 DEF A!CheckRoot
  <2> QED BY <1>3, <2>1, <2>2 DEF BeforeStart
<1> QED BY <1>2, <1>4, <1>5, <1>6

-----------------------------------------------------------------------------
(* What makes a review due before the end, as long as nothing that gate    *)
(* names has happened.                                                     *)
Integrates(a) == actor[a].pc \in IntegratingSteps
Prompting(a) == actor[a].pc = "prompt" /\ actor[a].child = record.child
Turning(a) == actor[a].pc \in BeforeStart \cup {"review", "prompt"}
Reviewing(a) == actor[a].pc \in BeforeStart /\ actor[a].task.asg.review = "running"
UnderReview == record.asg.review \in {"pending", "running"}

(* Nobody prompts or integrates, but for the end of a merge.               *)
Quiet ==
  /\ \A a \in Calls : ~Prompting(a)
  /\ \A a \in Calls : Integrates(a) => actor[a].pc = "clean" \/ (actor[a].pc = "settle" /\ actor[a].out = "merged")
  /\ record.status \in {"queued", "running"} => \E a \in Calls : actor[a].pc = "settle"

(* One actor prompts or integrates at a time, for a task that is running,  *)
(* unless it was cancelled or its call has failed.                         *)
OneTurn ==
  /\ \A a, b \in Calls : Integrates(a) => ~Prompting(b) /\ (Integrates(b) => a = b)
  /\ \A a \in Calls : Prompting(a) \/ actor[a].pc \in {"integrate", "merge", "save", "settle"} =>
       record.status \in {"running", "cancelled", "failed"}
  /\ \A a \in Calls : Prompting(a) => ~record.bg /\ ~ended
  /\ \A a \in Calls : actor[a].pc = "clean" =>
       record.status \in {"succeeded", "failed", "cancelled"} \/ (record.status = "blocked" /\ UnderReview)

(* Every continuation has a child session of its own.                      *)
OwnChildren ==
  /\ record.child <= continuations
  /\ \A a \in Calls : actor[a].child <= continuations
  /\ \A a \in Calls : actor[a].pc \in BeforeStart \cup {"review"} => actor[a].child # record.child
  /\ \A a, b \in Calls : Turning(a) /\ Turning(b) /\ actor[a].child = actor[b].child => a = b

(* A review that is due is begun by one reviewer, while nothing else goes  *)
(* on; a reviewer works without a worktree.                                *)
Reviews ==
  /\ record.asg.review = "pending" => Quiet
  /\ \A a \in Calls : Reviewing(a) => record.asg.review = "running" /\ Quiet /\ actor[a].by = "reviewer"
  /\ \A a, b \in Calls : Reviewing(a) /\ Reviewing(b) => a = b
  /\ \A a \in Calls : actor[a].pc = "review" => actor[a].task.asg.review = "pending" /\ actor[a].by = "reviewer"
  /\ \A a \in Calls : actor[a].pc \in BeforeStart => actor[a].task.asg.review # "pending"
  /\ \A a \in Calls : actor[a].pc = "restart" /\ actor[a].by = "reviewer" => actor[a].task.mode = "direct"
  /\ \A a \in Calls : actor[a].pc = "settle" /\ actor[a].out = "merged" => UnderReview

(* What was merged and not reviewed: the task is not over, its review is   *)
(* due, and the turn that ends it is a reviewer's.                         *)
ReviewOwed ==
  unreviewed =>
    /\ record.status # "succeeded"
    /\ UnderReview \/ \E a \in Calls : actor[a].pc = "save" /\ actor[a].out = "merged"
    /\ \A a \in Calls : actor[a].pc = "integrate" \/ Prompting(a) =>
         /\ actor[a].task.asg.review = "running" /\ actor[a].by = "reviewer"
         /\ actor[a].task.mode = "direct"
    /\ \A a \in Calls : actor[a].pc # "merge" /\ (actor[a].pc \in {"save", "settle"} => actor[a].out = "merged")
    /\ record.status = "running" /\ (\A a \in Calls : ~Integrates(a)) =>
         ~record.bg /\ record.by = "reviewer" /\ record.mode = "direct" /\ record.asg.review = "running"

InOrder == OneTurn /\ OwnChildren /\ Reviews /\ ReviewOwed
AssignmentInvariant == AssignmentTyped /\ (gate = {} => InOrder)

(* What a step at the gates leaves as it is.                               *)
LEMMA GateLeaves ==
  ASSUME NEW a \in Calls, GateStep(a)
  PROVE  /\ SameTurn /\ OthersStay(a) /\ UNCHANGED <<ended, continuations, unreviewed>>
         /\ actor[a].pc \in BeforeStart \cup {"review"}
         /\ \/ actor'[a].pc = "idle" /\ actor'[a].child = 0
            \/ actor'[a].pc \in BeforeStart /\ actor'[a].child = actor[a].child /\ actor'[a].by = actor[a].by
         /\ \A b \in Calls : Integrates(b)' <=> Integrates(b)
         /\ \A b \in Calls : Prompting(b)' <=> Prompting(b)
         /\ \A b \in Calls : actor[b].pc \in IntegratingSteps \/ actor'[b].pc \in IntegratingSteps => actor'[b] = actor[b]
<1>1. /\ SameTurn /\ OthersStay(a) /\ UNCHANGED <<ended, continuations, unreviewed>>
      /\ actor[a].pc \in BeforeStart \cup {"review"}
      /\ \/ actor'[a].pc = "idle" /\ actor'[a].child = 0
         \/ actor'[a].pc \in BeforeStart /\ actor'[a].child = actor[a].child /\ actor'[a].by = actor[a].by
  BY AsleepTyped DEF GateStep, Prepared
<1>2. actor[a].pc \notin IntegratingSteps \cup {"prompt"} /\ actor'[a].pc \notin IntegratingSteps \cup {"prompt"}
  BY <1>1 DEF IntegratingSteps, BeforeStart
<1> QED BY <1>1, <1>2 DEF Integrates, Prompting, OthersStay, SameTurn

LEMMA GateKeeps ==
  ASSUME AssignmentInvariant, gate = {}, gate' = {}, NEW a \in Calls, GateStep(a)
  PROVE  InOrder'
<1> USE GateLeaves
<1> OneTurn /\ OwnChildren /\ Reviews /\ ReviewOwed
  BY DEF AssignmentInvariant, InOrder
<1> Quiet <=> Quiet'
  BY DEF Quiet, SameTurn, Integrates, IntegratingSteps
<1>1. OwnChildren'
  <2>1. \A b \in Calls : Turning(b)' => Turning(b) /\ actor'[b].child = actor[b].child
    BY DEF Turning, OthersStay, BeforeStart
  <2>2. \A b \in Calls : actor'[b].child <= continuations
    BY TypedFacts DEF OwnChildren, OthersStay, AssignmentInvariant
  <2>3. \A b \in Calls : actor'[b].pc \in BeforeStart \cup {"review"} => actor[b].pc \in BeforeStart \cup {"review"} /\ actor'[b].child = actor[b].child
    BY DEF OthersStay, BeforeStart
  <2>4. record'.child = record.child /\ continuations' = continuations
    BY DEF SameTurn
  <2> QED BY <2>1, <2>2, <2>3, <2>4 DEF OwnChildren
<1>2. CASE actor[a].pc = "review"
  <2>1. /\ record.asg.review = "pending" /\ Prepared(a)
        /\ record'.asg.review = "running" /\ actor'[a].task.asg.review = "running"
        /\ record'.mode = record.mode /\ actor[a].by = "reviewer"
    BY <1>2 DEF GateStep, Reviews
  <2>2. Quiet /\ Quiet' /\ \A b \in Calls : ~Reviewing(b)
    BY <2>1 DEF Reviews
  <2>3. \A b \in Calls : Reviewing(b)' <=> b = a
    BY <2>1, <2>2 DEF Reviewing, OthersStay, Prepared
  <2>4. UnderReview /\ UnderReview'
    BY <2>1 DEF UnderReview
  <2>5. OneTurn'
    BY <2>4 DEF OneTurn, SameTurn, IntegratingSteps
  <2>6. Reviews'
    <3>1. \A b \in Calls : actor'[b].pc \in BeforeStart => actor'[b].task.asg.review # "pending"
      BY <2>1 DEF Reviews, OthersStay
    <3>2. \A b \in Calls : actor'[b].pc = "review" => actor'[b].task.asg.review = "pending" /\ actor'[b].by = "reviewer"
      BY <2>1 DEF Reviews, OthersStay, Prepared, BeforeStart
    <3>3. \A b \in Calls : actor'[b].pc = "restart" /\ actor'[b].by = "reviewer" => actor'[b].task.mode = "direct"
      BY <2>1 DEF Reviews, OthersStay, GateStep, Prepared
    <3> QED BY <2>1, <2>2, <2>3, <2>4, <3>1, <3>2, <3>3 DEF Reviews, Prepared
  <2>7. ReviewOwed'
    <3>1. \A b \in Calls : actor'[b].pc \in IntegratingSteps \cup {"prompt"} => actor'[b] = actor[b]
      BY <2>1 DEF OthersStay, Prepared, BeforeStart, IntegratingSteps
    <3> QED BY <2>2, <2>4, <3>1 DEF ReviewOwed, SameTurn, Quiet, Integrates, IntegratingSteps
  <2> QED BY <1>1, <2>5, <2>6, <2>7 DEF InOrder
<1>3. CASE actor[a].pc # "review"
  <2>1. /\ record'.asg.review = record.asg.review
        /\ Prepared(a) => actor'[a].task.asg.review = actor[a].task.asg.review
        /\ record'.mode # record.mode => record.asg = actor[a].task.asg
        /\ actor[a].pc \in BeforeStart
    BY <1>3 DEF GateStep
  <2>2. \A b \in Calls : Reviewing(b)' => Reviewing(b)
    BY <2>1 DEF Reviewing, OthersStay, Prepared, BeforeStart
  <2>3. UnderReview <=> UnderReview'
    BY <2>1 DEF UnderReview
  <2>4. OneTurn'
    BY <2>3 DEF OneTurn, SameTurn, IntegratingSteps
  <2>5. Reviews'
    <3>1. \A b \in Calls : actor'[b].pc \in BeforeStart => actor'[b].task.asg.review # "pending"
      BY <2>1 DEF Reviews, OthersStay, Prepared, BeforeStart
    <3>2. \A b \in Calls : actor'[b].pc = "review" => actor'[b].task.asg.review = "pending" /\ actor'[b].by = "reviewer"
      BY DEF Reviews, OthersStay, BeforeStart
    <3>3. \A b \in Calls : actor'[b].pc = "restart" /\ actor'[b].by = "reviewer" => actor'[b].task.mode = "direct"
      BY DEF Reviews, OthersStay, GateStep
    <3>4. \A b \in Calls : Reviewing(b)' => actor'[b].by = "reviewer"
      BY <2>2 DEF Reviews, OthersStay, Reviewing, BeforeStart
    <3>5. \A b \in Calls : actor'[b].pc = "settle" => actor'[b] = actor[b]
      BY DEF IntegratingSteps
    <3> QED BY <2>1, <2>2, <2>3, <3>1, <3>2, <3>3, <3>4, <3>5 DEF Reviews
  <2>6. ReviewOwed'
    <3>1. SUFFICES ASSUME unreviewed
                   PROVE  ReviewOwed'
      BY DEF ReviewOwed
    <3>2. ASSUME record.status = "running", \A b \in Calls : ~Integrates(b)
          PROVE  record'.mode = "direct"
      <4>1. record.asg.review = "running" /\ record.mode = "direct"
        BY <3>1, <3>2 DEF ReviewOwed
      <4>2. ~Reviewing(a)
        BY <3>2 DEF Reviews, Quiet, Integrates, IntegratingSteps
      <4> QED BY <2>1, <4>1, <4>2 DEF Reviewing
    <3>3. \A b \in Calls : actor'[b].pc \in {"save", "settle", "merge", "integrate"} => actor'[b] = actor[b]
      BY DEF IntegratingSteps
    <3>4. \A b \in Calls : Prompting(b)' => actor'[b] = actor[b]
      BY DEF Prompting, OthersStay, BeforeStart
    <3>5. \A b \in Calls : actor[b].pc = "save" => actor'[b] = actor[b]
      BY DEF IntegratingSteps
    <3>6. record'.status = record.status /\ record'.bg = record.bg /\ record'.by = record.by
      BY DEF SameTurn
    <3> QED BY <2>1, <2>3, <3>1, <3>2, <3>3, <3>4, <3>5, <3>6 DEF ReviewOwed
  <2> QED BY <1>1, <2>4, <2>5, <2>6 DEF InOrder
<1> QED BY <1>2, <1>3

SameRecord ==
  /\ record'.bg = record.bg /\ record'.by = record.by /\ record'.child = record.child
  /\ record'.asg = record.asg /\ record'.mode = record.mode

(* A task that fails or is cancelled, or a user who works: the actors stay,*)
(* but for one whose call has failed.                                      *)
LEMMA FallingKeeps ==
  ASSUME AssignmentInvariant, gate = {}, SameRecord, record'.status \in {record.status, "failed", "cancelled"},
         \A a \in Calls : actor'[a] = actor[a] \/ (actor[a].pc = "fail" /\ actor'[a] = A!Asleep),
         UNCHANGED <<continuations, unreviewed>>, ended' = ended \/ (record.bg /\ ended')
  PROVE  InOrder'
<1> OneTurn /\ OwnChildren /\ Reviews /\ ReviewOwed
  BY DEF AssignmentInvariant, InOrder
<1> USE DEF SameRecord
<1>1. \A b \in Calls : actor'[b] = actor[b] \/ (actor'[b].pc = "idle" /\ actor'[b].child = 0 /\ actor[b].pc = "fail")
  BY AsleepTyped
<1>2. \A b \in Calls : /\ actor[b].pc \notin {"idle", "fail"} => actor'[b] = actor[b]
                       /\ actor'[b].pc \notin {"idle", "fail"} => actor'[b] = actor[b]
  BY <1>1
<1>3. \A b \in Calls : /\ Integrates(b)' <=> Integrates(b)
                       /\ Prompting(b)' <=> Prompting(b)
                       /\ Turning(b)' <=> Turning(b)
                       /\ Reviewing(b)' <=> Reviewing(b)
  BY <1>2 DEF Integrates, Prompting, Turning, Reviewing, IntegratingSteps, BeforeStart
<1>4. UnderReview' <=> UnderReview
  BY DEF UnderReview
<1>5. Quiet => Quiet'
  BY <1>2, <1>3 DEF Quiet, Integrates, IntegratingSteps
<1>6. OneTurn'
  BY <1>2, <1>3, <1>4 DEF OneTurn
<1>7. OwnChildren'
  BY <1>1, <1>2, <1>3, TypedFacts DEF OwnChildren, AssignmentInvariant, Turning, BeforeStart
<1>8. Reviews'
  BY <1>2, <1>3, <1>4, <1>5 DEF Reviews, Reviewing, BeforeStart
<1>9. ReviewOwed'
  <2> SUFFICES ASSUME unreviewed PROVE ReviewOwed'
    BY DEF ReviewOwed
  <2>1. \A b \in Calls : actor'[b].pc \in {"save", "settle", "merge", "integrate"} => actor'[b] = actor[b]
    BY <1>2
  <2>2. \A b \in Calls : Prompting(b)' => actor'[b] = actor[b] /\ Prompting(b)
    BY <1>2, <1>3 DEF Prompting
  <2>3. \A b \in Calls : actor[b].pc = "save" => actor'[b] = actor[b]
    BY <1>2
  <2>4. record'.status # "succeeded" /\ (record'.status = "running" => record.status = "running")
    BY DEF ReviewOwed
  <2> QED BY <1>3, <1>4, <2>1, <2>2, <2>3, <2>4 DEF ReviewOwed
<1> QED BY <1>6, <1>7, <1>8, <1>9 DEF InOrder

(* A task in the background begins.                                        *)
LEMMA PromotionKeeps ==
  ASSUME AssignmentInvariant, gate = {}, A!promoteRunnableTasks
  PROVE  AssignmentTyped' /\ InOrder'
<1> OneTurn /\ OwnChildren /\ Reviews /\ ReviewOwed
  BY DEF AssignmentInvariant, InOrder
<1>1. /\ record.bg /\ record.status \in {"queued", "blocked"} /\ ~UnderReview
      /\ UNCHANGED <<worktree, branch, rootDirty, events, actor, ended, continuations, unreviewed, gate>>
  BY DEF A!promoteRunnableTasks, A!isPromotableTask, UnderReview, A!repository, A!ghosts
<1>2. record' \in A!Record /\ SameRecord
  BY TypedFacts, StatusFacts DEF AssignmentInvariant, A!promoteRunnableTasks, A!Statuses, SameRecord
<1>3. ActorsTyped' /\ AssignmentTyped'
  <2>1. ActorsTyped'
    BY <1>1, TypedFacts DEF AssignmentInvariant, ActorsTyped
  <2> QED BY <1>1, <1>2, <2>1, TypedFacts, TypedSoFar DEF AssignmentInvariant, AssignmentTyped
<1>4. \A a \in Calls : ~Prompting(a) /\ ~Integrates(a) /\ ~Reviewing(a)
  BY <1>1 DEF OneTurn, Reviews, UnderReview, Integrates, IntegratingSteps
<1>5. ~unreviewed
  BY <1>1, <1>4 DEF ReviewOwed, Integrates, IntegratingSteps
<1>6. UNCHANGED <<actor, continuations, ended>> /\ record'.asg = record.asg /\ record'.child = record.child /\ unreviewed' = unreviewed
  BY <1>1, <1>2 DEF SameRecord
<1>7. \A a \in Calls : ~Prompting(a)' /\ ~Integrates(a)' /\ ~Reviewing(a)'
  BY <1>4, <1>6 DEF Prompting, Integrates, Reviewing
<1>8. OneTurn'
  BY <1>7 DEF OneTurn, Integrates, IntegratingSteps
<1>9. OwnChildren'
  BY <1>6 DEF OwnChildren, Turning
<1>10. Reviews'
  BY <1>1, <1>6, <1>7 DEF Reviews, UnderReview, Integrates, IntegratingSteps
<1> QED BY <1>3, <1>5, <1>6, <1>8, <1>9, <1>10 DEF InOrder, ReviewOwed

LEMMA FailingKeeps ==
  ASSUME AssignmentInvariant, gate = {},
         (\E a \in Calls : A!Fail(a)) \/ A!Cancel \/ A!TurnEnds \/ A!RootChanges
  PROVE  AssignmentTyped' /\ InOrder'
<1> USE TypedFacts
<1> AssignmentTyped
  BY DEF AssignmentInvariant
<1>1. CASE A!Cancel \/ A!TurnEnds \/ A!RootChanges
  <2>1. UNCHANGED <<actor, continuations, unreviewed, gate, worktree>>
    BY <1>1 DEF A!Cancel, A!TurnEnds, A!RootChanges, A!repository, A!ghosts
  <2>2. record' \in A!Record /\ SameRecord /\ record'.status \in {record.status, "failed", "cancelled"}
    BY <1>1, StatusFacts DEF A!Cancel, A!TurnEnds, A!RootChanges, A!Statuses, SameRecord
  <2>3. /\ branch' \in {"none", "even", "ahead", "clashing"} /\ rootDirty' \in BOOLEAN /\ ended' \in BOOLEAN
        /\ ended' = ended \/ (record.bg /\ ended')
    BY <1>1 DEF A!Cancel, A!TurnEnds, A!RootChanges, A!repository, A!ghosts, A!Worked
  <2>4. ActorsTyped'
    BY <2>1 DEF ActorsTyped
  <2>5. AssignmentTyped'
    BY <2>1, <2>2, <2>3, <2>4, TypedSoFar DEF AssignmentTyped
  <2> QED BY <2>1, <2>2, <2>3, <2>4, <2>5, FallingKeeps
<1>2. ASSUME NEW a \in Calls, A!Fail(a)
      PROVE  AssignmentTyped' /\ InOrder'
  <2>1. UNCHANGED <<continuations, unreviewed, gate, worktree, branch, rootDirty, ended>> /\ actor[a].pc = "fail" /\ A!Leave(a)
    BY <1>2 DEF A!Fail, A!repository, A!ghosts, A!At
  <2>2. record' \in A!Record /\ SameRecord /\ record'.status \in {record.status, "failed", "cancelled"}
    BY <1>2, StatusFacts DEF A!Fail, A!Statuses, SameRecord
  <2>3. ActorsTyped' /\ OthersStay(a) /\ actor'[a] = A!Asleep
    BY <2>1, ActorLeaves
  <2>4. \A b \in Calls : actor'[b].pc \in {"save", "settle"} => actor'[b].out \in DOMAIN A!Outcome
    BY <2>3, AsleepTyped DEF OthersStay, AssignmentTyped
  <2>5. AssignmentTyped'
    BY <2>1, <2>2, <2>3, <2>4, TypedSoFar
  <2> QED BY <2>1, <2>2, <2>3, <2>5, FallingKeeps DEF OthersStay
<1> QED BY <1>1, <1>2

(* A continuation is let in.                                               *)
LEMMA ContinueKeeps ==
  ASSUME AssignmentInvariant, gate = {}, NEW a \in Calls, NEW agent \in Agents, NEW bg \in BOOLEAN,
         A!Continue(a, agent, bg)
  PROVE  AssignmentTyped' /\ (gate' = {} => InOrder')
<1> USE TypedFacts
<1> AssignmentTyped
  BY DEF AssignmentInvariant
<1> PICK pc \in BeforeStart \cup {"review"} : pc = A!ReviewGate(record)
  BY DEF A!ReviewGate, A!ResyncGate, A!RootGate, BeforeStart
<1>1. /\ actor[a].pc = "idle" /\ continuations < MaxContinuations /\ continuations' = continuations + 1
      /\ UNCHANGED <<record, worktree, branch, rootDirty, events, ended, unreviewed>>
      /\ record.asg.review = "pending" => agent = "reviewer"
      /\ gate' = {} => record.asg.review # "running"
      /\ gate' \subseteq {"unfinished"}
  BY DEF A!Continue, A!Admitted, A!At, A!repository
<1>2. pc # "restart" /\ (pc = "review" <=> record.asg.review = "pending")
  BY DEF A!ReviewGate, A!ResyncGate, A!RootGate
<1>3. continuations + 1 \in 0..MaxContinuations /\ continuations \in Nat
  BY <1>1, DiskAssumption
<1> PICK x \in ActorStates : /\ x.pc = pc /\ x.by = agent /\ x.child = continuations + 1 /\ x.task = record
                             /\ actor' = [actor EXCEPT ![a] = x]
  <2>1. [A!Asleep EXCEPT !.pc = pc, !.by = agent, !.bg = bg, !.child = continuations + 1, !.task = record] \in ActorStates
    BY <1>3, AsleepTyped DEF ActorStates, ActorSteps
  <2> QED BY <2>1, AsleepTyped DEF A!Continue, ActorStates
<1>4. ActorsTyped' /\ OthersStay(a) /\ actor'[a] = x
  BY DEF ActorsTyped, OthersStay
<1>5. AssignmentTyped'
  <2>1. \A b \in Calls : actor'[b].pc \in {"save", "settle"} => actor'[b].out \in DOMAIN A!Outcome
    BY <1>4 DEF OthersStay, AssignmentTyped, BeforeStart
  <2> QED BY <1>1, <1>3, <1>4, <2>1, TypedSoFar
<1>6. ASSUME gate' = {}
      PROVE  InOrder'
  <2> OneTurn /\ OwnChildren /\ Reviews /\ ReviewOwed
    BY DEF AssignmentInvariant, InOrder
  <2>1. \A b \in Calls : /\ actor[b].pc \in IntegratingSteps \/ actor'[b].pc \in IntegratingSteps => actor'[b] = actor[b]
                         /\ Integrates(b)' <=> Integrates(b)
                         /\ Prompting(b)' <=> Prompting(b)
    BY <1>1, <1>4 DEF OthersStay, Integrates, Prompting, IntegratingSteps, BeforeStart
  <2>2. \A b \in Calls : Reviewing(b)' <=> Reviewing(b)
    BY <1>1, <1>2, <1>4, <1>6 DEF Reviewing, OthersStay, BeforeStart
  <2>3. (UnderReview' <=> UnderReview) /\ record' = record
    BY <1>1 DEF UnderReview
  <2>4. Quiet => Quiet'
    BY <2>1, <2>3 DEF Quiet, Integrates, IntegratingSteps
  <2>5. OneTurn'
    BY <1>1, <2>1, <2>3 DEF OneTurn, IntegratingSteps
  <2>6. OwnChildren'
    <3>1. \A b \in Calls \ {a} : actor'[b].child <= continuations /\ actor'[b].child \in Nat
      BY <1>4 DEF OwnChildren, OthersStay
    <3>2. actor'[a].child > continuations
      BY <1>3, <1>4
    <3>3. \A b \in Calls \ {a} : (Turning(b)' <=> Turning(b)) /\ actor'[b] = actor[b]
      BY <1>4 DEF Turning, OthersStay
    <3>4. record.child <= continuations /\ record.child \in Nat
      BY DEF OwnChildren
    <3>5. \A b, c \in Calls : Turning(b)' /\ Turning(c)' /\ actor'[b].child = actor'[c].child => b = c
      BY <1>3, <3>1, <3>2, <3>3 DEF OwnChildren
    <3>6. \A b \in Calls : actor'[b].child <= continuations'
      BY <1>1, <1>3, <1>4, <3>1
    <3>7. \A b \in Calls : actor'[b].pc \in BeforeStart \cup {"review"} => actor'[b].child # record.child
      BY <1>3, <3>2, <3>3, <3>4 DEF OwnChildren
    <3>8. record.child <= continuations'
      BY <1>1, <1>3, <3>4
    <3> QED BY <2>3, <3>5, <3>6, <3>7, <3>8 DEF OwnChildren
  <2>7. Reviews'
    <3>1. \A b \in Calls : actor'[b].pc \in BeforeStart => actor'[b].task.asg.review # "pending"
      BY <1>2, <1>4 DEF Reviews, OthersStay, BeforeStart
    <3>2. \A b \in Calls : actor'[b].pc = "review" => actor'[b].task.asg.review = "pending" /\ actor'[b].by = "reviewer"
      BY <1>1, <1>2, <1>4 DEF Reviews, OthersStay, BeforeStart
    <3>3. \A b \in Calls : actor'[b].pc = "restart" /\ actor'[b].by = "reviewer" => actor'[b].task.mode = "direct"
      BY <1>2, <1>4 DEF Reviews, OthersStay
    <3>4. \A b \in Calls : Reviewing(b)' => actor'[b].by = "reviewer"
      BY <1>1, <1>4, <2>2 DEF Reviews, OthersStay, Reviewing, BeforeStart
    <3>5. \A b \in Calls : actor'[b].pc = "settle" => actor'[b] = actor[b]
      BY <2>1 DEF IntegratingSteps
    <3> QED BY <2>2, <2>3, <2>4, <3>1, <3>2, <3>3, <3>4, <3>5 DEF Reviews
  <2>8. ReviewOwed'
    <3>1. \A b \in Calls : actor'[b].pc \in {"save", "settle", "merge", "integrate"} => actor'[b] = actor[b]
      BY <2>1 DEF IntegratingSteps
    <3>2. \A b \in Calls : Prompting(b)' => actor'[b] = actor[b]
      BY <1>4 DEF Prompting, OthersStay, BeforeStart
    <3>3. \A b \in Calls : actor[b].pc = "save" => actor'[b] = actor[b]
      BY <2>1 DEF IntegratingSteps
    <3> QED BY <1>1, <2>1, <2>3, <3>1, <3>2, <3>3 DEF ReviewOwed
  <2> QED BY <2>5, <2>6, <2>7, <2>8 DEF InOrder
<1> QED BY <1>5, <1>6

(* What an integration notes of the assignment.                            *)
LEMMA AssignedReview ==
  ASSUME NEW asg \in A!Assignment, NEW out \in {"deferred", "conflicted", "merged", "unchanged", "unverified"}
  PROVE  /\ A!Assigned(asg, out) \in A!Assignment
         /\ out = "merged" => A!Assigned(asg, out).review = "pending"
         /\ out # "merged" => A!Assigned(asg, out).review = asg.review
<1>1. CASE out = "deferred"
  BY <1>1 DEF A!Assigned, A!Assignment
<1>2. CASE out = "conflicted"
  BY <1>2 DEF A!Assigned, A!Assignment
<1>3. CASE out = "merged"
  BY <1>3 DEF A!Assigned, A!Assignment
<1>4. CASE out \in {"unchanged", "unverified"}
  BY <1>4 DEF A!Assigned
<1> QED BY <1>1, <1>2, <1>3, <1>4

LEMMA ReviewCompleted ==
  ASSUME NEW asg \in A!Assignment
  PROVE  [asg EXCEPT !.review = "complete"] \in A!Assignment /\ [asg EXCEPT !.review = "complete"].review = "complete"
BY DEF A!Assignment

(* The next turn begins.                                                   *)
LEMMA RestartKeeps ==
  ASSUME AssignmentInvariant, gate = {}, NEW a \in Calls, A!Restart(a)
  PROVE  AssignmentTyped' /\ (gate' = {} => InOrder')
<1> USE TypedFacts
<1> AssignmentTyped
  BY DEF AssignmentInvariant
<1> PICK task \in A!Record : task = actor[a].task
  OBVIOUS
<1> PICK agent \in Agents, child \in 0..MaxContinuations, bg \in BOOLEAN :
      agent = actor[a].by /\ child = actor[a].child /\ bg = actor[a].bg
  BY DEF ActorsTyped, ActorStates
<1>1. actor[a].pc = "restart" /\ UNCHANGED <<worktree, branch, rootDirty, events, continuations, unreviewed>>
  BY DEF A!Restart, A!At, A!repository
<1>2. CASE A!Leave(a) /\ UNCHANGED <<record, ended, gate>>
  <2>1. ActorsTyped' /\ OthersStay(a) /\ actor'[a] = A!Asleep /\ actor'[a].pc = "idle"
    BY <1>2, ActorLeaves, AsleepTyped
  <2>2. \A b \in Calls : actor'[b].pc \in {"save", "settle"} => actor'[b].out \in DOMAIN A!Outcome
    BY <2>1 DEF OthersStay, AssignmentTyped
  <2>3. AssignmentTyped'
    BY <1>1, <1>2, <2>1, <2>2, TypedSoFar
  <2>4. GateStep(a)
    BY <1>1, <1>2, <2>1, <2>3 DEF GateStep, SameTurn, Prepared, BeforeStart
  <2> QED BY <2>3, <2>4, GateKeeps
<1>3. CASE ~(A!Leave(a) /\ UNCHANGED <<record, ended, gate>>)
  <2> PICK new \in A!Record :
        /\ new = [task EXCEPT !.status = IF bg THEN "queued" ELSE "running", !.bg = bg,
                              !.by = IF bg THEN Own ELSE agent, !.child = child]
        /\ new.status = (IF bg THEN "queued" ELSE "running") /\ new.bg = bg
        /\ new.by = (IF bg THEN Own ELSE agent) /\ new.child = child /\ new.asg = task.asg /\ new.mode = task.mode
    <3> PICK status \in A!Statuses : status = IF bg THEN "queued" ELSE "running"
      BY DEF A!Statuses
    <3> PICK by \in Agents : by = IF bg THEN Own ELSE agent
      BY AgentsAreNamed
    <3> PICK new : new = [task EXCEPT !.status = status, !.bg = bg, !.by = by, !.child = child]
      OBVIOUS
    <3>1. new \in A!Record
      BY ONLY task \in A!Record, status \in A!Statuses, by \in Agents, bg \in BOOLEAN, child \in 0..MaxContinuations,
         new = [task EXCEPT !.status = status, !.bg = bg, !.by = by, !.child = child] DEF A!Record
    <3>2. new.status = status /\ new.bg = bg /\ new.by = by /\ new.child = child /\ new.asg = task.asg /\ new.mode = task.mode
      BY ONLY task \in A!Record, new = [task EXCEPT !.status = status, !.bg = bg, !.by = by, !.child = child] DEF A!Record
    <3> QED BY <3>1, <3>2
  <2>1. /\ record' = new /\ ended' = FALSE /\ record.status \notin {"queued", "running"}
        /\ gate' \subseteq {"overtaken", "overlap"}
        /\ gate' = {} => task.asg = record.asg /\ ~A!Integrating
        /\ IF bg THEN A!Leave(a) ELSE actor' = [actor EXCEPT ![a] = A!Started(agent, child, new)]
    BY <1>3 DEF A!Restart
  <2>2. /\ ActorsTyped' /\ OthersStay(a) /\ actor'[a].child <= continuations
        /\ IF bg THEN actor'[a].pc = "idle"
           ELSE actor'[a].pc = "prompt" /\ actor'[a].child = child /\ actor'[a].by = agent /\ actor'[a].task = new
    <3>1. CASE bg
      BY <2>1, <3>1, ActorLeaves, AsleepTyped
    <3>2. CASE ~bg
      <4> PICK x \in ActorStates : x = A!Started(agent, child, new)
        BY StartedTyped
      <4>1. x.pc = "prompt" /\ x.child = child /\ x.by = agent /\ x.task = new
        BY StartedTyped
      <4>2. actor' = [actor EXCEPT ![a] = x]
        BY <2>1, <3>2
      <4>3. ActorsTyped' /\ OthersStay(a) /\ actor'[a] = x
        BY <4>2 DEF ActorsTyped, OthersStay
      <4>4. child <= continuations
        BY DEF AssignmentInvariant, InOrder, OwnChildren
      <4> QED BY <3>2, <4>1, <4>3, <4>4
    <3> QED BY <3>1, <3>2
  <2>3. AssignmentTyped'
    <3>1. \A b \in Calls : actor'[b].pc \in {"save", "settle"} => actor'[b].out \in DOMAIN A!Outcome
      BY <2>2 DEF OthersStay, AssignmentTyped
    <3> QED BY <1>1, <2>1, <2>2, <3>1, TypedSoFar
  <2>4. ASSUME gate' = {}
        PROVE  InOrder'
    <3> OneTurn /\ OwnChildren /\ Reviews /\ ReviewOwed
      BY DEF AssignmentInvariant, InOrder
    <3>1. \A b \in Calls : ~Integrates(b) /\ ~Integrates(b)'
      BY <2>1, <2>2, <2>4 DEF A!Integrating, Integrates, IntegratingSteps, OthersStay
    <3>2. \A b \in Calls : Turning(b)' => Turning(b) /\ actor'[b].child = actor[b].child
      BY <1>1, <2>2 DEF Turning, OthersStay, BeforeStart
    <3>3. \A b \in Calls \ {a} : Turning(b) => actor[b].child # child
      BY <1>1 DEF OwnChildren, Turning, BeforeStart
    <3>4. \A b \in Calls : Prompting(b)' => b = a /\ ~bg
      BY <2>1, <2>2, <3>3 DEF Prompting, OthersStay, Turning
    <3>5. record'.asg = record.asg /\ record.asg = task.asg /\ record.asg.review # "pending"
      BY <1>1, <2>1, <2>4 DEF Reviews, BeforeStart
    <3>6. \A b \in Calls : ~Reviewing(b)'
      <4> SUFFICES ASSUME NEW b \in Calls, Reviewing(b)' PROVE FALSE
        OBVIOUS
      <4>1. b # a /\ Reviewing(b)
        BY <2>2 DEF Reviewing, OthersStay, BeforeStart
      <4>2. Reviewing(a)
        BY <1>1, <3>5, <4>1 DEF Reviews, Reviewing, BeforeStart
      <4> QED BY <4>1, <4>2 DEF Reviews
    <3>7. OneTurn'
      BY <2>1, <3>1, <3>4 DEF OneTurn, Integrates, IntegratingSteps
    <3>8. OwnChildren'
      <4>1. \A b \in Calls : actor'[b].child <= continuations
        BY <2>2 DEF OwnChildren, OthersStay
      <4>2. \A b \in Calls : actor'[b].pc \in BeforeStart \cup {"review"} => actor'[b].child # child
        BY <2>2, <3>3 DEF OthersStay, Turning, BeforeStart
      <4> QED BY <1>1, <2>1, <3>2, <4>1, <4>2 DEF OwnChildren
    <3>9. Reviews'
      <4>1. \A b \in Calls : actor'[b].pc \in BeforeStart \cup {"review"} => actor'[b] = actor[b]
        BY <2>2 DEF OthersStay, BeforeStart
      <4>2. \A b \in Calls : actor'[b].pc # "settle"
        BY <3>1 DEF Integrates, IntegratingSteps
      <4>3. /\ \A b \in Calls : actor[b].pc = "review" => actor[b].task.asg.review = "pending" /\ actor[b].by = "reviewer"
            /\ \A b \in Calls : actor[b].pc \in BeforeStart => actor[b].task.asg.review # "pending"
            /\ \A b \in Calls : actor[b].pc = "restart" /\ actor[b].by = "reviewer" => actor[b].task.mode = "direct"
        BY DEF Reviews
      <4>4. /\ record'.asg.review # "pending"
            /\ \A b \in Calls : ~Reviewing(b)'
            /\ \A b \in Calls : actor'[b].pc = "settle" /\ actor'[b].out = "merged" => UnderReview'
        BY <3>5, <3>6, <4>2
      <4>5. /\ \A b \in Calls : actor'[b].pc = "review" => actor'[b].task.asg.review = "pending" /\ actor'[b].by = "reviewer"
            /\ \A b \in Calls : actor'[b].pc \in BeforeStart => actor'[b].task.asg.review # "pending"
        BY <4>1, <4>3
      <4>6. \A b \in Calls : actor'[b].pc = "restart" /\ actor'[b].by = "reviewer" => actor'[b].task.mode = "direct"
        BY <4>1, <4>3 DEF BeforeStart
      <4> QED BY <4>4, <4>5, <4>6 DEF Reviews
    <3>10. ReviewOwed'
      <4> SUFFICES ASSUME unreviewed PROVE ReviewOwed'
        BY <1>1 DEF ReviewOwed
      <4>1. UnderReview /\ record.asg.review = "running"
        BY <3>1, <3>5 DEF ReviewOwed, UnderReview, Integrates, IntegratingSteps
      <4>2. Reviewing(a)
        BY <1>1, <3>5, <4>1 DEF Reviewing, BeforeStart
      <4>3. agent = "reviewer" /\ task.mode = "direct" /\ UnderReview'
        BY <1>1, <4>1, <4>2, <3>5 DEF Reviews, UnderReview
      <4>4. new.status # "succeeded" /\ (new.status = "running" => ~bg /\ new.by = "reviewer")
        BY <4>3
      <4>5. \A b \in Calls : Prompting(b)' => actor'[b].task.asg.review = "running" /\ actor'[b].by = "reviewer" /\ actor'[b].task.mode = "direct"
        <5> SUFFICES ASSUME NEW b \in Calls, Prompting(b)'
                     PROVE  actor'[b].task.asg.review = "running" /\ actor'[b].by = "reviewer" /\ actor'[b].task.mode = "direct"
          OBVIOUS
        <5>1. b = a
          BY <3>4
        <5>2. actor'[a].by = agent /\ actor'[a].task = new
          BY <2>2, <3>4
        <5>3. new.asg.review = "running" /\ new.mode = "direct"
          BY <3>5, <4>1, <4>3
        <5> QED BY <4>3, <5>1, <5>2, <5>3
      <4>6. \A b \in Calls : actor'[b].pc \notin {"integrate", "merge", "save", "settle"}
        BY <3>1 DEF Integrates, IntegratingSteps
      <4>7. record'.status # "succeeded" /\ (record'.status = "running" =>
              ~record'.bg /\ record'.by = "reviewer" /\ record'.mode = "direct" /\ record'.asg.review = "running")
        BY <2>1, <3>5, <4>1, <4>3, <4>4
      <4> QED BY <4>3, <4>5, <4>6, <4>7 DEF ReviewOwed
    <3> QED BY <3>7, <3>8, <3>9, <3>10 DEF InOrder
  <2> QED BY <2>3, <2>4
<1> QED BY <1>2, <1>3

(* The one actor that integrates goes on, or ends.                         *)
AtWork(a) ==
  /\ Integrates(a) /\ OthersStay(a) /\ record'.child = record.child /\ UNCHANGED continuations
  /\ actor'[a].pc \in IntegratingSteps \cup {"idle", "fail"} /\ actor'[a].child \in {0, actor[a].child}

LEMMA AloneAtWork ==
  ASSUME AssignmentInvariant, gate = {}, NEW a \in Calls, AtWork(a)
  PROVE  /\ OwnChildren'
         /\ \A b \in Calls : ~Prompting(b) /\ ~Prompting(b)'
         /\ \A b \in Calls \ {a} : ~Integrates(b) /\ ~Integrates(b)'
         /\ \A b \in Calls : actor'[b].pc \in BeforeStart \cup {"review"} => actor'[b] = actor[b]
         /\ \A b \in Calls : Reviewing(b)' <=> Reviewing(b)
<1> OneTurn /\ OwnChildren
  BY DEF AssignmentInvariant, InOrder
<1>1. actor'[a].pc \notin BeforeStart \cup {"review", "prompt"} /\ actor[a].pc \notin BeforeStart \cup {"review", "prompt"}
  BY DEF AtWork, Integrates, IntegratingSteps, BeforeStart
<1>2. \A b \in Calls \ {a} : actor'[b] = actor[b]
  BY DEF AtWork, OthersStay
<1>3. \A b \in Calls : (Turning(b)' <=> Turning(b)) /\ (Turning(b) => actor'[b] = actor[b])
  BY <1>1, <1>2 DEF Turning
<1>4. actor'[a].child <= continuations /\ record'.child = record.child /\ continuations' = continuations
  BY TypedFacts DEF AtWork, OwnChildren, AssignmentInvariant
<1>5. \A b \in Calls : actor'[b].child <= continuations
  BY <1>2, <1>4 DEF OwnChildren
<1>6. \A b \in Calls : actor'[b].pc \in BeforeStart \cup {"review"} => actor'[b] = actor[b]
  BY <1>1, <1>2
<1>7. OwnChildren'
  BY <1>3, <1>4, <1>5, <1>6 DEF OwnChildren
<1>8. \A b \in Calls : ~Prompting(b)
  BY DEF AtWork, OneTurn
<1>9. \A b \in Calls : ~Prompting(b)'
  BY <1>1, <1>2, <1>4, <1>8 DEF Prompting
<1>10. \A b \in Calls \ {a} : ~Integrates(b) /\ ~Integrates(b)'
  BY <1>2 DEF AtWork, OneTurn, Integrates
<1>11. \A b \in Calls : Reviewing(b)' <=> Reviewing(b)
  BY <1>1, <1>2 DEF Reviewing
<1> QED BY <1>6, <1>7, <1>8, <1>9, <1>10, <1>11

(* What the step has to leave right.                                       *)
StatusFits(a) ==
  /\ actor'[a].pc \in IntegratingSteps \ {"clean"} => record'.status \in {"running", "cancelled", "failed"}
  /\ actor'[a].pc = "clean" =>
       record'.status \in {"succeeded", "failed", "cancelled"} \/ (record'.status = "blocked" /\ UnderReview')

ReviewFits(a) ==
  /\ record'.asg.review = "pending" \/ (\E b \in Calls : Reviewing(b)) =>
       /\ actor'[a].pc \in IntegratingSteps => actor'[a].pc = "clean" \/ (actor'[a].pc = "settle" /\ actor'[a].out = "merged")
       /\ record'.status \in {"queued", "running"} => actor'[a].pc = "settle"
  /\ (\E b \in Calls : Reviewing(b)) => record'.asg.review = "running"
  /\ actor'[a].pc = "settle" /\ actor'[a].out = "merged" => UnderReview'

OwedFits(a) ==
  unreviewed' =>
    /\ record'.status # "succeeded"
    /\ UnderReview' \/ (actor'[a].pc = "save" /\ actor'[a].out = "merged")
    /\ actor'[a].pc \notin {"integrate", "merge"} /\ (actor'[a].pc \in {"save", "settle"} => actor'[a].out = "merged")
    /\ record'.status = "running" => actor'[a].pc \in IntegratingSteps

LEMMA TurnKeeps ==
  ASSUME AssignmentInvariant, gate = {}, NEW a \in Calls, AtWork(a), StatusFits(a), ReviewFits(a), OwedFits(a)
  PROVE  InOrder'
<1> USE AloneAtWork
<1> OneTurn /\ Reviews
  BY DEF AssignmentInvariant, InOrder
<1>1. \A b \in Calls \ {a} : actor'[b].pc \notin IntegratingSteps
  BY DEF Integrates
<1>2. OneTurn'
  BY <1>1 DEF OneTurn, StatusFits, Integrates, IntegratingSteps
<1>3. record'.asg.review = "pending" \/ (\E b \in Calls : Reviewing(b)) => Quiet'
  <2> SUFFICES ASSUME record'.asg.review = "pending" \/ (\E b \in Calls : Reviewing(b)) PROVE Quiet'
    OBVIOUS
  <2>1. \A b \in Calls : Integrates(b)' => actor'[b].pc = "clean" \/ (actor'[b].pc = "settle" /\ actor'[b].out = "merged")
    BY <1>1 DEF ReviewFits, Integrates
  <2>2. record'.status \in {"queued", "running"} => \E b \in Calls : actor'[b].pc = "settle"
    BY DEF ReviewFits
  <2> QED BY <2>1, <2>2 DEF Quiet
<1>4. Reviews'
  <2>1. \A b \in Calls : Reviewing(b)' => record'.asg.review = "running" /\ actor'[b].by = "reviewer" /\ Quiet'
    BY <1>3 DEF ReviewFits, Reviews, Reviewing
  <2>2. \A b \in Calls : actor'[b].pc = "settle" /\ actor'[b].out = "merged" => UnderReview'
    BY <1>1 DEF ReviewFits, IntegratingSteps
  <2>3. \A b, c \in Calls : Reviewing(b)' /\ Reviewing(c)' => b = c
    BY DEF Reviews
  <2>4. \A b \in Calls : actor'[b].pc \in BeforeStart => actor'[b].task.asg.review # "pending"
    BY DEF Reviews
  <2>5. \A b \in Calls : actor'[b].pc = "review" => actor'[b].task.asg.review = "pending" /\ actor'[b].by = "reviewer"
    BY DEF Reviews
  <2>6. \A b \in Calls : actor'[b].pc = "restart" /\ actor'[b].by = "reviewer" => actor'[b].task.mode = "direct"
    BY DEF Reviews, BeforeStart
  <2> QED BY <1>3, <2>1, <2>2, <2>3, <2>4, <2>5, <2>6 DEF Reviews
<1>5. ReviewOwed'
  <2> SUFFICES ASSUME unreviewed' PROVE ReviewOwed'
    BY DEF ReviewOwed
  <2>1. \A b \in Calls : actor'[b].pc # "integrate" /\ ~Prompting(b)'
    BY <1>1 DEF OwedFits, IntegratingSteps
  <2>2. \A b \in Calls : actor'[b].pc # "merge" /\ (actor'[b].pc \in {"save", "settle"} => actor'[b].out = "merged")
    BY <1>1 DEF OwedFits, IntegratingSteps
  <2>3. UnderReview' \/ \E b \in Calls : actor'[b].pc = "save" /\ actor'[b].out = "merged"
    BY DEF OwedFits
  <2>4. ~(record'.status = "running" /\ \A b \in Calls : ~Integrates(b)')
    BY DEF OwedFits, Integrates
  <2> QED BY <2>1, <2>2, <2>3, <2>4 DEF OwedFits, ReviewOwed
<1> QED BY <1>2, <1>4, <1>5 DEF InOrder

(* While one integrates, no review is due, until its merge is saved.       *)
LEMMA NoReviewYet ==
  ASSUME AssignmentInvariant, gate = {}, NEW a \in Calls, actor[a].pc \in {"integrate", "merge", "save"}
  PROVE  /\ record.asg.review # "pending" /\ \A b \in Calls : ~Reviewing(b)
         /\ record.status \in {"running", "cancelled", "failed"} /\ Integrates(a)
BY DEF AssignmentInvariant, InOrder, Reviews, OneTurn, Quiet, Integrates, IntegratingSteps

(* A prompt returns, or the event of a session is delivered: the turn is   *)
(* integrated by one actor.                                                *)
Joins(a) ==
  /\ OthersStay(a) /\ actor'[a].pc = "integrate" /\ UNCHANGED <<record, continuations, unreviewed>>
  /\ actor'[a].child = record.child /\ (\A b \in Calls : ~Integrates(b)) /\ (\A b \in Calls \ {a} : ~Prompting(b))
  /\ record.status \in {"running", "cancelled", "failed"} /\ actor[a].pc \in {"idle", "prompt"}
  /\ record.asg.review # "pending" /\ \A b \in Calls : ~Reviewing(b)
  /\ unreviewed => actor'[a].task.asg.review = "running" /\ actor'[a].by = "reviewer" /\ actor'[a].task.mode = "direct"

LEMMA JoiningKeeps ==
  ASSUME AssignmentInvariant, gate = {}, NEW a \in Calls, Joins(a)
  PROVE  InOrder'
<1> OneTurn /\ OwnChildren /\ Reviews /\ ReviewOwed
  BY DEF AssignmentInvariant, InOrder
<1> USE DEF Joins
<1>1. \A b \in Calls \ {a} : actor'[b] = actor[b]
  BY DEF OthersStay
<1>2. \A b \in Calls : ~Prompting(b)' /\ (Integrates(b)' <=> b = a) /\ ~Reviewing(b)'
  BY <1>1 DEF Prompting, Integrates, IntegratingSteps, Reviewing, BeforeStart
<1>3. \A b \in Calls \ {a} : actor'[b].pc \notin IntegratingSteps
  BY <1>2 DEF Integrates
<1>4. OneTurn'
  BY <1>2, <1>3 DEF OneTurn, IntegratingSteps
<1>5. OwnChildren'
  <2>1. \A b \in Calls : Turning(b)' => b # a /\ Turning(b) /\ actor'[b] = actor[b]
    BY <1>1 DEF Turning, BeforeStart
  <2>2. \A b \in Calls : actor'[b].child <= continuations
    BY <1>1 DEF OwnChildren
  <2>3. \A b \in Calls : actor'[b].pc \in BeforeStart \cup {"review"} => actor'[b].child # record.child
    BY <1>1 DEF OwnChildren, BeforeStart
  <2> QED BY <2>1, <2>2, <2>3 DEF OwnChildren
<1>6. Reviews'
  <2>1. \A b \in Calls : actor'[b].pc \in BeforeStart \cup {"review"} => actor'[b] = actor[b]
    BY <1>1 DEF BeforeStart
  <2>2. \A b \in Calls : actor'[b].pc # "settle"
    BY <1>1, <1>3 DEF IntegratingSteps
  <2> QED BY <1>2, <2>1, <2>2 DEF Reviews, BeforeStart
<1>7. ReviewOwed'
  <2> SUFFICES ASSUME unreviewed PROVE ReviewOwed'
    BY DEF ReviewOwed
  <2>1. UnderReview'
    BY DEF ReviewOwed, UnderReview, Integrates, IntegratingSteps
  <2>2. \A b \in Calls : actor'[b].pc \notin {"merge", "save", "settle"}
    BY <1>1, <1>3 DEF IntegratingSteps
  <2>3. \A b \in Calls : actor'[b].pc = "integrate" \/ Prompting(b)' => b = a
    BY <1>2, <1>3 DEF IntegratingSteps
  <2> QED BY <1>2, <2>1, <2>2, <2>3 DEF ReviewOwed
<1> QED BY <1>4, <1>5, <1>6, <1>7 DEF InOrder

LEMMA PromptReturnsKeeps ==
  ASSUME AssignmentInvariant, gate = {}, NEW a \in Calls, A!PromptReturns(a)
  PROVE  AssignmentTyped' /\ (gate' = {} => InOrder')
<1> USE TypedFacts
<1> AssignmentTyped
  BY DEF AssignmentInvariant
<1> PICK task \in A!Record : task = actor[a].task
  OBVIOUS
<1>1. /\ actor[a].pc = "prompt" /\ UNCHANGED <<record, worktree, rootDirty, events, continuations, unreviewed>>
      /\ ended' = (ended \/ actor[a].child = record.child)
      /\ branch' \in {"none", "even", "ahead", "clashing"}
  BY DEF A!PromptReturns, A!At, A!Worked
<1>2. \/ A!Go(a, "integrate", task) /\ A!Joined(actor[a].child)
      \/ A!Go(a, "fail", task) /\ UNCHANGED gate
  BY DEF A!PromptReturns
<1> PICK pc \in {"integrate", "fail"} :
      /\ A!Go(a, pc, task) /\ (pc = "integrate" => A!Joined(actor[a].child)) /\ (pc = "fail" => gate' = gate)
  BY <1>2
<1>3. /\ ActorsTyped' /\ OthersStay(a) /\ actor'[a].pc = pc /\ actor'[a].task = task
      /\ actor'[a].by = actor[a].by /\ actor'[a].child = actor[a].child
  BY ActorGoes DEF ActorSteps, IntegratingSteps
<1>4. gate' \subseteq {"overlap"}
  BY DEF A!Joined
<1>5. AssignmentTyped'
  <2>1. \A b \in Calls : actor'[b].pc \in {"save", "settle"} => actor'[b].out \in DOMAIN A!Outcome
    BY <1>3 DEF OthersStay, AssignmentTyped
  <2>2. ended' \in BOOLEAN
    BY <1>1
  <2> QED BY <1>1, <1>3, <1>4, <2>1, <2>2, TypedSoFar
<1>6. ASSUME gate' = {}, pc = "integrate"
      PROVE  InOrder'
  <2> OneTurn /\ OwnChildren /\ Reviews /\ ReviewOwed
    BY DEF AssignmentInvariant, InOrder
  <2>1. ~A!Integrating /\ actor[a].child = record.child
    BY <1>6 DEF A!Joined
  <2>2. Prompting(a) /\ \A b \in Calls : ~Integrates(b)
    BY <1>1, <2>1 DEF Prompting, A!Integrating, Integrates, IntegratingSteps
  <2>3. \A b \in Calls \ {a} : ~Prompting(b)
    BY <2>2 DEF OwnChildren, Prompting, Turning
  <2>4. record.status \in {"running", "cancelled", "failed"}
    BY <2>2 DEF OneTurn
  <2>5. ~Quiet
    BY <2>2 DEF Quiet
  <2>6. record.asg.review # "pending" /\ \A b \in Calls : ~Reviewing(b)
    BY <2>5 DEF Reviews
  <2>7. unreviewed => task.asg.review = "running" /\ actor[a].by = "reviewer" /\ task.mode = "direct"
    BY <2>2 DEF ReviewOwed
  <2>8. Joins(a)
    BY <1>1, <1>3, <1>6, <2>1, <2>2, <2>3, <2>4, <2>6, <2>7 DEF Joins
  <2> QED BY <2>8, JoiningKeeps
<1>7. ASSUME pc = "fail"
      PROVE  InOrder'
  <2> OneTurn /\ OwnChildren /\ Reviews /\ ReviewOwed
    BY DEF AssignmentInvariant, InOrder
  <2>1. \A b \in Calls \ {a} : actor'[b] = actor[b]
    BY <1>3 DEF OthersStay
  <2>2. \A b \in Calls : /\ (Integrates(b)' <=> Integrates(b)) /\ (Reviewing(b)' <=> Reviewing(b))
                         /\ (Turning(b)' => Turning(b)) /\ actor'[b].child = actor[b].child
                         /\ (Prompting(b)' => Prompting(b) /\ b # a /\ actor'[b] = actor[b])
    BY <1>1, <1>3, <1>7, <2>1 DEF Integrates, Reviewing, Turning, Prompting, IntegratingSteps, BeforeStart
  <2>3. \A b \in Calls : actor[b].pc \notin {"prompt", "fail"} \/ actor'[b].pc \notin {"prompt", "fail"} => actor'[b] = actor[b]
    BY <1>1, <1>3, <1>7, <2>1
  <2>4. (UnderReview' <=> UnderReview) /\ record' = record
    BY <1>1 DEF UnderReview
  <2>5. Quiet => Quiet'
    BY <2>2, <2>3, <2>4 DEF Quiet, Integrates, IntegratingSteps
  <2>6. \A b \in Calls : Prompting(b)' => ~ended'
    <3>1. \A b \in Calls : Prompting(b)' => ~ended /\ actor[a].child # record.child
      BY <1>1, <2>2 DEF OneTurn, OwnChildren, Turning, Prompting
    <3> QED BY <1>1, <3>1
  <2>7. OneTurn'
    <3>1. \A b \in Calls : actor'[b].pc \in IntegratingSteps => actor'[b] = actor[b]
      BY <2>3 DEF IntegratingSteps
    <3> QED BY <2>2, <2>4, <2>6, <3>1 DEF OneTurn, IntegratingSteps
  <2>8. OwnChildren'
    <3>1. \A b \in Calls : actor'[b].pc \in BeforeStart \cup {"review"} => actor'[b] = actor[b]
      BY <2>3 DEF BeforeStart
    <3> QED BY <1>1, <2>2, <2>4, <3>1 DEF OwnChildren
  <2>9. Reviews'
    <3>1. \A b \in Calls : actor'[b].pc \in BeforeStart \cup {"review", "settle"} => actor'[b] = actor[b]
      BY <2>3 DEF BeforeStart
    <3> QED BY <2>2, <2>4, <2>5, <3>1 DEF Reviews, Reviewing, BeforeStart
  <2>10. ReviewOwed'
    <3>1. \A b \in Calls : actor'[b].pc \in {"save", "settle", "merge", "integrate"} => actor'[b] = actor[b]
      BY <2>3
    <3>2. \A b \in Calls : actor[b].pc = "save" => actor'[b] = actor[b]
      BY <2>3
    <3> QED BY <1>1, <2>2, <2>4, <3>1, <3>2 DEF ReviewOwed
  <2> QED BY <2>7, <2>8, <2>9, <2>10 DEF InOrder
<1> QED BY <1>5, <1>6, <1>7

LEMMA IdleKeeps ==
  ASSUME AssignmentInvariant, gate = {}, NEW a \in Calls, A!Idle(a)
  PROVE  AssignmentTyped' /\ (gate' = {} => InOrder')
<1> USE TypedFacts
<1> AssignmentTyped
  BY DEF AssignmentInvariant
<1>1. /\ actor[a].pc = "idle" /\ ended /\ ended' = FALSE
      /\ UNCHANGED <<record, worktree, branch, rootDirty, events, continuations, unreviewed>>
  BY DEF A!Idle, A!At, A!repository
<1>2. CASE record.status # "running"
  <2>1. UNCHANGED <<actor, gate>>
    BY <1>2 DEF A!Idle
  <2>2. ActorsTyped'
    BY <2>1 DEF ActorsTyped
  <2>3. AssignmentTyped'
    BY <1>1, <2>1, <2>2, TypedSoFar DEF AssignmentTyped
  <2>4. InOrder'
    <3> OneTurn /\ OwnChildren /\ Reviews /\ ReviewOwed
      BY DEF AssignmentInvariant, InOrder
    <3>1. \A b \in Calls : /\ (Integrates(b)' <=> Integrates(b)) /\ (Reviewing(b)' <=> Reviewing(b))
                           /\ (Turning(b)' <=> Turning(b)) /\ (Prompting(b)' <=> Prompting(b))
      BY <1>1, <2>1 DEF Integrates, Reviewing, Turning, Prompting
    <3>2. OneTurn'
      BY <1>1, <2>1, <3>1 DEF OneTurn, UnderReview
    <3>3. OwnChildren'
      BY <1>1, <2>1, <3>1 DEF OwnChildren
    <3>4. Quiet => Quiet'
      BY <1>1, <2>1, <3>1 DEF Quiet
    <3>5. Reviews'
      BY <1>1, <2>1, <3>1, <3>4 DEF Reviews, UnderReview
    <3>6. ReviewOwed'
      BY <1>1, <2>1, <3>1 DEF ReviewOwed, UnderReview
    <3> QED BY <3>2, <3>3, <3>5, <3>6 DEF InOrder
  <2> QED BY <2>3, <2>4
<1>3. CASE record.status = "running"
  <2> PICK x \in ActorStates : /\ x.pc = "integrate" /\ x.by = record.by /\ x.child = record.child /\ x.task = record
                               /\ actor' = [actor EXCEPT ![a] = x]
    <3> PICK r \in A!Record : r = record /\ r.by \in Agents /\ r.child \in 0..MaxContinuations
      OBVIOUS
    <3>1. [A!Asleep EXCEPT !.pc = "integrate", !.by = r.by, !.event = TRUE, !.child = r.child, !.task = r] \in ActorStates
      BY AsleepTyped DEF ActorStates, ActorSteps, IntegratingSteps
    <3> QED BY <1>3, <3>1, AsleepTyped DEF A!Idle, ActorStates
  <2>1. ActorsTyped' /\ OthersStay(a) /\ actor'[a] = x
    BY DEF ActorsTyped, OthersStay
  <2>2. A!Joined(record.child) /\ gate' \subseteq {"overlap"}
    BY <1>3 DEF A!Idle, A!Joined
  <2>3. AssignmentTyped'
    <3>1. \A b \in Calls : actor'[b].pc \in {"save", "settle"} => actor'[b].out \in DOMAIN A!Outcome
      BY <2>1 DEF OthersStay, AssignmentTyped
    <3> QED BY <1>1, <2>1, <2>2, <3>1, TypedSoFar
  <2>4. ASSUME gate' = {}
        PROVE  InOrder'
    <3> OneTurn /\ OwnChildren /\ Reviews /\ ReviewOwed
      BY DEF AssignmentInvariant, InOrder
    <3>1. \A b \in Calls : ~Integrates(b)
      BY <2>2, <2>4 DEF A!Joined, A!Integrating, Integrates, IntegratingSteps
    <3>2. \A b \in Calls : ~Prompting(b)
      BY <1>1 DEF OneTurn
    <3>3. ~Quiet
      BY <1>3, <3>1 DEF Quiet, Integrates, IntegratingSteps
    <3>4. record.asg.review # "pending" /\ \A b \in Calls : ~Reviewing(b)
      BY <3>3 DEF Reviews
    <3>5. unreviewed => record.by = "reviewer" /\ record.mode = "direct" /\ record.asg.review = "running"
      BY <1>3, <3>1 DEF ReviewOwed
    <3>6. Joins(a)
      BY <1>1, <1>3, <2>1, <3>1, <3>2, <3>4, <3>5 DEF Joins
    <3> QED BY <3>6, JoiningKeeps
  <2> QED BY <2>3, <2>4
<1> QED BY <1>2, <1>3

LEMMA ActorThrows ==
  ASSUME AssignmentTyped, NEW a \in Calls, A!Throw(a) \/ A!Leave(a)
  PROVE  /\ ActorsTyped' /\ OthersStay(a) /\ actor'[a].pc \in {"idle", "fail"}
         /\ actor'[a].child \in {0, actor[a].child}
<1>1. CASE A!Leave(a)
  BY <1>1, ActorLeaves, AsleepTyped, TypedFacts
<1>2. CASE A!Go(a, "fail", A!My(a))
  BY <1>2, ActorGoes, TypedFacts DEF ActorSteps
<1> QED BY <1>1, <1>2 DEF A!Throw

(* Nothing is merged by what comes before a merge.                         *)
LEMMA IntegrateKeeps ==
  ASSUME AssignmentInvariant, gate = {}, NEW a \in Calls, A!Integrate(a)
  PROVE  AssignmentTyped' /\ InOrder'
<1> USE TypedFacts
<1> AssignmentTyped
  BY DEF AssignmentInvariant
<1>1. /\ actor[a].pc = "integrate" /\ actor[a].task.mode = "worktree"
      /\ UNCHANGED <<record, worktree, branch, rootDirty, events, ended, continuations, unreviewed, gate>>
  BY DEF A!Integrate, A!At, A!repository, A!ghosts
<1>2. /\ ActorsTyped' /\ OthersStay(a) /\ actor'[a].child \in {0, actor[a].child}
      /\ actor'[a].pc \in {"idle", "fail", "save", "settle", "merge"}
      /\ actor'[a].pc \in {"save", "settle"} => actor'[a].out \in {"unchanged", "unverified"}
  <2>1. CASE A!Throw(a)
    BY <2>1, ActorThrows
  <2>2. ASSUME NEW pc \in {"save", "settle", "merge"}, NEW out \in {"unchanged", "unverified", "verified"},
               pc # "merge" => out # "verified", A!Out(a, out, pc)
        PROVE  /\ ActorsTyped' /\ OthersStay(a) /\ actor'[a].child \in {0, actor[a].child}
               /\ actor'[a].pc \in {"idle", "fail", "save", "settle", "merge"}
               /\ actor'[a].pc \in {"save", "settle"} => actor'[a].out \in {"unchanged", "unverified"}
    BY <2>2, ActorHasOutcome DEF ActorSteps, IntegratingSteps, Outs
  <2> QED BY <2>1, <2>2 DEF A!Integrate
<1>3. AssignmentTyped'
  <2>1. \A b \in Calls : actor'[b].pc \in {"save", "settle"} => actor'[b].out \in DOMAIN A!Outcome
    BY <1>2 DEF OthersStay, AssignmentTyped, A!Outcome
  <2> QED BY <1>1, <1>2, <2>1, TypedSoFar
<1>4. /\ record.asg.review # "pending" /\ \A b \in Calls : ~Reviewing(b)
      /\ record.status \in {"running", "cancelled", "failed"} /\ Integrates(a)
  BY <1>1, NoReviewYet
<1>5. ~unreviewed
  BY <1>1 DEF AssignmentInvariant, InOrder, ReviewOwed
<1>6. AtWork(a)
  BY <1>1, <1>2, <1>4 DEF AtWork, IntegratingSteps
<1>7. StatusFits(a) /\ ReviewFits(a) /\ OwedFits(a)
  BY <1>1, <1>2, <1>4, <1>5 DEF StatusFits, ReviewFits, OwedFits, IntegratingSteps
<1> QED BY <1>3, <1>6, <1>7, TurnKeeps

(* A turn without a worktree ends a review.                                *)
LEMMA IntegrateReviewKeeps ==
  ASSUME AssignmentInvariant, gate = {}, NEW a \in Calls, A!IntegrateReview(a)
  PROVE  AssignmentTyped' /\ (gate' = {} => InOrder')
<1> USE TypedFacts
<1> AssignmentTyped
  BY DEF AssignmentInvariant
<1> PICK task \in A!Record : task = actor[a].task
  OBVIOUS
<1>1. /\ actor[a].pc = "integrate" /\ UNCHANGED <<worktree, branch, rootDirty, events, ended, continuations>>
      /\ A!Out(a, "unchanged", "settle")
  BY DEF A!IntegrateReview, A!At, A!repository
<1>2. /\ ActorsTyped' /\ OthersStay(a) /\ actor'[a].child = actor[a].child
      /\ actor'[a].pc = "settle" /\ actor'[a].out = "unchanged"
  BY <1>1, ActorHasOutcome DEF ActorSteps, IntegratingSteps, Outs
<1>3. /\ record' \in A!Record /\ record'.status = record.status /\ record'.child = record.child
      /\ gate' \subseteq {"overtaken"} /\ unreviewed' \in BOOLEAN
      /\ gate' = {} => record'.asg.review \in {record.asg.review, "complete"}
  <2>1. CASE task.asg.review = "running"
    <3> PICK asg \in A!Assignment : asg = [task.asg EXCEPT !.review = "complete"]
      <4>1. task.asg \in A!Assignment
        OBVIOUS
      <4> QED BY <4>1, ReviewCompleted
    <3>1. asg.review = "complete"
      BY ReviewCompleted
    <3>2. A!Write(a, asg, record.mode) /\ unreviewed' = (unreviewed /\ actor[a].by # "reviewer")
      BY <2>1 DEF A!IntegrateReview
    <3>3. record.mode \in {"direct", "worktree"} /\ unreviewed' \in BOOLEAN
      BY <3>2
    <3>4. /\ record' \in A!Record /\ record'.asg = asg /\ record'.status = record.status
          /\ record'.child = record.child /\ gate' \subseteq {"overtaken"}
      BY <3>2, <3>3, WriteFacts
    <3> QED BY <3>1, <3>3, <3>4
  <2>2. CASE task.asg.review # "running"
    BY <2>2 DEF A!IntegrateReview, A!ghosts
  <2> QED BY <2>1, <2>2
<1>4. ~unreviewed'
  <2>1. unreviewed => task.asg.review = "running" /\ actor[a].by = "reviewer"
    BY <1>1 DEF AssignmentInvariant, InOrder, ReviewOwed
  <2> QED BY <2>1 DEF A!IntegrateReview, A!ghosts
<1>5. AssignmentTyped'
  <2>1. \A b \in Calls : actor'[b].pc \in {"save", "settle"} => actor'[b].out \in DOMAIN A!Outcome
    BY <1>2 DEF OthersStay, AssignmentTyped, A!Outcome
  <2> QED BY <1>1, <1>2, <1>3, <2>1, TypedSoFar
<1>6. /\ record.asg.review # "pending" /\ \A b \in Calls : ~Reviewing(b)
      /\ record.status \in {"running", "cancelled", "failed"} /\ Integrates(a)
  BY <1>1, NoReviewYet
<1>7. AtWork(a)
  BY <1>1, <1>2, <1>3, <1>6 DEF AtWork, IntegratingSteps
<1>8. ASSUME gate' = {}
      PROVE  StatusFits(a) /\ ReviewFits(a) /\ OwedFits(a)
  BY <1>2, <1>3, <1>4, <1>6, <1>8 DEF StatusFits, ReviewFits, OwedFits, IntegratingSteps
<1> QED BY <1>5, <1>7, <1>8, TurnKeeps

LEMMA MergeKeeps ==
  ASSUME AssignmentInvariant, gate = {}, NEW a \in Calls, A!Merge(a)
  PROVE  AssignmentTyped' /\ InOrder'
<1> USE TypedFacts
<1> AssignmentTyped
  BY DEF AssignmentInvariant
<1>1. actor[a].pc = "merge" /\ UNCHANGED <<record, worktree, rootDirty, events, ended, continuations, gate>>
  BY DEF A!Merge, A!At
<1> PICK out \in {"deferred", "conflicted", "merged"} :
      A!Out(a, out, "save") /\ (out # "merged" => UNCHANGED <<branch, unreviewed>>)
  BY DEF A!Merge
<1>2. /\ ActorsTyped' /\ OthersStay(a) /\ actor'[a].child = actor[a].child
      /\ actor'[a].pc = "save" /\ actor'[a].out = out
  BY ActorHasOutcome DEF ActorSteps, IntegratingSteps, Outs
<1>3. unreviewed' \in BOOLEAN /\ branch' \in {"none", "even", "ahead", "clashing"}
  BY DEF A!Merge
<1>4. AssignmentTyped'
  <2>1. \A b \in Calls : actor'[b].pc \in {"save", "settle"} => actor'[b].out \in DOMAIN A!Outcome
    BY <1>2 DEF OthersStay, AssignmentTyped, A!Outcome
  <2> QED BY <1>1, <1>2, <1>3, <2>1, TypedSoFar
<1>5. /\ record.asg.review # "pending" /\ \A b \in Calls : ~Reviewing(b)
      /\ record.status \in {"running", "cancelled", "failed"} /\ Integrates(a)
  BY <1>1, NoReviewYet
<1>6. ~unreviewed
  BY <1>1 DEF AssignmentInvariant, InOrder, ReviewOwed
<1>7. AtWork(a)
  BY <1>1, <1>2, <1>5 DEF AtWork, IntegratingSteps
<1>8. unreviewed' => out = "merged"
  BY <1>6
<1>9. StatusFits(a) /\ ReviewFits(a) /\ OwedFits(a)
  BY <1>1, <1>2, <1>5, <1>8 DEF StatusFits, ReviewFits, OwedFits, IntegratingSteps
<1> QED BY <1>4, <1>7, <1>9, TurnKeeps

(* A merge that is saved makes its review due.                             *)
LEMMA SaveKeeps ==
  ASSUME AssignmentInvariant, gate = {}, NEW a \in Calls, A!Save(a)
  PROVE  AssignmentTyped' /\ (gate' = {} => InOrder')
<1> USE TypedFacts
<1> AssignmentTyped
  BY DEF AssignmentInvariant
<1> PICK task \in A!Record, out \in Outs : task = actor[a].task /\ out = actor[a].out
  OBVIOUS
<1>1. /\ actor[a].pc = "save" /\ UNCHANGED <<worktree, branch, rootDirty, events, ended, continuations, unreviewed>>
      /\ A!Write(a, A!Assigned(task.asg, out), task.mode) /\ A!Go(a, "settle", record')
  BY DEF A!Save, A!At, A!repository
<1>2. out \in DOMAIN A!Outcome
  BY <1>1 DEF AssignmentTyped
<1> PICK asg \in A!Assignment : /\ asg = A!Assigned(task.asg, out)
                                /\ out = "merged" => asg.review = "pending"
                                /\ out # "merged" => asg.review = task.asg.review
  <2>1. /\ A!Assigned(task.asg, out) \in A!Assignment
        /\ out = "merged" => A!Assigned(task.asg, out).review = "pending"
        /\ out # "merged" => A!Assigned(task.asg, out).review = task.asg.review
    <3>1. task.asg \in A!Assignment
      BY DEF A!Record
    <3>2. out \in {"deferred", "conflicted", "merged", "unchanged", "unverified"}
      BY <1>2 DEF A!Outcome
    <3> QED BY <3>1, <3>2, AssignedReview
  <2> QED BY <2>1
<1>3. /\ record' \in A!Record /\ record'.asg = asg /\ record'.status = record.status /\ record'.child = record.child
      /\ gate' \subseteq {"overtaken"} /\ (gate' = {} => task.asg = record.asg)
  <2>1. A!Write(a, asg, task.mode)
    BY <1>1
  <2> QED BY <2>1, WriteFacts
<1> PICK new \in A!Record : new = record'
  BY <1>3
<1>4. /\ ActorsTyped' /\ OthersStay(a) /\ actor'[a].child = actor[a].child
      /\ actor'[a].pc = "settle" /\ actor'[a].out = out
  BY <1>1, ActorGoes DEF ActorSteps, IntegratingSteps
<1>5. AssignmentTyped'
  <2>1. \A b \in Calls : actor'[b].pc \in {"save", "settle"} => actor'[b].out \in DOMAIN A!Outcome
    BY <1>2, <1>4 DEF OthersStay, AssignmentTyped
  <2> QED BY <1>1, <1>3, <1>4, <2>1, TypedSoFar
<1>6. /\ record.asg.review # "pending" /\ \A b \in Calls : ~Reviewing(b)
      /\ record.status \in {"running", "cancelled", "failed"} /\ Integrates(a)
  BY <1>1, NoReviewYet
<1>7. AtWork(a)
  BY <1>1, <1>3, <1>4, <1>6 DEF AtWork, IntegratingSteps
<1>8. unreviewed => out = "merged"
  BY <1>1 DEF AssignmentInvariant, InOrder, ReviewOwed
<1>9. ASSUME gate' = {}
      PROVE  StatusFits(a) /\ ReviewFits(a) /\ OwedFits(a)
  <2>1. out = "merged" => UnderReview'
    BY <1>3 DEF UnderReview
  <2>2. record'.asg.review = "pending" => out = "merged"
    BY <1>3, <1>6, <1>9
  <2> QED BY <1>1, <1>3, <1>4, <1>6, <1>8, <2>1, <2>2 DEF StatusFits, ReviewFits, OwedFits, IntegratingSteps
<1> QED BY <1>5, <1>7, <1>9, TurnKeeps

(* The task is over, or blocked until its review.                          *)
LEMMA SettleKeeps ==
  ASSUME AssignmentInvariant, gate = {}, NEW a \in Calls, A!Settle(a)
  PROVE  AssignmentTyped' /\ InOrder'
<1> USE TypedFacts
<1> AssignmentTyped
  BY DEF AssignmentInvariant
<1> OneTurn /\ Reviews /\ ReviewOwed
  BY DEF AssignmentInvariant, InOrder
<1>1. /\ actor[a].pc = "settle" /\ Integrates(a)
      /\ UNCHANGED <<worktree, branch, rootDirty, events, ended, continuations, unreviewed, gate>>
  BY DEF A!Settle, A!At, A!repository, A!ghosts, Integrates, IntegratingSteps
<1> PICK out \in DOMAIN A!Outcome : out = actor[a].out
  BY <1>1 DEF AssignmentTyped
<1> PICK to \in {"succeeded", "failed", "blocked"} :
      /\ to = A!Outcome[out]
      /\ out = "merged" => to = "blocked"
      /\ out \in {"unchanged", "unverified", "merged"} /\ to = "blocked" => out = "merged"
  BY DEF A!Outcome
<1>2. record.status \in {"running", "cancelled", "failed"}
  BY <1>1 DEF OneTurn
<1>3. /\ record.status = "running" => A!CanMove(to)
      /\ A!CanMove(to) /\ record.status # "running" => to = "failed"
  BY <1>2 DEF A!CanMove, A!Allowed
<1>4. /\ record' \in A!Record /\ SameRecord
      /\ record'.status = IF A!CanMove(to) THEN to ELSE record.status
      /\ ActorsTyped' /\ OthersStay(a) /\ actor'[a].child \in {0, actor[a].child}
      /\ actor'[a].pc \in {"idle", "fail", "clean"}
      /\ actor'[a].pc = "clean" => A!CanMove(to) /\ out \in {"unchanged", "unverified", "merged"}
  <2>1. CASE A!CanMove(to) /\ record' = [record EXCEPT !.status = to]
    <3>1. record' \in A!Record /\ SameRecord /\ record'.status = to
      BY <2>1, StatusFacts DEF A!Statuses, SameRecord
    <3> PICK new \in A!Record : new = record'
      BY <3>1
    <3>2. (A!Go(a, "clean", new) /\ out \in {"unchanged", "unverified", "merged"}) \/ A!Leave(a)
      BY <2>1 DEF A!Settle
    <3>3. CASE A!Go(a, "clean", new) /\ out \in {"unchanged", "unverified", "merged"}
      BY <2>1, <3>1, <3>3, ActorGoes DEF ActorSteps, IntegratingSteps
    <3>4. CASE A!Leave(a)
      BY <2>1, <3>1, <3>4, ActorThrows, ActorLeaves, AsleepTyped
    <3> QED BY <3>2, <3>3, <3>4
  <2>2. CASE ~A!CanMove(to) /\ A!Throw(a) /\ UNCHANGED record
    BY <2>2, ActorThrows DEF SameRecord
  <2> QED BY <2>1, <2>2 DEF A!Settle
<1>5. AssignmentTyped'
  <2>1. \A b \in Calls : actor'[b].pc \in {"save", "settle"} => actor'[b].out \in DOMAIN A!Outcome
    BY <1>4 DEF OthersStay, AssignmentTyped
  <2> QED BY <1>1, <1>4, <2>1, TypedSoFar
<1>6. AtWork(a)
  BY <1>1, <1>4 DEF AtWork, IntegratingSteps, SameRecord
<1>7. out = "merged" => UnderReview'
  BY <1>1, <1>4 DEF Reviews, UnderReview, SameRecord
<1>8. StatusFits(a)
  BY <1>2, <1>4, <1>7 DEF StatusFits, IntegratingSteps
<1>9. ReviewFits(a)
  <2>1. record'.asg.review = record.asg.review
    BY <1>4 DEF SameRecord
  <2>2. record'.status \notin {"queued", "running"}
    BY <1>2, <1>3, <1>4
  <2> QED BY <1>4, <2>1, <2>2 DEF ReviewFits, Reviews, IntegratingSteps
<1>10. OwedFits(a)
  <2> SUFFICES ASSUME unreviewed PROVE OwedFits(a)
    BY <1>1 DEF OwedFits
  <2>1. out = "merged"
    BY <1>1 DEF ReviewOwed
  <2>2. record'.status \in {"blocked", "cancelled", "failed"}
    BY <1>2, <1>3, <1>4, <2>1
  <2> QED BY <1>4, <1>7, <2>1, <2>2 DEF OwedFits
<1> QED BY <1>5, <1>6, <1>8, <1>9, <1>10, TurnKeeps

(* The worktree goes; what was merged stays.                               *)
LEMMA CleanKeeps ==
  ASSUME AssignmentInvariant, gate = {}, NEW a \in Calls, A!Clean(a)
  PROVE  AssignmentTyped' /\ InOrder'
<1> USE TypedFacts
<1> AssignmentTyped
  BY DEF AssignmentInvariant
<1> OneTurn /\ Reviews /\ ReviewOwed
  BY DEF AssignmentInvariant, InOrder
<1>1. /\ actor[a].pc = "clean" /\ Integrates(a) /\ A!Leave(a)
      /\ UNCHANGED <<rootDirty, events, ended, continuations, unreviewed, gate>>
      /\ worktree' \in BOOLEAN /\ branch' \in {"none", "even", "ahead", "clashing"}
  BY DEF A!Clean, A!At, A!ghosts, Integrates, IntegratingSteps
<1>2. /\ record' \in A!Record /\ record'.status = record.status /\ record'.asg = record.asg
      /\ record'.child = record.child
  <2> PICK mode \in {"direct", "worktree"} : mode = actor[a].task.mode
    OBVIOUS
  <2>1. record' = [record EXCEPT !.mode = mode]
    BY DEF A!Clean
  <2> QED BY <2>1 DEF A!Record
<1>3. ActorsTyped' /\ OthersStay(a) /\ actor'[a].pc = "idle" /\ actor'[a].child = 0
  BY <1>1, ActorLeaves, AsleepTyped
<1>4. AssignmentTyped'
  <2>1. \A b \in Calls : actor'[b].pc \in {"save", "settle"} => actor'[b].out \in DOMAIN A!Outcome
    BY <1>3 DEF OthersStay, AssignmentTyped
  <2> QED BY <1>1, <1>2, <1>3, <2>1, TypedSoFar
<1>5. AtWork(a)
  BY <1>1, <1>2, <1>3 DEF AtWork
<1>6. record.status \in {"succeeded", "failed", "cancelled", "blocked"}
  BY <1>1 DEF OneTurn
<1>7. \A b \in Calls : actor[b].pc # "save"
  BY <1>1 DEF OneTurn, Integrates, IntegratingSteps
<1>8. StatusFits(a) /\ ReviewFits(a)
  BY <1>2, <1>3, <1>6 DEF StatusFits, ReviewFits, Reviews, IntegratingSteps
<1>9. OwedFits(a)
  BY <1>1, <1>2, <1>3, <1>6, <1>7 DEF OwedFits, ReviewOwed, UnderReview
<1> QED BY <1>4, <1>5, <1>8, <1>9, TurnKeeps

LEMMA AssignmentBegins == A!Init => AssignmentInvariant
<1> SUFFICES ASSUME A!Init PROVE InOrder
  BY AssignmentInit DEF AssignmentInvariant
<1>1. record \in A!Record /\ record.child = 0 /\ record.asg.review = "none"
  BY AsleepTyped DEF A!Init, A!Created, A!Unassigned
<1>2. PICK x \in ActorStates : x = A!Started(Own, 0, record) /\ x.pc = "prompt" /\ x.child = 0
  BY <1>1, AgentsAreNamed, StartedTyped, DiskAssumption
<1>3. PICK c \in Calls : actor = [a \in Calls |-> IF a = c /\ ~record.bg THEN x ELSE A!Asleep]
  BY <1>2 DEF A!Init
<1>4. \A a \in Calls : /\ actor[a].pc \in {"idle", "prompt"} /\ actor[a].child = 0
                       /\ actor[a].pc = "prompt" => a = c /\ ~record.bg
  BY <1>2, <1>3, AsleepTyped
<1>5. continuations = 0 /\ ended = FALSE /\ unreviewed = FALSE
  BY DEF A!Init
<1>6. ~record.bg => record.status = "running"
  BY DEF A!Init, A!Created
<1>7. OneTurn
  BY <1>4, <1>5, <1>6 DEF OneTurn, Integrates, IntegratingSteps, Prompting
<1>8. OwnChildren
  BY <1>1, <1>4, <1>5 DEF OwnChildren, Turning, BeforeStart
<1>9. Reviews
  BY <1>1, <1>4 DEF Reviews, Reviewing, BeforeStart
<1> QED BY <1>5, <1>7, <1>8, <1>9 DEF InOrder, ReviewOwed

LEMMA AssignmentStep == AssignmentInvariant /\ [A!Next]_assignment => AssignmentInvariant'
<1> SUFFICES ASSUME AssignmentInvariant, [A!Next]_assignment PROVE AssignmentInvariant'
  OBVIOUS
<1> USE DEF AssignmentInvariant
<1>1. CASE UNCHANGED assignment
  <2>1. AssignmentTyped'
    BY <1>1 DEF assignment, AssignmentTyped, A!TypeOK, A!My
  <2>2. InOrder => InOrder'
    <3> UNCHANGED <<record, actor, ended, continuations, unreviewed>>
      BY <1>1 DEF assignment
    <3>1. OneTurn => OneTurn'
      BY DEF OneTurn, Integrates, Prompting, UnderReview
    <3>5. OwnChildren => OwnChildren'
      BY DEF OwnChildren, Turning
    <3>2. Quiet => Quiet'
      BY DEF Quiet, Integrates, Prompting
    <3>3. Reviews => Reviews'
      BY <3>2 DEF Reviews, Reviewing, UnderReview
    <3>4. ReviewOwed => ReviewOwed'
      BY DEF ReviewOwed, Integrates, Prompting, UnderReview
    <3> QED BY <3>1, <3>3, <3>4, <3>5 DEF InOrder
  <2> QED BY <1>1, <2>1, <2>2 DEF assignment
<1>2. CASE A!Next
  <2>1. gate = {}
    BY <1>2 DEF A!Next
  <2>2. ASSUME NEW a \in Calls, A!Step(a) PROVE AssignmentInvariant'
    <3>1. CASE A!BeginReview(a) \/ A!Resync(a) \/ A!Replay(a) \/ A!CheckRoot(a) \/ A!Prepare(a)
      <4>1. GateStep(a)
        BY <2>1, <3>1, BeginReviewIsGate, ResyncIsGate, ReplayIsGate, PrepareIsGate
      <4>2. AssignmentTyped'
        BY <4>1 DEF GateStep
      <4> QED BY <2>1, <4>1, <4>2, GateKeeps
    <3>2. CASE A!Restart(a)
      BY <2>1, <3>2, RestartKeeps
    <3>3. CASE A!PromptReturns(a) \/ A!Idle(a)
      BY <2>1, <3>3, PromptReturnsKeeps, IdleKeeps
    <3>4. CASE A!Integrate(a) \/ A!IntegrateReview(a) \/ A!Merge(a) \/ A!Save(a)
      BY <2>1, <3>4, IntegrateKeeps, IntegrateReviewKeeps, MergeKeeps, SaveKeeps
    <3>5. CASE A!Settle(a) \/ A!Clean(a) \/ A!Fail(a)
      BY <2>1, <3>5, SettleKeeps, CleanKeeps, FailingKeeps
    <3> QED BY <2>2, <3>1, <3>2, <3>3, <3>4, <3>5 DEF A!Step
  <2>3. ASSUME NEW a \in Calls, NEW agent \in Agents, NEW bg \in BOOLEAN, A!Continue(a, agent, bg)
        PROVE  AssignmentInvariant'
    BY <2>1, <2>3, ContinueKeeps
  <2>4. CASE A!promoteRunnableTasks \/ A!TurnEnds \/ A!Cancel \/ A!RootChanges
    BY <2>1, <2>4, PromotionKeeps, FailingKeeps
  <2> QED BY <1>2, <2>2, <2>3, <2>4 DEF A!Next
<1> QED BY <1>1, <1>2

LEMMA AssignmentInvariantHolds == DiskSpec => [](part = "assignment" => AssignmentInvariant)
<1>1. DiskInit => (part = "assignment" => AssignmentInvariant)
  BY AssignmentBegins DEF DiskInit
<1>2. (part = "assignment" => AssignmentInvariant) /\ [DiskNext]_allVars => (part = "assignment" => AssignmentInvariant)'
  BY AssignmentStep, PartSteps
<1> QED BY <1>1, <1>2, PTL DEF DiskSpec, allVars

(* What was merged for a manager's task is looked at by a reviewer before  *)
(* the task succeeds, however many continuations, event handlers and       *)
(* promotion passes are under way (delegation/src/index.ts), unless one of *)
(* the three things happened that gate names.                              *)
THEOREM MergesAreReviewed == DiskSpec => []MergedIsReviewed
<1>1. AssignmentInvariant => A!MergedIsReviewed
  BY DEF AssignmentInvariant, InOrder, ReviewOwed, A!MergedIsReviewed
<1> QED BY <1>1, AssignmentInvariantHolds, PTL DEF MergedIsReviewed

-----------------------------------------------------------------------------
(* The installer                                                           *)

Asking == {"opened", "decide", "workspace", "answers"}
AtRest == {"idle", "finished"}
RunFields == {"step", "read", "existing", "ans", "new", "previous"}
Pointers == [index : 0..runs, sum : 0..runs]
Saved == backups \cup exposed

InstallerTyped ==
  /\ I!TypeOK /\ DOMAIN run = RunFields /\ DOMAIN run.new = I!ConfigFiles
  /\ pointer \in Pointers /\ run.previous \in Pointers
  /\ run.ans.mcps \subseteq I!Catalog
  /\ \A m \in mine \cup backups \cup exposed : m = <<m[1], m[2]>>

(* What was read at the start is still there, or what replaced it counts   *)
(* as exposed; by and by what the user wrote is in a copy.                 *)
ReadHolds ==
  run.step \in Asking =>
    \A f \in I!ConfigFiles : file[f] = run.read[f] \/ \A m \in mine : m[1] = f => m \in exposed
ConfigSaved ==
  run.step \notin AtRest \cup {"opened"} => \A m \in mine : m[1] = "config" => m \in Saved
WorkspaceSaved ==
  run.step \notin AtRest \cup {"opened", "decide", "workspace"} =>
    \A m \in mine : m[1] = "workspace" /\ m[2] = Mangled => m \in Saved
TuiSaved ==
  run.step \notin AtRest \cup Asking /\ I!shouldConfigureTui(run.ans) =>
    \A m \in mine : m[1] = "tui" /\ m[2] = Mangled => m \in Saved
TuiWanted ==
  /\ run.step \notin AtRest \cup Asking \cup {"merge"} /\ run.new["tui"] # NoFile => I!shouldConfigureTui(run.ans)
  /\ run.step = "tui" => run.new["tui"] # NoFile

InstallerInvariant ==
  /\ InstallerTyped /\ I!UserFilesKept /\ \A m \in mine : m[2] # NoFile
  /\ ReadHolds /\ ConfigSaved /\ WorkspaceSaved /\ TuiSaved /\ TuiWanted

LEMMA RestShape ==
  /\ DOMAIN I!Rest = RunFields /\ I!Rest.step = "idle" /\ DOMAIN I!Rest.new = I!ConfigFiles
  /\ DOMAIN I!Rest.read = I!ConfigFiles /\ I!Rest.ans.mcps = {}
  /\ I!Rest.previous = [index |-> 0, sum |-> 0]
BY DEF I!Rest, I!Nothing, I!NoAnswers, RunFields

LEMMA InstallerBegins == I!Init => InstallerInvariant
<1> SUFFICES ASSUME I!Init PROVE InstallerInvariant
  OBVIOUS
<1>1. run.step = "idle" /\ runs = 0 /\ edits = 0 /\ pointer = [index |-> 0, sum |-> 0] /\ backups = {} /\ exposed = {}
  BY RestShape DEF I!Init
<1>2. \A m \in mine : m = <<m[1], m[2]>> /\ m[1] \in I!ConfigFiles /\ m[2] = file[m[1]] /\ m[2] # NoFile
  BY DEF I!Init
<1>3. DOMAIN file = I!ConfigFiles
  BY DiskAssumption DEF I!Init
<1>4. pointer \in Pointers /\ run.previous \in Pointers
  BY <1>1, RestShape DEF I!Init, Pointers
<1>5. I!TypeOK
  BY <1>1, <1>2, <1>3, <1>4, RestShape, DiskAssumption DEF I!Init, I!TypeOK, I!Steps, I!Catalog, Pointers
<1>6. InstallerTyped
  BY <1>1, <1>2, <1>4, <1>5, RestShape DEF I!Init, InstallerTyped
<1> QED BY <1>1, <1>2, <1>6 DEF InstallerInvariant, I!UserFilesKept, ReadHolds, ConfigSaved, WorkspaceSaved,
           TuiSaved, TuiWanted, Asking, AtRest

(* The files of the user stay where they are while the run goes on.        *)
Onward ==
  /\ UNCHANGED <<file, backups, mine, exposed>>
  /\ InstallerTyped'
  /\ \/ run'.step \in AtRest
     \/ /\ run.step \notin AtRest \cup {"opened"} /\ run'.step \notin {"opened"}
        /\ run'.step \notin AtRest \cup Asking => run.step \notin AtRest \cup Asking
        /\ run'.step = "answers" => run.step = "answers"
        /\ run'.step \in Asking => run.step \in Asking /\ run'.read = run.read
        /\ run'.ans = run.ans
        /\ run'.step \notin AtRest \cup Asking \cup {"merge"} /\ run'.new["tui"] # NoFile => I!shouldConfigureTui(run.ans)
        /\ run'.step = "tui" => run'.new["tui"] # NoFile

LEMMA OnwardKeeps == InstallerInvariant /\ Onward => InstallerInvariant'
<1> SUFFICES ASSUME InstallerInvariant, Onward PROVE InstallerInvariant'
  OBVIOUS
<1> USE DEF InstallerInvariant, Onward, AtRest, Asking
<1>1. I!UserFilesKept' /\ \A m \in mine' : m[2] # NoFile
  BY DEF I!UserFilesKept
<1>2. ReadHolds' /\ ConfigSaved' /\ WorkspaceSaved' /\ TuiSaved' /\ TuiWanted'
  BY DEF ReadHolds, ConfigSaved, WorkspaceSaved, TuiSaved, TuiWanted, Saved
<1> QED BY <1>1, <1>2
(* A run that goes on, or ends.                                            *)
RunTyped ==
  /\ DOMAIN run = RunFields /\ DOMAIN run.new = I!ConfigFiles /\ DOMAIN run.read = I!ConfigFiles
  /\ run.step \in I!Steps /\ run.previous \in Pointers /\ run.ans.mcps \subseteq I!Catalog

LEMMA TypedRun == InstallerTyped => RunTyped
BY DEF InstallerTyped, RunTyped, I!TypeOK

LEMMA RunGoes ==
  ASSUME RunTyped, UNCHANGED runs, NEW step \in I!Steps, I!Go(step)
  PROVE  /\ RunTyped' /\ run'.step = step /\ run'.read = run.read /\ run'.existing = run.existing
         /\ run'.ans = run.ans /\ run'.new = run.new /\ run'.previous = run.previous
BY DEF RunTyped, I!Go, RunFields, Pointers

LEMMA RunEnds ==
  ASSUME InstallerTyped, UNCHANGED runs, run' = I!Rest
  PROVE  RunTyped' /\ run'.step = "idle"
BY RestShape DEF RunTyped, I!Steps, Pointers, InstallerTyped, I!TypeOK, I!Catalog

LEMMA TypedOnward ==
  ASSUME InstallerTyped, RunTyped', DOMAIN file' = I!ConfigFiles, pointer' \in Pointers', downstream' \subseteq I!Catalog,
         runs' \in 0..MaxRuns, edits' \in 0..MaxEdits,
         \A m \in mine' \cup backups' \cup exposed' : m[1] \in I!ConfigFiles /\ m = <<m[1], m[2]>>
  PROVE  InstallerTyped'
BY DEF InstallerTyped, RunTyped, I!TypeOK, Pointers

LEMMA TypedStays ==
  ASSUME InstallerTyped
  PROVE  /\ DOMAIN file = I!ConfigFiles /\ pointer \in Pointers /\ downstream \subseteq I!Catalog
         /\ runs \in 0..MaxRuns /\ edits \in 0..MaxEdits /\ run.previous \in Pointers
         /\ \A m \in mine \cup backups \cup exposed : m[1] \in I!ConfigFiles /\ m = <<m[1], m[2]>>
BY DEF InstallerTyped, I!TypeOK

(* Steps that ask, compute and write what is not the user's.               *)
LEMMA AskingGoesOn ==
  ASSUME InstallerInvariant, I!Cancel \/ I!Decide \/ I!Merge \/ I!CopyTemplates \/ I!Killed
  PROVE  Onward
<1> InstallerTyped /\ RunTyped
  BY TypedRun DEF InstallerInvariant
<1>1. UNCHANGED <<file, backups, pointer, downstream, mine, exposed, runs, edits>>
  BY DEF I!Cancel, I!Decide, I!Merge, I!CopyTemplates, I!Killed, I!artifacts, I!tally
<1>2. pointer' \in Pointers'
  BY <1>1, TypedStays DEF Pointers
<1>3. RunTyped' => InstallerTyped'
  BY <1>1, <1>2, TypedStays, TypedOnward
<1>4. CASE run' = I!Rest
  BY <1>1, <1>3, <1>4, RunEnds DEF Onward, AtRest
<1>5. CASE I!Decide
  <2>1. PICK existing : run' = [run EXCEPT !.step = "workspace", !.existing = existing]
    BY <1>5 DEF I!Decide
  <2>2. /\ RunTyped' /\ run'.step = "workspace" /\ run'.read = run.read /\ run'.ans = run.ans /\ run'.new = run.new
        /\ run.step = "decide"
    BY <1>1, <1>5, <2>1 DEF RunTyped, RunFields, Pointers, I!Steps, I!Decide, I!At
  <2> QED BY <1>1, <1>3, <2>2 DEF Onward, AtRest, Asking
<1>6. CASE I!Merge /\ run' # I!Rest
  <2>1. \E config, workspace, tui :
          /\ run' = [run EXCEPT !.step = "templates", !.read = I!Nothing, !.existing = NoFile,
                                !.new = [config |-> config, workspace |-> workspace, tui |-> tui]]
          /\ ~I!shouldConfigureTui(run.ans) => tui = NoFile
    BY <1>6, Zenon DEF I!Merge
  <2> PICK new : /\ run' = [run EXCEPT !.step = "templates", !.read = I!Nothing, !.existing = NoFile, !.new = new]
                 /\ DOMAIN new = I!ConfigFiles
                 /\ ~I!shouldConfigureTui(run.ans) => new["tui"] = NoFile
    <3> PICK config, workspace, tui :
          /\ run' = [run EXCEPT !.step = "templates", !.read = I!Nothing, !.existing = NoFile,
                                !.new = [config |-> config, workspace |-> workspace, tui |-> tui]]
          /\ ~I!shouldConfigureTui(run.ans) => tui = NoFile
      BY <2>1
    <3> PICK new : new = [config |-> config, workspace |-> workspace, tui |-> tui]
      OBVIOUS
    <3>1. DOMAIN new = I!ConfigFiles /\ new["tui"] = tui
      BY DEF I!ConfigFiles
    <3> QED BY <3>1
  <2>2. /\ RunTyped' /\ run'.step = "templates" /\ run'.ans = run.ans /\ run'.new = new
        /\ run.step = "merge"
    BY <1>1, <1>6, <2>1 DEF RunTyped, RunFields, Pointers, I!Steps, I!Nothing, I!Merge, I!At
  <2> QED BY <1>1, <1>3, <2>1, <2>2 DEF Onward, AtRest, Asking
<1>7. CASE I!CopyTemplates /\ run' # I!Rest
  <2>1. PICK step \in {"index", "downstream"} : I!Go(step) /\ run.step = "templates"
    BY <1>7 DEF I!CopyTemplates, I!At
  <2>2. RunTyped' /\ run'.step = step /\ run'.ans = run.ans /\ run'.new = run.new
    BY <1>1, <2>1, RunGoes DEF I!Steps
  <2> QED BY <1>1, <1>3, <2>1, <2>2 DEF Onward, AtRest, Asking, InstallerInvariant, TuiWanted
<1> QED BY <1>4, <1>5, <1>6, <1>7 DEF I!Cancel, I!Killed

LEMMA PointerGoesOn ==
  ASSUME InstallerInvariant, I!WriteIndex \/ I!WriteSum \/ I!Validate \/ I!Restore \/ I!WriteDownstream
  PROVE  Onward
<1> InstallerTyped /\ RunTyped
  BY TypedRun DEF InstallerInvariant
<1>1. UNCHANGED <<file, backups, mine, exposed, runs, edits>> /\ run.step \in {"index", "sum", "validate", "restore", "restoreSum", "downstream"}
  BY DEF I!WriteIndex, I!WriteSum, I!Validate, I!Restore, I!WriteDownstream, I!artifacts, I!tally, I!At
<1>2. pointer' \in Pointers' /\ downstream' \subseteq I!Catalog
  <2>1. pointer \in Pointers /\ run.previous \in Pointers /\ runs \in 0..runs /\ 0 \in 0..runs
    BY TypedStays
  <2>2. CASE I!WriteIndex \/ I!WriteSum \/ I!Validate
    BY <1>1, <2>1, <2>2, TypedStays DEF I!WriteIndex, I!WriteSum, I!Validate, I!artifacts, Pointers
  <2>3. CASE I!Restore
    BY <1>1, <2>1, <2>3, TypedStays DEF I!Restore, I!Former, Pointers
  <2>4. CASE I!WriteDownstream
    BY <1>1, <2>1, <2>4, TypedStays DEF I!WriteDownstream, Pointers, RunTyped
  <2> QED BY <2>2, <2>3, <2>4
<1>3. RunTyped' => InstallerTyped'
  BY <1>1, <1>2, TypedStays, TypedOnward
<1>4. CASE run' = I!Rest
  BY <1>1, <1>3, <1>4, RunEnds DEF Onward, AtRest
<1>5. ASSUME NEW step \in {"sum", "validate", "restore", "restoreSum", "downstream", "config"},
             RunTyped', run'.step = step, run'.ans = run.ans, run'.new["tui"] = run.new["tui"]
      PROVE  Onward
  BY <1>1, <1>3, <1>5 DEF Onward, AtRest, Asking, InstallerInvariant, TuiWanted
<1>6. CASE I!Fallback
  <2> PICK new : new = [run.new EXCEPT !["workspace"].mcpPointer = "off"]
    OBVIOUS
  <2>1. run' = [run EXCEPT !.step = "downstream", !.new = new]
    BY <1>6 DEF I!Fallback, I!Disabled
  <2>2. DOMAIN new = I!ConfigFiles /\ new["tui"] = run.new["tui"]
    BY DEF RunTyped, I!ConfigFiles
  <2>3. RunTyped' /\ run'.step = "downstream" /\ run'.ans = run.ans /\ run'.new = new
    BY <1>1, <2>1, <2>2 DEF RunTyped, RunFields, Pointers, I!Steps
  <2> QED BY <1>5, <2>2, <2>3
<1>7. ASSUME NEW step \in {"sum", "validate", "restore", "restoreSum", "downstream", "config"}, I!Go(step)
      PROVE  Onward
  <2>1. RunTyped' /\ run'.step = step /\ run'.ans = run.ans /\ run'.new = run.new
    BY <1>1, <1>7, RunGoes DEF I!Steps
  <2> QED BY <1>5, <2>1
<1>8. ASSUME NEW step \in {"sum", "restore"}, run' = [run EXCEPT !.step = step, !.previous = pointer]
      PROVE  Onward
  <2> PICK previous \in Pointers : previous = pointer
    BY TypedStays
  <2>1. RunTyped' /\ run'.step = step /\ run'.ans = run.ans /\ run'.new = run.new
    BY <1>1, <1>8 DEF RunTyped, RunFields, Pointers, I!Steps
  <2> QED BY <1>5, <2>1
<1>9. CASE I!WriteIndex
  BY <1>6, <1>8, <1>9 DEF I!WriteIndex
<1>10. CASE I!WriteSum \/ I!Validate
  BY <1>6, <1>7, <1>10 DEF I!WriteSum, I!Validate
<1>11. CASE I!Restore
  BY <1>6, <1>7, <1>11 DEF I!Restore
<1>12. CASE I!WriteDownstream
  BY <1>4, <1>7, <1>12 DEF I!WriteDownstream
<1> QED BY <1>9, <1>10, <1>11, <1>12

(* A file is copied, or the copy fails.                                    *)
LEMMA CopyIsKept ==
  ASSUME InstallerTyped, NEW f \in I!ConfigFiles, I!KeepCopy(f), UNCHANGED mine
  PROVE  /\ backups \subseteq backups' /\ exposed \subseteq exposed'
         /\ backups' \subseteq backups \cup mine /\ exposed' \subseteq exposed \cup mine
         /\ \A m \in mine : m[1] = f /\ m[2] = file[f] => m \in Saved'
BY TypedStays DEF I!KeepCopy, I!BackUp, Saved

(* The steps before the answers are known.                                 *)
LEMMA CopyingKeeps ==
  ASSUME InstallerInvariant,
         I!ReplaceMalformed \/ I!CopyConfig \/ I!NoConfig \/ I!CheckWorkspace \/ \E ans \in Answers : I!Answer(ans)
  PROVE  InstallerInvariant'
<1> InstallerTyped /\ RunTyped /\ I!UserFilesKept
  BY TypedRun DEF InstallerInvariant
<1> USE TypedStays
<1>1. UNCHANGED <<file, pointer, downstream, mine, runs, edits>> /\ run.step \in {"opened", "workspace", "answers"}
  BY DEF I!ReplaceMalformed, I!CopyConfig, I!NoConfig, I!CheckWorkspace, I!Answer, I!artifacts, I!tally, I!At
<1>2. \/ UNCHANGED <<backups, exposed>>
      \/ \E f \in I!ConfigFiles : I!KeepCopy(f)
  BY DEF I!ReplaceMalformed, I!CopyConfig, I!NoConfig, I!CheckWorkspace, I!Answer, I!ConfigFiles
<1>3. /\ backups \subseteq backups' /\ exposed \subseteq exposed' /\ Saved \subseteq Saved'
      /\ \A m \in mine' \cup backups' \cup exposed' : m[1] \in I!ConfigFiles /\ m = <<m[1], m[2]>>
  BY <1>1, <1>2, CopyIsKept DEF Saved
<1>4. RunTyped' => InstallerTyped'
  BY <1>1, <1>3, TypedOnward DEF Pointers
<1>5. I!UserFilesKept' /\ \A m \in mine' : m[2] # NoFile
  BY <1>1, <1>3 DEF I!UserFilesKept, Saved, InstallerInvariant
<1>6. /\ run.step = "opened" => I!ReplaceMalformed \/ I!CopyConfig \/ I!NoConfig
      /\ run.step = "workspace" => I!CheckWorkspace
      /\ run.step = "answers" => \E ans \in Answers : I!Answer(ans)
  BY DEF I!ReplaceMalformed, I!CopyConfig, I!NoConfig, I!CheckWorkspace, I!Answer, I!At
<1>7. \A f \in I!ConfigFiles : file[f] = run.read[f] \/ \A m \in mine : m[1] = f => m \in exposed
  BY <1>1 DEF InstallerInvariant, ReadHolds, Asking
<1>8. CASE run.step = "opened"
  <2>1. PICK step \in {"decide", "workspace"} : I!Go(step)
    BY <1>6, <1>8 DEF I!ReplaceMalformed, I!CopyConfig, I!NoConfig
  <2>2. RunTyped' /\ run'.step = step /\ run'.read = run.read
    BY <1>1, <2>1, RunGoes DEF I!Steps
  <2>3. \A m \in mine : m[1] = "config" => m \in Saved'
    <3>1. CASE I!KeepCopy("config")
      BY <1>1, <1>3, <3>1, CopyIsKept DEF I!UserFilesKept, Saved, I!ConfigFiles
    <3>2. CASE I!NoConfig
      <4>1. run.read["config"] = NoFile
        BY <3>2 DEF I!NoConfig
      <4>2. file["config"] = NoFile \/ \A m \in mine : m[1] = "config" => m \in exposed
        BY <1>7, <4>1 DEF I!ConfigFiles
      <4> QED BY <1>3, <4>2 DEF I!UserFilesKept, Saved, InstallerInvariant
    <3> QED BY <1>6, <1>8, <3>1, <3>2 DEF I!ReplaceMalformed, I!CopyConfig
  <2> QED BY <1>1, <1>3, <1>4, <1>5, <1>7, <2>2, <2>3 DEF InstallerInvariant, ReadHolds, ConfigSaved, WorkspaceSaved, TuiSaved,
             TuiWanted, Asking, AtRest
<1>9. CASE run.step = "workspace"
  <2>1. I!Go("answers")
    BY <1>6, <1>9 DEF I!CheckWorkspace
  <2>2. RunTyped' /\ run'.step = "answers" /\ run'.read = run.read
    BY <1>1, <2>1, RunGoes DEF I!Steps
  <2>3. \A m \in mine : m[1] = "config" => m \in Saved'
    BY <1>3, <1>9 DEF InstallerInvariant, ConfigSaved, AtRest
  <2>4. \A m \in mine : m[1] = "workspace" /\ m[2] = Mangled => m \in Saved'
    <3>1. CASE I!KeepCopy("workspace")
      BY <1>1, <1>3, <3>1, CopyIsKept DEF I!UserFilesKept, Saved, I!ConfigFiles
    <3>2. CASE ~I!ParseError(run.read["workspace"])
      <4>1. file["workspace"] # Mangled \/ \A m \in mine : m[1] = "workspace" => m \in exposed
        BY <1>7, <3>2 DEF I!ConfigFiles, I!ParseError
      <4> QED BY <1>3, <4>1 DEF I!UserFilesKept, Saved
    <3> QED BY <1>6, <1>9, <3>1, <3>2 DEF I!CheckWorkspace
  <2> QED BY <1>1, <1>3, <1>4, <1>5, <1>7, <2>2, <2>3, <2>4 DEF InstallerInvariant, ReadHolds, ConfigSaved, WorkspaceSaved, TuiSaved,
             TuiWanted, Asking, AtRest
<1>10. CASE run.step = "answers"
  <2>1. PICK ans \in Answers : I!Answer(ans)
    BY <1>6, <1>10
  <2>2. RunTyped' /\ run'.step = "merge" /\ run'.ans = ans
    BY <1>1, <2>1, DiskAssumption DEF I!Answer, RunTyped, RunFields, I!Steps, Pointers
  <2>3. \A m \in mine : (m[1] = "config" => m \in Saved') /\ (m[1] = "workspace" /\ m[2] = Mangled => m \in Saved')
    BY <1>3, <1>10 DEF InstallerInvariant, ConfigSaved, WorkspaceSaved, AtRest
  <2>4. I!shouldConfigureTui(ans) => \A m \in mine : m[1] = "tui" /\ m[2] = Mangled => m \in Saved'
    <3> SUFFICES ASSUME I!shouldConfigureTui(ans) PROVE \A m \in mine : m[1] = "tui" /\ m[2] = Mangled => m \in Saved'
      OBVIOUS
    <3>1. CASE I!KeepCopy("tui")
      BY <1>1, <1>3, <3>1, CopyIsKept DEF I!UserFilesKept, Saved, I!ConfigFiles
    <3>2. CASE ~I!ParseError(run.read["tui"])
      <4>1. file["tui"] # Mangled \/ \A m \in mine : m[1] = "tui" => m \in exposed
        BY <1>7, <3>2 DEF I!ConfigFiles, I!ParseError
      <4> QED BY <1>3, <4>1 DEF I!UserFilesKept, Saved
    <3> QED BY <2>1, <3>1, <3>2 DEF I!Answer
  <2> QED BY <1>1, <1>3, <1>4, <1>5, <2>2, <2>3, <2>4 DEF InstallerInvariant, ReadHolds, ConfigSaved, WorkspaceSaved, TuiSaved,
             TuiWanted, Asking, AtRest
<1> QED BY <1>1, <1>8, <1>9, <1>10

LEMMA BeginKeeps ==
  ASSUME InstallerInvariant, I!Begin
  PROVE  InstallerInvariant'
<1> InstallerTyped /\ RunTyped
  BY TypedRun DEF InstallerInvariant
<1> USE TypedStays
<1>1. /\ UNCHANGED <<file, backups, pointer, downstream, edits, mine, exposed>>
      /\ runs' = runs + 1 /\ runs' \in 0..MaxRuns /\ pointer \in Pointers'
      /\ run' = [I!Rest EXCEPT !.step = "opened", !.read = file]
  BY DiskAssumption DEF I!Begin, I!artifacts, Pointers
<1>2. RunTyped' /\ run'.step = "opened" /\ run'.read = file
  BY <1>1, RestShape DEF RunTyped, RunFields, I!Steps, Pointers
<1>3. InstallerTyped'
  BY <1>1, <1>2, TypedOnward
<1> QED BY <1>1, <1>2, <1>3 DEF InstallerInvariant, I!UserFilesKept, ReadHolds, ConfigSaved, WorkspaceSaved, TuiSaved,
           TuiWanted, Asking, AtRest, Saved

(* A file is replaced when what the user wrote into it is in a copy.       *)
LEMMA WriteFileKeeps ==
  ASSUME InstallerInvariant, NEW f \in I!ConfigFiles, I!WriteFile(f)
  PROVE  InstallerInvariant'
<1> InstallerTyped /\ RunTyped /\ I!UserFilesKept
  BY TypedRun DEF InstallerInvariant
<1> USE TypedStays
<1>1. /\ UNCHANGED <<backups, pointer, downstream, runs, edits, mine, exposed>>
      /\ run.step = I!StepOf(f)
  BY DEF I!WriteFile, I!artifacts, I!tally, I!At
<1>2. DOMAIN file' = I!ConfigFiles /\ \A g \in I!ConfigFiles \ {f} : file'[g] = file[g]
  BY DEF I!WriteFile
<1>3. \A m \in mine : m[1] = f /\ (f = "config" \/ m[2] = Mangled) => m \in Saved
  <2>1. run.step = "tui" => I!shouldConfigureTui(run.ans)
    BY DEF InstallerInvariant, TuiWanted, Asking, AtRest
  <2> QED BY <1>1, <2>1 DEF InstallerInvariant, ConfigSaved, WorkspaceSaved, TuiSaved, I!StepOf, Asking, AtRest, I!ConfigFiles
<1>4. I!UserFilesKept'
  BY <1>1, <1>2, <1>3 DEF I!UserFilesKept, Saved
<1>5. RunTyped' => InstallerTyped'
  BY <1>1, <1>2, TypedOnward DEF Pointers
<1>6. CASE run' = I!Rest
  <2>1. RunTyped' /\ run'.step = "idle"
    BY <1>1, <1>6, RunEnds
  <2> QED BY <1>1, <1>4, <1>5, <2>1 DEF InstallerInvariant, ReadHolds, ConfigSaved, WorkspaceSaved, TuiSaved, TuiWanted,
             Asking, AtRest
<1>7. CASE I!Go(I!After(f))
  <2> PICK step \in {"workspace.json", "tui", "finished"} :
        /\ step = I!After(f) /\ (step = "tui" => run.new["tui"] # NoFile)
    BY DEF I!After, I!ConfigFiles
  <2>1. RunTyped' /\ run'.step = step /\ run'.ans = run.ans /\ run'.new = run.new
    BY <1>1, <1>7, RunGoes DEF I!Steps
  <2>2. run.step \in {"config", "workspace.json", "tui"}
    BY <1>1 DEF I!StepOf, I!ConfigFiles
  <2>3. /\ \A m \in mine : (m[1] = "config" => m \in Saved) /\ (m[1] = "workspace" /\ m[2] = Mangled => m \in Saved)
        /\ I!shouldConfigureTui(run.ans) => \A m \in mine : m[1] = "tui" /\ m[2] = Mangled => m \in Saved
        /\ run.new["tui"] # NoFile => I!shouldConfigureTui(run.ans)
    BY <2>2 DEF InstallerInvariant, ConfigSaved, WorkspaceSaved, TuiSaved, TuiWanted, Asking, AtRest
  <2> QED BY <1>1, <1>4, <1>5, <2>1, <2>3 DEF InstallerInvariant, ReadHolds, ConfigSaved, WorkspaceSaved, TuiSaved, TuiWanted,
             Asking, AtRest, Saved
<1> QED BY <1>6, <1>7 DEF I!WriteFile

(* The user writes a file.                                                 *)
LEMMA EditKeeps ==
  ASSUME InstallerInvariant, NEW e \in Edits, I!Edit(e[1], e[2])
  PROVE  InstallerInvariant'
<1> InstallerTyped /\ RunTyped /\ I!UserFilesKept
  BY TypedRun DEF InstallerInvariant
<1> USE TypedStays
<1> PICK f \in I!ConfigFiles : f = e[1]
  BY DiskAssumption
<1> PICK c : c = e[2] /\ c # NoFile
  BY DiskAssumption
<1>1. /\ UNCHANGED <<pointer, downstream, runs>> /\ edits' \in 0..MaxEdits
      /\ file' = [file EXCEPT ![f] = c] /\ mine' = I!Others(mine, f) \cup {<<f, c>>}
      /\ backups' = I!Others(backups, f) /\ run.step \in AtRest \cup Asking
      /\ exposed' = I!Others(exposed, f) \/ exposed' = I!Others(exposed, f) \cup {<<f, c>>}
  BY DiskAssumption DEF I!Edit, I!artifacts, AtRest, Asking
<1>2. /\ DOMAIN file' = I!ConfigFiles /\ file'[f] = c /\ \A g \in I!ConfigFiles \ {f} : file'[g] = file[g]
      /\ \A m \in mine' \cup backups' \cup exposed' : m[1] \in I!ConfigFiles /\ m = <<m[1], m[2]>>
      /\ \A m \in mine' : (m[1] = f /\ m = <<f, c>>) \/ (m[1] # f /\ m \in mine)
      /\ \A m \in Saved : m[1] # f => m \in Saved'
      /\ \A m \in exposed : m[1] # f => m \in exposed'
  BY <1>1 DEF I!Others, Saved
<1>3. I!UserFilesKept' /\ \A m \in mine' : m[2] # NoFile
  BY <1>2 DEF I!UserFilesKept, Saved, InstallerInvariant
<1>4. RunTyped' => InstallerTyped'
  BY <1>1, <1>2, TypedOnward DEF Pointers
<1>5. CASE run.step \in AtRest
  <2>1. RunTyped' /\ run'.step = "idle"
    BY <1>1, <1>5, RunEnds DEF I!Edit, AtRest
  <2> QED BY <1>3, <1>4, <2>1 DEF InstallerInvariant, ReadHolds, ConfigSaved, WorkspaceSaved, TuiSaved, TuiWanted,
             Asking, AtRest
<1>6. CASE run.step \in Asking
  <2>1. run' = run /\ exposed' = I!Others(exposed, f) \cup {<<f, c>>}
    BY <1>6 DEF I!Edit, Asking
  <2>2. \A m \in mine' : m[1] = f => m \in exposed' /\ m \in Saved'
    BY <1>2, <2>1 DEF Saved
  <2>3. RunTyped'
    BY <1>1, <2>1 DEF RunTyped, Pointers
  <2>4. ReadHolds'
    BY <1>2, <2>1, <2>2 DEF InstallerInvariant, ReadHolds
  <2>5. ConfigSaved' /\ WorkspaceSaved' /\ TuiSaved'
    BY <1>2, <2>1, <2>2 DEF InstallerInvariant, ConfigSaved, WorkspaceSaved, TuiSaved
  <2> QED BY <1>3, <1>4, <2>1, <2>3, <2>4, <2>5 DEF InstallerInvariant, TuiWanted
<1> QED BY <1>1, <1>5, <1>6

LEMMA InstallerStep == InstallerInvariant /\ [I!Next]_installation => InstallerInvariant'
<1> SUFFICES ASSUME InstallerInvariant, [I!Next]_installation PROVE InstallerInvariant'
  OBVIOUS
<1>1. CASE UNCHANGED installation
  BY <1>1 DEF installation, InstallerInvariant, InstallerTyped, I!TypeOK, I!UserFilesKept, ReadHolds, ConfigSaved,
     WorkspaceSaved, TuiSaved, TuiWanted, Saved, Pointers
<1>2. CASE I!Next
  <2>1. CASE I!Cancel \/ I!Decide \/ I!Merge \/ I!CopyTemplates \/ I!Killed
    BY <2>1, AskingGoesOn, OnwardKeeps
  <2>2. CASE I!WriteIndex \/ I!WriteSum \/ I!Validate \/ I!Restore \/ I!WriteDownstream
    BY <2>2, PointerGoesOn, OnwardKeeps
  <2>3. CASE I!ReplaceMalformed \/ I!CopyConfig \/ I!NoConfig \/ I!CheckWorkspace \/ \E ans \in Answers : I!Answer(ans)
    BY <2>3, CopyingKeeps
  <2>4. CASE I!Begin \/ (\E f \in I!ConfigFiles : I!WriteFile(f)) \/ (\E e \in Edits : I!Edit(e[1], e[2]))
    BY <2>4, BeginKeeps, WriteFileKeeps, EditKeeps
  <2> QED BY <1>2, <2>1, <2>2, <2>3, <2>4 DEF I!Next
<1> QED BY <1>1, <1>2

LEMMA InstallerInvariantHolds == DiskSpec => [](part = "installer" => InstallerInvariant)
<1>1. DiskInit => (part = "installer" => InstallerInvariant)
  BY InstallerBegins DEF DiskInit
<1>2. (part = "installer" => InstallerInvariant) /\ [DiskNext]_allVars => (part = "installer" => InstallerInvariant)'
  BY InstallerStep, PartSteps
<1> QED BY <1>1, <1>2, PTL DEF DiskSpec, allVars

(* What a user wrote into opencode.json, or into another file so that it   *)
(* cannot be parsed, stays there or in a copy, unless the copy failed      *)
(* (install/src/index.ts), whatever runs, edits, failures and kills there  *)
(* are.                                                                    *)
THEOREM UsersFilesAreKept == DiskSpec => []UserFilesKept
<1>1. (part = "installer" => InstallerInvariant) => UserFilesKept
  BY DEF UserFilesKept, InstallerInvariant
<1> QED BY <1>1, InstallerInvariantHolds, PTL

(* Settings, as functions.                                                 *)
LEMMA SettingsAre ==
  ASSUME NEW N, NEW V
  PROVE  /\ \A S : S \subseteq N => \A f \in [S -> V] : f \in Settings(N, V)
         /\ \A f \in Settings(N, V) : DOMAIN f \subseteq N /\ f \in [DOMAIN f -> V]
BY DEF Settings

(* Settings joined with others are settings, of the names of both.         *)
LEMMA JoinedSettings ==
  ASSUME NEW N, NEW V, NEW old \in Settings(N, V), NEW new \in Settings(N, V)
  PROVE  /\ I!Joined(old, new) \in Settings(N, V)
         /\ DOMAIN I!Joined(old, new) = DOMAIN old \cup DOMAIN new
<1>1. /\ DOMAIN old \subseteq N /\ old \in [DOMAIN old -> V]
      /\ DOMAIN new \subseteq N /\ new \in [DOMAIN new -> V]
  BY SettingsAre
<1>2. I!Joined(old, new) = [x \in DOMAIN old \cup DOMAIN new |-> IF x \in DOMAIN old THEN old[x] ELSE new[x]]
  BY DEF I!Joined, I!Over
<1>3. I!Joined(old, new) \in [DOMAIN old \cup DOMAIN new -> V]
  BY <1>1, <1>2
<1>4. DOMAIN old \cup DOMAIN new \subseteq N
  BY <1>1
<1> QED BY <1>3, <1>4, SettingsAre

(* Some of the settings are settings.                                      *)
LEMMA RestrictedSettings ==
  ASSUME NEW N, NEW V, NEW f \in Settings(N, V), NEW S, S \subseteq DOMAIN f
  PROVE  I!Restrict(f, S) \in Settings(N, V)
<1>1. DOMAIN f \subseteq N /\ f \in [DOMAIN f -> V]
  BY SettingsAre
<1>2. I!Restrict(f, S) \in [S -> V]
  BY <1>1 DEF I!Restrict
<1>3. S \subseteq N
  BY <1>1
<1> QED BY <1>2, <1>3, SettingsAre

Configs == Contents("config")
Maybe(S) == S \cup {NoFile}

(* The contents of opencode.json, field by field.                          *)
LEMMA ConfigsAre ==
  Configs = [plugin : SUBSET Words.plugin, mcp : Settings(Words.mcp, Values), tools : Settings(Words.tools, BOOLEAN),
             agent : Settings(Words.agent, AgentSettings), keys : Settings(Words.keys, Values),
             skills : SUBSET Words.skills]
BY DEF Configs, Contents

(* A config is made of its settings.                                       *)
LEMMA ConfigOf ==
  ASSUME NEW plugin \in SUBSET Words.plugin, NEW mcp \in Settings(Words.mcp, Values),
         NEW switches \in Settings(Words.tools, BOOLEAN), NEW agent \in Settings(Words.agent, AgentSettings),
         NEW keys \in Settings(Words.keys, Values), NEW skills \in SUBSET Words.skills
  PROVE  [plugin |-> plugin, mcp |-> mcp, tools |-> switches, agent |-> agent, keys |-> keys, skills |-> skills] \in Configs
BY ConfigsAre

(* The settings of a config have their types, and there is nothing else.   *)
LEMMA ConfigHas ==
  ASSUME NEW c \in Configs
  PROVE  /\ c.plugin \in SUBSET Words.plugin /\ c.mcp \in Settings(Words.mcp, Values)
         /\ c.tools \in Settings(Words.tools, BOOLEAN) /\ c.agent \in Settings(Words.agent, AgentSettings)
         /\ c.keys \in Settings(Words.keys, Values) /\ c.skills \in SUBSET Words.skills
         /\ c = [plugin |-> c.plugin, mcp |-> c.mcp, tools |-> c.tools, agent |-> c.agent, keys |-> c.keys, skills |-> c.skills]
BY ConfigsAre

(* No settings at all are settings.                                        *)
LEMMA NothingSet ==
  ASSUME NEW N, NEW V
  PROVE  <<>> \in Settings(N, V)
<1>1. <<>> \in [{} -> V]
  OBVIOUS
<1> QED BY <1>1, SettingsAre

(* What mergeConfig starts from is a config.                               *)
LEMMA BaseIsConfig ==
  ASSUME NEW existing \in Maybe(Configs), NEW original \in Maybe(Configs)
  PROVE  I!Base(existing, original) \in Configs
<1>1. ASSUME NEW c \in Configs
      PROVE  [c EXCEPT !.skills = @ \ {"vault"}] \in Configs
  <2> PICK skills : skills = c.skills \ {"vault"}
    OBVIOUS
  <2>1. [c EXCEPT !.skills = @ \ {"vault"}] =
          [plugin |-> c.plugin, mcp |-> c.mcp, tools |-> c.tools, agent |-> c.agent, keys |-> c.keys, skills |-> skills]
    <3>1. [c EXCEPT !.skills = @ \ {"vault"}] = [c EXCEPT !.skills = skills]
      BY Zenon
    <3> QED BY ONLY <3>1, c \in Configs, ConfigHas
  <2>2. skills \in SUBSET Words.skills
    BY ConfigHas
  <2> QED BY <2>1, <2>2, ConfigHas, ConfigOf
<1>2. ASSUME NEW c \in Configs
      PROVE  [c EXCEPT !.keys = I!Restrict(@, DOMAIN @ \cap I!Preserved)] \in Configs
  <2>1. PICK keys : keys = I!Restrict(c.keys, DOMAIN c.keys \cap I!Preserved)
    OBVIOUS
  <2>2. [c EXCEPT !.keys = I!Restrict(@, DOMAIN @ \cap I!Preserved)] =
          [plugin |-> c.plugin, mcp |-> c.mcp, tools |-> c.tools, agent |-> c.agent, keys |-> keys, skills |-> c.skills]
    BY <2>1, ConfigHas
  <2>3. keys \in Settings(Words.keys, Values)
    <3>1. c.keys \in Settings(Words.keys, Values) /\ DOMAIN c.keys \cap I!Preserved \subseteq DOMAIN c.keys
      BY ConfigHas
    <3> QED BY <2>1, <3>1, RestrictedSettings
  <2> QED BY <2>2, <2>3, ConfigHas, ConfigOf
<1>3. I!Empty \in Configs
  BY NothingSet, ConfigOf DEF I!Empty
<1>4. PICK base : base = IF existing # NoFile THEN existing
                         ELSE IF original # NoFile
                         THEN [original EXCEPT !.keys = I!Restrict(@, DOMAIN @ \cap I!Preserved)] ELSE I!Empty
  OBVIOUS
<1>5. base \in Configs
  BY <1>2, <1>3, <1>4 DEF Maybe
<1>6. I!Base(existing, original) = [base EXCEPT !.skills = @ \ {"vault"}]
  BY <1>4 DEF I!Base
<1> QED BY <1>1, <1>5, <1>6

(* The agents with the switches and models of the answers are agents.      *)
LEMMA AgentsMerge ==
  ASSUME NEW agent \in Settings(Words.agent, AgentSettings), NEW ans \in Answers
  PROVE  I!MergedAgents(agent, ans) \in Settings(Words.agent, AgentSettings)
<1>1. DOMAIN agent \subseteq Words.agent /\ agent \in [DOMAIN agent -> AgentSettings]
  BY SettingsAre
<1>2. \A o \in AgentSettings : o.tools \in Settings(Words.tools, BOOLEAN) /\ o.model \in Values
  BY DEF AgentSettings
<1>3. I!NewAgent \in AgentSettings
  BY NothingSet, ContentsAssumption DEF I!NewAgent, AgentSettings
<1>4. ASSUME NEW o \in AgentSettings PROVE I!AgentEntry(o, ans) \in AgentSettings
  <2>1. [m \in ans.mcps |-> TRUE] \in Settings(Words.tools, BOOLEAN)
    <3>1. ans.mcps \subseteq Words.tools
      BY DiskAssumption, ContentsAssumption
    <3> QED BY <3>1, SettingsAre
  <2>2. I!Joined(o.tools, [m \in ans.mcps |-> TRUE]) \in Settings(Words.tools, BOOLEAN)
    BY <1>2, <2>1, JoinedSettings
  <2>3. (IF o.model = "none" /\ ans.models = "agents" THEN "chosen" ELSE o.model) \in Values
    BY <1>2, ContentsAssumption
  <2> QED BY <2>2, <2>3 DEF I!AgentEntry, AgentSettings
<1>5. DOMAIN agent \cup I!AllAgents \subseteq Words.agent
  BY <1>1, ContentsAssumption
<1>6. \A a \in DOMAIN agent \cup I!AllAgents :
        (IF a \notin I!AllAgents THEN agent[a]
         ELSE I!AgentEntry(IF a \in DOMAIN agent THEN agent[a] ELSE I!NewAgent, ans)) \in AgentSettings
  BY <1>1, <1>3, <1>4
<1>7. I!MergedAgents(agent, ans) \in [DOMAIN agent \cup I!AllAgents -> AgentSettings]
  BY <1>6 DEF I!MergedAgents
<1> QED BY <1>5, <1>7, SettingsAre

(* mergeConfig returns a config, which has the plugins chosen.             *)
LEMMA MergeIsConfig ==
  ASSUME NEW existing \in Maybe(Configs), NEW original \in Maybe(Configs), NEW ans \in Answers
  PROVE  /\ I!mergeConfig(existing, original, ans) \in Configs
         /\ ans.plugins \subseteq I!mergeConfig(existing, original, ans).plugin
<1>1. PICK base \in Configs : base = I!Base(existing, original)
  BY BaseIsConfig
<1>2. PICK plugin : plugin = base.plugin \cup ans.plugins
  OBVIOUS
<1>3. PICK mcp : mcp = I!Joined(base.mcp, [m \in ans.mcps |-> "catalog"])
  OBVIOUS
<1>4. PICK ts : ts = I!Joined(base.tools, [m \in ans.mcps |-> FALSE])
  OBVIOUS
<1>5. PICK agent : agent = I!MergedAgents(base.agent, ans)
  OBVIOUS
<1>6. PICK keys : keys = I!Joined(base.keys, I!Defaults(ans))
  OBVIOUS
<1>7. ans.mcps \subseteq Words.mcp /\ ans.mcps \subseteq Words.tools /\ ans.plugins \subseteq Words.plugin
  BY DiskAssumption, ContentsAssumption
<1>8. plugin \in SUBSET Words.plugin
  BY <1>2, <1>7, ConfigHas
<1>9. mcp \in Settings(Words.mcp, Values)
  <2>1. [m \in ans.mcps |-> "catalog"] \in Settings(Words.mcp, Values)
    BY <1>7, SettingsAre, ContentsAssumption
  <2> QED BY <1>3, <2>1, ConfigHas, JoinedSettings
<1>10. ts \in Settings(Words.tools, BOOLEAN)
  <2>1. [m \in ans.mcps |-> FALSE] \in Settings(Words.tools, BOOLEAN)
    BY <1>7, SettingsAre
  <2> QED BY <1>4, <2>1, ConfigHas, JoinedSettings
<1>11. agent \in Settings(Words.agent, AgentSettings)
  BY <1>5, ConfigHas, AgentsMerge
<1>12. keys \in Settings(Words.keys, Values)
  <2>1. I!Defaults(ans) \in Settings(Words.keys, Values)
    <3> PICK S : S = {"compaction"} \cup (IF ans.models = "global" THEN {"model"} ELSE {})
      OBVIOUS
    <3>1. S \subseteq Words.keys
      BY ContentsAssumption
    <3>2. I!Defaults(ans) \in [S -> Values]
      BY ContentsAssumption DEF I!Defaults
    <3> QED BY <3>1, <3>2, SettingsAre
  <2> QED BY <1>6, <2>1, ConfigHas, JoinedSettings
<1>13. I!mergeConfig(existing, original, ans) =
         [plugin |-> plugin, mcp |-> mcp, tools |-> ts, agent |-> agent, keys |-> keys, skills |-> base.skills]
  <2>1. I!mergeConfig(existing, original, ans) =
          [base EXCEPT !.plugin = plugin, !.mcp = mcp, !.tools = ts, !.agent = agent, !.keys = keys]
    BY <1>1, <1>2, <1>3, <1>4, <1>5, <1>6, Zenon DEF I!mergeConfig
  <2> QED BY <2>1, ConfigHas
<1> QED BY <1>2, <1>8, <1>9, <1>10, <1>11, <1>12, <1>13, ConfigHas, ConfigOf

(* In facade mode it stays a config, and mcp0 is its only server.          *)
LEMMA FacadeIsConfig ==
  ASSUME NEW c \in Configs
  PROVE  /\ I!applyMcp0FacadeMode(c) \in Configs /\ I!applyMcp0FacadeMode(c).plugin = c.plugin
         /\ DOMAIN I!applyMcp0FacadeMode(c).mcp = {"mcp0"}
<1>1. PICK removed : removed = (DOMAIN c.tools \cup DOMAIN c.mcp) \ {"mcp0"}
  OBVIOUS
<1>2. PICK mcp : mcp = [m \in {"mcp0"} |-> "catalog"]
  OBVIOUS
<1>3. PICK ts : ts = I!Over(I!Restrict(c.tools, DOMAIN c.tools \cap {"mcp0"}), [m \in {"mcp0"} |-> FALSE])
  OBVIOUS
<1>4. PICK agent : agent = [a \in DOMAIN c.agent |->
                              [c.agent[a] EXCEPT !.tools = I!Restrict(@, DOMAIN @ \ removed)]]
  OBVIOUS
<1>5. "mcp0" \in Words.mcp /\ "mcp0" \in Words.tools /\ "catalog" \in Values
  BY ContentsAssumption DEF I!Catalog
<1>6. mcp \in Settings(Words.mcp, Values) /\ DOMAIN mcp = {"mcp0"}
  <2>1. {"mcp0"} \subseteq Words.mcp /\ mcp \in [{"mcp0"} -> Values]
    BY <1>2, <1>5
  <2> QED BY <1>2, <2>1, SettingsAre
<1>7. ts \in Settings(Words.tools, BOOLEAN)
  <2>1. {"mcp0"} \subseteq Words.tools /\ [m \in {"mcp0"} |-> FALSE] \in [{"mcp0"} -> BOOLEAN]
    BY <1>5
  <2>2. [m \in {"mcp0"} |-> FALSE] \in Settings(Words.tools, BOOLEAN)
    BY <2>1, SettingsAre
  <2>3. I!Restrict(c.tools, DOMAIN c.tools \cap {"mcp0"}) \in Settings(Words.tools, BOOLEAN)
    BY ConfigHas, RestrictedSettings
  <2> QED BY <1>3, <2>2, <2>3, JoinedSettings DEF I!Joined
<1>8. agent \in Settings(Words.agent, AgentSettings)
  <2>1. DOMAIN c.agent \subseteq Words.agent /\ c.agent \in [DOMAIN c.agent -> AgentSettings]
    BY ConfigHas, SettingsAre
  <2>2. ASSUME NEW o \in AgentSettings
        PROVE  [o EXCEPT !.tools = I!Restrict(@, DOMAIN @ \ removed)] \in AgentSettings
    <3> PICK os : os = I!Restrict(o.tools, DOMAIN o.tools \ removed)
      OBVIOUS
    <3>1. o.tools \in Settings(Words.tools, BOOLEAN) /\ DOMAIN o.tools \ removed \subseteq DOMAIN o.tools
      BY DEF AgentSettings
    <3>2. os \in Settings(Words.tools, BOOLEAN)
      BY <3>1, RestrictedSettings
    <3> QED BY <3>2 DEF AgentSettings
  <2>3. \A a \in DOMAIN c.agent : [c.agent[a] EXCEPT !.tools = I!Restrict(@, DOMAIN @ \ removed)] \in AgentSettings
    BY <2>1, <2>2
  <2>4. agent \in [DOMAIN c.agent -> AgentSettings]
    BY <1>4, <2>3
  <2> QED BY <2>1, <2>4, SettingsAre
<1>9. I!applyMcp0FacadeMode(c) =
         [plugin |-> c.plugin, mcp |-> mcp, tools |-> ts, agent |-> agent, keys |-> c.keys, skills |-> c.skills]
  <2>1. I!applyMcp0FacadeMode(c) = [c EXCEPT !.mcp = mcp, !.tools = ts, !.agent = agent]
    BY <1>1, <1>2, <1>3, <1>4, Zenon DEF I!applyMcp0FacadeMode
  <2> QED BY <2>1, ConfigHas
<1> QED BY <1>6, <1>7, <1>8, <1>9, ConfigHas, ConfigOf

(* What the installer puts into opencode.json is a config with the plugins *)
(* chosen, and in facade mode with no server but mcp0.                     *)
LEMMA InstalledIsConfig ==
  ASSUME NEW existing \in Maybe(Configs), NEW original \in Maybe(Configs), NEW ans \in Answers,
         NEW c, c = I!Installed(existing, original, ans)
  PROVE  /\ c \in Configs /\ ans.plugins \subseteq c.plugin
         /\ I!FacadeMode(ans) => DOMAIN c.mcp = {"mcp0"}
<1>1. PICK merged \in Configs : merged = I!mergeConfig(existing, original, ans) /\ ans.plugins \subseteq merged.plugin
  BY MergeIsConfig
<1>2. c = IF I!FacadeMode(ans) THEN I!applyMcp0FacadeMode(merged) ELSE merged
  BY <1>1 DEF I!Installed
<1> QED BY <1>1, <1>2, FacadeIsConfig

(* mergeWorkspaceConfig returns a config that says whether the pointer is  *)
(* on.                                                                     *)
LEMMA WorkspaceIsMerged ==
  ASSUME NEW c \in Maybe(Contents("workspace")), NEW new, new = I!mergeWorkspaceConfig(c)
  PROVE  new \in Contents("workspace") /\ "mcpPointer" \in DOMAIN new
<1>1. Contents("workspace") = Settings(Words.workspace, Values)
  BY DEF Contents
<1>2. PICK old \in Contents("workspace") : old = IF c = NoFile THEN <<>> ELSE c
  BY <1>1, NothingSet DEF Maybe
<1>3. PICK own : own = [mcpPointer |-> "on", features |-> "default"]
  OBVIOUS
<1>4. own \in Settings(Words.workspace, Values) /\ "mcpPointer" \in DOMAIN own
  <2>1. own \in [{"mcpPointer", "features"} -> Values]
    BY <1>3, ContentsAssumption
  <2>2. {"mcpPointer", "features"} \subseteq Words.workspace
    BY ContentsAssumption
  <2> QED BY <2>1, <2>2, SettingsAre
<1>5. new = I!Joined(old, own)
  BY <1>2, <1>3 DEF I!mergeWorkspaceConfig
<1>6. old \in Settings(Words.workspace, Values)
  BY <1>1, <1>2
<1>7. PICK N : N = Words.workspace
  OBVIOUS
<1>8. old \in Settings(N, Values) /\ own \in Settings(N, Values)
  BY <1>4, <1>6, <1>7
<1>9. I!Joined(old, own) \in Settings(N, Values) /\ DOMAIN I!Joined(old, own) = DOMAIN old \cup DOMAIN own
  BY ONLY <1>8, JoinedSettings
<1> QED BY <1>1, <1>4, <1>5, <1>7, <1>9

(* mergeTuiConfig returns the plugins of the TUI, with delegation.         *)
LEMMA TuiIsMerged ==
  ASSUME NEW c \in Maybe(Contents("tui")), NEW ans \in Answers, I!shouldConfigureTui(ans),
         NEW new, new = I!mergeTuiConfig(c, ans)
  PROVE  new \in Contents("tui") /\ "delegation" \in new
<1>1. Contents("tui") = SUBSET Words.plugin
  BY DEF Contents
<1> QED BY <1>1, ContentsAssumption DEF I!mergeTuiConfig, I!shouldConfigureTui, Maybe

-----------------------------------------------------------------------------
(* What a run that ends has made of the files.                             *)
Broken == {NoFile, Mangled, Torn}
Written == {"downstream", "config", "workspace.json", "tui", "finished"}
Planning == {"templates", "index", "sum", "validate", "restore", "restoreSum"} \cup Written

(* What files, copies of them and answers hold.                            *)
FilesTyped ==
  /\ \A f \in I!ConfigFiles : file[f] \in Broken \cup Contents(f) /\ run.read[f] \in Broken \cup Contents(f)
  /\ run.existing \in Maybe(Configs)
  /\ run.step = "decide" => run.read["config"] \in Configs
  /\ run.step \in {"merge"} \cup Planning => run.ans \in Answers

(* What is going to be written.                                            *)
Planned ==
  run.step \in Planning =>
    /\ run.new["config"] \in Configs /\ run.ans.plugins \subseteq run.new["config"].plugin
    /\ I!FacadeMode(run.ans) => DOMAIN run.new["config"].mcp = {"mcp0"}
    /\ run.new["workspace"] \in Contents("workspace") /\ "mcpPointer" \in DOMAIN run.new["workspace"]
    /\ I!shouldConfigureTui(run.ans) => run.new["tui"] \in Contents("tui") /\ "delegation" \in run.new["tui"]

(* Index and checksum, where the pointer is enabled, are of this run.      *)
PointerMade ==
  /\ run.step \in {"sum", "validate"} => pointer.index = runs
  /\ run.step = "validate" => pointer.sum = runs
  /\ run.step \in Written /\ run.new["workspace"].mcpPointer = "on" => pointer.index = runs /\ pointer.sum = runs

(* The servers behind the facade are written.                              *)
ServersMade ==
  run.step \in Written \ {"downstream"} /\ I!FacadeMode(run.ans) => downstream = run.ans.mcps \ {"mcp0"}

(* The files hold what was planned.                                        *)
FilesMade ==
  /\ run.step \in {"workspace.json", "tui", "finished"} => file["config"] = run.new["config"]
  /\ run.step \in {"tui", "finished"} => file["workspace"] = run.new["workspace"]
  /\ run.step = "finished" /\ I!shouldConfigureTui(run.ans) => file["tui"] = run.new["tui"]

InstallationWhole == InstallerTyped /\ FilesTyped /\ Planned /\ PointerMade /\ ServersMade /\ FilesMade

(* Before the first run nothing is promised.                               *)
LEMMA WholeBegins == I!Init => InstallationWhole
<1> SUFFICES ASSUME I!Init PROVE InstallationWhole
  OBVIOUS
<1>1. InstallerTyped
  BY InstallerBegins DEF InstallerInvariant
<1>2. run = I!Rest /\ run.step = "idle" /\ run.existing = NoFile /\ run.read = I!Nothing
  BY DEF I!Init, I!Rest
<1>3. \A f \in I!ConfigFiles : file[f] \in {NoFile, Mangled} \/ file[f] \in Contents(f)
  BY ContentsAssumption DEF I!Init
<1> QED BY <1>1, <1>2, <1>3 DEF InstallationWhole, FilesTyped, Planned, PointerMade, ServersMade, FilesMade, I!Nothing,
           Broken, Maybe, Planning, Written

(* A run that is over has nothing to keep.                                 *)
LEMMA WholeEnds ==
  ASSUME InstallationWhole, InstallerTyped', run' = I!Rest,
         \A f \in I!ConfigFiles : file'[f] \in Broken \cup Contents(f)
  PROVE  InstallationWhole'
<1>1. run'.step = "idle" /\ run'.existing = NoFile /\ run'.read = I!Nothing
  BY DEF I!Rest
<1> QED BY <1>1 DEF InstallationWhole, FilesTyped, Planned, PointerMade, ServersMade, FilesMade, I!Nothing,
           Broken, Maybe, Planning, Written

(* Until the answers are given there is nothing to keep but types.         *)
LEMMA WholeAsks ==
  ASSUME InstallerTyped', FilesTyped', run'.step \notin Planning
  PROVE  InstallationWhole'
BY DEF InstallationWhole, Planned, PointerMade, ServersMade, FilesMade, Planning, Written

(* The steps up to the answers keep to contents.                           *)
LEMMA AskingKeepsWhole ==
  ASSUME InstallationWhole, InstallerTyped',
         \/ I!Begin \/ I!ReplaceMalformed \/ I!CopyConfig \/ I!Decide \/ I!NoConfig \/ I!CheckWorkspace
         \/ \E ans \in Answers : I!Answer(ans)
  PROVE  InstallationWhole'
<1> InstallerTyped /\ RunTyped /\ FilesTyped
  BY TypedRun DEF InstallationWhole
<1>1. file' = file
  BY DEF I!Begin, I!ReplaceMalformed, I!CopyConfig, I!Decide, I!NoConfig, I!CheckWorkspace, I!Answer
<1>2. CASE I!Begin
  <2>1. run' = [I!Rest EXCEPT !.step = "opened", !.read = file]
    BY <1>2 DEF I!Begin
  <2>2. run'.step = "opened" /\ run'.read = file /\ run'.existing = NoFile
    BY <2>1 DEF I!Rest
  <2> QED BY <1>1, <2>2, WholeAsks DEF FilesTyped, Planning, Written, Maybe
<1>3. ASSUME NEW step \in {"decide", "workspace", "answers"}, I!Go(step),
             step = "decide" => run.read["config"] \in Configs
      PROVE  InstallationWhole'
  <2>1. run'.step = step /\ run'.read = run.read /\ run'.existing = run.existing
    BY <1>3 DEF I!Go, RunTyped, RunFields
  <2> QED BY <1>1, <1>3, <2>1, WholeAsks DEF FilesTyped, Planning, Written
<1>4. CASE I!ReplaceMalformed \/ I!NoConfig \/ I!CheckWorkspace
  BY <1>3, <1>4 DEF I!ReplaceMalformed, I!NoConfig, I!CheckWorkspace
<1>5. CASE I!CopyConfig
  <2>1. run.read["config"] \in Configs
    BY <1>5 DEF I!CopyConfig, I!Parsed, FilesTyped, Broken, Configs, I!ConfigFiles
  <2> QED BY <1>3, <1>5, <2>1 DEF I!CopyConfig
<1>6. CASE I!Decide
  <2>1. PICK existing \in {run.read["config"], NoFile} : run' = [run EXCEPT !.step = "workspace", !.existing = existing]
    BY <1>6 DEF I!Decide
  <2>2. run'.step = "workspace" /\ run'.read = run.read /\ run'.existing = existing
    BY <2>1 DEF RunTyped, RunFields
  <2>3. existing \in Maybe(Configs)
    BY <1>6, <2>1 DEF I!Decide, I!At, FilesTyped, Maybe
  <2> QED BY <1>1, <2>2, <2>3, WholeAsks DEF FilesTyped, Planning, Written
<1>7. CASE \E ans \in Answers : I!Answer(ans)
  <2>1. PICK ans \in Answers : run' = [run EXCEPT !.step = "merge", !.ans = ans]
    BY <1>7 DEF I!Answer
  <2>2. run'.step = "merge" /\ run'.read = run.read /\ run'.existing = run.existing /\ run'.ans = ans
    BY <2>1 DEF RunTyped, RunFields
  <2> QED BY <1>1, <2>2, WholeAsks DEF FilesTyped, Planning, Written
<1> QED BY <1>2, <1>4, <1>5, <1>6, <1>7

(* A user's edit comes before the merge, or when no run is under way.      *)
LEMMA EditKeepsWhole ==
  ASSUME InstallationWhole, InstallerTyped', NEW e \in Edits, I!Edit(e[1], e[2])
  PROVE  InstallationWhole'
<1> InstallerTyped /\ RunTyped /\ FilesTyped
  BY TypedRun DEF InstallationWhole
<1> PICK f \in I!ConfigFiles : f = e[1]
  BY DiskAssumption
<1> PICK c : c = e[2] /\ c \in Broken \cup Contents(f)
  BY ContentsAssumption DEF Broken
<1>1. file' = [file EXCEPT ![f] = c] /\ DOMAIN file = I!ConfigFiles
  BY TypedStays DEF I!Edit
<1>2. \A g \in I!ConfigFiles : file'[g] \in Broken \cup Contents(g)
  BY <1>1 DEF FilesTyped
<1>3. CASE run.step \in {"idle", "finished"}
  BY <1>2, <1>3, WholeEnds DEF I!Edit
<1>4. CASE run.step \in Asking
  <2>1. run' = run
    BY <1>4 DEF I!Edit, Asking
  <2> QED BY <1>2, <1>4, <2>1, WholeAsks DEF FilesTyped, Planning, Written, Asking
<1> QED BY <1>3, <1>4 DEF I!Edit, Asking

(* What is to be written is computed.                                      *)
LEMMA MergeKeepsWhole ==
  ASSUME InstallationWhole, InstallerTyped', I!Merge
  PROVE  InstallationWhole'
<1> InstallerTyped /\ RunTyped /\ FilesTyped
  BY TypedRun DEF InstallationWhole
<1>1. UNCHANGED <<file, pointer, downstream, runs>> /\ run.step = "merge" /\ run.ans \in Answers
  BY DEF I!Merge, I!artifacts, I!tally, I!At, FilesTyped
<1>2. CASE run' = I!Rest
  BY <1>1, <1>2, WholeEnds DEF FilesTyped
<1>3. CASE run' # I!Rest
  <2> PICK original : original = I!Data(run.read["config"])
    OBVIOUS
  <2> PICK config : config = I!Installed(run.existing, original, run.ans)
    OBVIOUS
  <2> PICK workspace : workspace = I!mergeWorkspaceConfig(I!Data(run.read["workspace"]))
    OBVIOUS
  <2> PICK tui : tui = IF I!shouldConfigureTui(run.ans) THEN I!mergeTuiConfig(I!Data(run.read["tui"]), run.ans) ELSE NoFile
    OBVIOUS
  <2> PICK new : new = [config |-> config, workspace |-> workspace, tui |-> tui]
    OBVIOUS
  <2>1. run' = [run EXCEPT !.step = "templates", !.read = I!Nothing, !.existing = NoFile, !.new = new]
    BY <1>3, Zenon DEF I!Merge
  <2>2. run'.step = "templates" /\ run'.read = I!Nothing /\ run'.existing = NoFile /\ run'.new = new /\ run'.ans = run.ans
    BY <2>1 DEF RunTyped, RunFields
  <2>3. \A f \in I!ConfigFiles : I!Data(run.read[f]) \in Maybe(Contents(f))
    BY DEF I!Data, I!Parsed, FilesTyped, Broken, Maybe
  <2>4. /\ config \in Configs /\ run.ans.plugins \subseteq config.plugin
        /\ I!FacadeMode(run.ans) => DOMAIN config.mcp = {"mcp0"}
    <3>1. original \in Maybe(Configs) /\ run.existing \in Maybe(Configs)
      BY <2>3 DEF FilesTyped, Configs, I!ConfigFiles
    <3> QED BY <1>1, <3>1, InstalledIsConfig
  <2>5. workspace \in Contents("workspace") /\ "mcpPointer" \in DOMAIN workspace
    <3>1. I!Data(run.read["workspace"]) \in Maybe(Contents("workspace"))
      BY <2>3 DEF I!ConfigFiles
    <3> QED BY <3>1, WorkspaceIsMerged
  <2>6. I!shouldConfigureTui(run.ans) => tui \in Contents("tui") /\ "delegation" \in tui
    <3>1. I!Data(run.read["tui"]) \in Maybe(Contents("tui"))
      BY <2>3 DEF I!ConfigFiles
    <3> QED BY <1>1, <3>1, TuiIsMerged
  <2>7. new["config"] = config /\ new["workspace"] = workspace /\ new["tui"] = tui
    OBVIOUS
  <2>8. Planned'
    BY <2>2, <2>4, <2>5, <2>6, <2>7 DEF Planned
  <2>9. FilesTyped'
    BY <1>1, <2>2 DEF FilesTyped, I!Nothing, Broken, Maybe
  <2> QED BY <2>2, <2>8, <2>9 DEF InstallationWhole, PointerMade, ServersMade, FilesMade, Written
<1> QED BY <1>2, <1>3

(* The steps after the merge: pointer, servers, then the files.            *)
LEMMA PointerKeepsWhole ==
  ASSUME InstallationWhole, InstallerTyped',
         I!CopyTemplates \/ I!WriteIndex \/ I!WriteSum \/ I!Validate \/ I!Restore
  PROVE  InstallationWhole'
<1> InstallerTyped /\ RunTyped /\ FilesTyped /\ Planned /\ PointerMade
  BY TypedRun DEF InstallationWhole
<1>1. /\ UNCHANGED <<file, downstream, runs>>
      /\ run.step \in {"templates", "index", "sum", "validate", "restore", "restoreSum"} /\ run.step \in Planning
  BY DEF I!CopyTemplates, I!WriteIndex, I!WriteSum, I!Validate, I!Restore, I!artifacts, I!tally, I!At, Planning
<1>2. DOMAIN pointer = {"index", "sum"}
  BY TypedStays DEF Pointers
<1>3. CASE run' = I!Rest
  BY <1>1, <1>3, WholeEnds DEF FilesTyped
<1>4. ASSUME NEW step \in {"index", "sum", "validate", "restore", "restoreSum", "downstream"},
             run'.step = step, run'.read = run.read, run'.existing = run.existing, run'.ans = run.ans,
             run'.new["config"] = run.new["config"], run'.new["tui"] = run.new["tui"],
             run'.new["workspace"] \in Contents("workspace"), "mcpPointer" \in DOMAIN run'.new["workspace"],
             PointerMade'
      PROVE  InstallationWhole'
  <2>1. FilesTyped'
    BY <1>1, <1>4 DEF FilesTyped, Planning, Written
  <2>2. Planned'
    BY <1>1, <1>4 DEF Planned
  <2> QED BY <1>4, <2>1, <2>2 DEF InstallationWhole, ServersMade, FilesMade, Written
<1>5. CASE I!Fallback
  <2> PICK workspace : workspace = [run.new["workspace"] EXCEPT !.mcpPointer = "off"]
    OBVIOUS
  <2> PICK new : new = [run.new EXCEPT !["workspace"] = workspace]
    OBVIOUS
  <2>1. run' = [run EXCEPT !.step = "downstream", !.new = new]
    BY <1>5 DEF I!Fallback, I!Disabled
  <2>2. new["config"] = run.new["config"] /\ new["tui"] = run.new["tui"] /\ new["workspace"] = workspace
    BY DEF RunTyped, I!ConfigFiles
  <2>3. /\ run'.step = "downstream" /\ run'.read = run.read /\ run'.existing = run.existing /\ run'.ans = run.ans
        /\ run'.new = new
    BY <2>1 DEF RunTyped, RunFields
  <2>4. workspace \in Contents("workspace") /\ "mcpPointer" \in DOMAIN workspace /\ workspace.mcpPointer = "off"
    <3>1. PICK old \in Settings(Words.workspace, Values) : old = run.new["workspace"] /\ "mcpPointer" \in DOMAIN old
      BY <1>1 DEF Planned, Contents
    <3>2. old \in [DOMAIN old -> Values] /\ DOMAIN old \subseteq Words.workspace /\ "off" \in Values
      BY SettingsAre, ContentsAssumption
    <3>3. workspace = [old EXCEPT !["mcpPointer"] = "off"]
      BY <3>1
    <3>4. workspace \in [DOMAIN old -> Values] /\ workspace["mcpPointer"] = "off"
      BY <3>1, <3>2, <3>3
    <3>5. workspace \in Settings(Words.workspace, Values)
      BY <3>2, <3>4, SettingsAre
    <3> QED BY <3>1, <3>3, <3>4, <3>5 DEF Contents
  <2>5. PointerMade'
    BY <2>2, <2>3, <2>4 DEF PointerMade
  <2> QED BY <1>4, <2>2, <2>3, <2>4, <2>5
<1>6. ASSUME NEW step \in {"index", "sum", "validate", "restore", "restoreSum", "downstream"},
             run'.step = step, run'.read = run.read, run'.existing = run.existing, run'.ans = run.ans, run'.new = run.new,
             PointerMade'
      PROVE  InstallationWhole'
  BY <1>1, <1>4, <1>6 DEF Planned
<1>7. ASSUME NEW step, I!Go(step)
      PROVE  /\ run'.step = step /\ run'.read = run.read /\ run'.existing = run.existing /\ run'.ans = run.ans
             /\ run'.new = run.new
  BY <1>7 DEF I!Go, RunTyped, RunFields
<1>8. ASSUME NEW step, run' = [run EXCEPT !.step = step, !.previous = pointer]
      PROVE  /\ run'.step = step /\ run'.read = run.read /\ run'.existing = run.existing /\ run'.ans = run.ans
             /\ run'.new = run.new
  BY <1>8 DEF RunTyped, RunFields
<1>9. CASE I!CopyTemplates /\ run' # I!Rest
  <2>1. PICK step \in {"index", "downstream"} : /\ I!Go(step)
                                                /\ step = "downstream" => run.new["workspace"].mcpPointer = "off"
    BY <1>9 DEF I!CopyTemplates, I!PointerEnabled
  <2> QED BY <1>6, <1>7, <2>1 DEF PointerMade, Written
<1>10. CASE I!WriteIndex /\ ~I!Fallback
  <2>1. CASE pointer' = [pointer EXCEPT !.index = runs] /\ run' = [run EXCEPT !.step = "sum", !.previous = pointer]
    <3>1. pointer'.index = runs'
      BY <1>1, <1>2, <2>1
    <3> QED BY <1>6, <1>8, <2>1, <3>1 DEF PointerMade, Written
  <2>2. CASE run' = [run EXCEPT !.step = "restore", !.previous = pointer]
    BY <1>6, <1>8, <2>2 DEF PointerMade, Written
  <2> QED BY <1>10, <2>1, <2>2 DEF I!WriteIndex
<1>11. CASE I!WriteSum
  <2>1. CASE pointer' = [pointer EXCEPT !.sum = runs] /\ I!Go("validate")
    <3>1. pointer'.index = runs' /\ pointer'.sum = runs'
      BY <1>1, <1>2, <1>11, <2>1 DEF PointerMade, I!WriteSum, I!At
    <3> QED BY <1>6, <1>7, <2>1, <3>1 DEF PointerMade, Written
  <2>2. CASE I!Go("restore")
    BY <1>6, <1>7, <2>2 DEF PointerMade, Written
  <2> QED BY <1>11, <2>1, <2>2 DEF I!WriteSum
<1>12. CASE I!Validate /\ ~I!Fallback
  <2>1. pointer' = pointer /\ pointer.index = runs /\ pointer.sum = runs
    BY <1>12 DEF I!Validate, I!artifacts, PointerMade, I!At
  <2>2. PICK step \in {"downstream", "restore"} : I!Go(step)
    BY <1>12 DEF I!Validate
  <2> QED BY <1>1, <1>6, <1>7, <2>1, <2>2 DEF PointerMade, Written
<1>13. CASE I!Restore /\ ~I!Fallback
  <2>1. I!Go("restoreSum")
    BY <1>13 DEF I!Restore
  <2> QED BY <1>6, <1>7, <2>1 DEF PointerMade, Written
<1> QED BY <1>3, <1>5, <1>9, <1>10, <1>11, <1>12, <1>13

LEMMA WritingKeepsWhole ==
  ASSUME InstallationWhole, InstallerInvariant, InstallerTyped',
         I!WriteDownstream \/ \E f \in I!ConfigFiles : I!WriteFile(f)
  PROVE  InstallationWhole'
<1> InstallerTyped /\ RunTyped /\ FilesTyped /\ Planned /\ PointerMade /\ ServersMade /\ FilesMade
  BY TypedRun DEF InstallationWhole
<1>1. UNCHANGED <<pointer, runs>> /\ run.step \in {"downstream", "config", "workspace.json", "tui"} /\ run.step \in Planning
  BY DEF I!WriteDownstream, I!WriteFile, I!StepOf, I!artifacts, I!tally, I!At, Planning, Written, I!ConfigFiles
<1>2. ASSUME NEW step \in {"config", "workspace.json", "tui", "finished"}, I!Go(step),
             \A f \in I!ConfigFiles : file'[f] \in Broken \cup Contents(f), ServersMade', FilesMade'
      PROVE  InstallationWhole'
  <2>1. /\ run'.step = step /\ run'.read = run.read /\ run'.existing = run.existing /\ run'.ans = run.ans
        /\ run'.new = run.new
    BY <1>2 DEF I!Go, RunTyped, RunFields
  <2>2. FilesTyped'
    BY <1>1, <1>2, <2>1 DEF FilesTyped, Planning, Written
  <2>3. Planned' /\ PointerMade'
    BY <1>1, <1>2, <2>1 DEF Planned, PointerMade, Written
  <2> QED BY <1>2, <2>2, <2>3 DEF InstallationWhole
<1>3. ASSUME NEW step, I!Go(step)
      PROVE  run'.step = step /\ run'.ans = run.ans /\ run'.new = run.new
  BY <1>3 DEF I!Go, RunTyped, RunFields
<1>4. CASE I!WriteDownstream
  <2>1. file' = file
    BY <1>4 DEF I!WriteDownstream
  <2>2. CASE run' = I!Rest
    BY <2>1, <2>2, WholeEnds DEF FilesTyped
  <2>3. CASE I!Go("config")
    <3>1. I!FacadeMode(run.ans) => downstream' = run.ans.mcps \ {"mcp0"} \/ run' = I!Rest
      BY <1>4 DEF I!WriteDownstream
    <3>2. run'.step = "config" /\ I!Rest.step = "idle"
      BY <1>3, <2>3 DEF I!Rest
    <3>3. ServersMade'
      BY <1>3, <2>3, <3>1, <3>2 DEF ServersMade
    <3> QED BY <1>2, <2>1, <2>3, <3>2, <3>3 DEF FilesTyped, FilesMade
  <2> QED BY <1>4, <2>2, <2>3 DEF I!WriteDownstream
<1>5. ASSUME NEW f \in I!ConfigFiles, I!WriteFile(f) PROVE InstallationWhole'
  <2>1. DOMAIN file = I!ConfigFiles /\ UNCHANGED downstream /\ run.step = I!StepOf(f)
    BY <1>5, TypedStays DEF I!WriteFile, I!artifacts, I!At
  <2>2. CASE run' = I!Rest /\ file' = [file EXCEPT ![f] = Torn]
    BY <2>1, <2>2, WholeEnds DEF FilesTyped, Broken
  <2>3. CASE file' = [file EXCEPT ![f] = run.new[f]] /\ I!Go(I!After(f))
    <3>1. file'[f] = run.new[f] /\ \A g \in I!ConfigFiles \ {f} : file'[g] = file[g]
      BY <2>1, <2>3
    <3>2. /\ f = "config" => I!After(f) = "workspace.json" /\ I!StepOf(f) = "config"
          /\ f = "workspace" => I!After(f) \in {"tui", "finished"} /\ I!StepOf(f) = "workspace.json"
          /\ f = "workspace" /\ I!After(f) = "finished" => run.new["tui"] = NoFile
          /\ f = "tui" => I!After(f) = "finished" /\ I!StepOf(f) = "tui"
      BY DEF I!After, I!StepOf
    <3>3. run'.step = I!After(f) /\ run'.ans = run.ans /\ run'.new = run.new
      BY <1>3, <2>3
    <3>4. ServersMade'
      BY <1>1, <2>1, <3>2, <3>3 DEF ServersMade, Written, I!ConfigFiles
    <3>5. I!shouldConfigureTui(run.ans) => run.new["tui"] # NoFile
      <4>1. NoFile \notin Contents("tui")
        BY ContentsAssumption
      <4> QED BY <1>1, <4>1 DEF Planned
    <3>6. FilesMade'
      BY <2>1, <3>1, <3>2, <3>3, <3>5 DEF FilesMade, I!ConfigFiles
    <3>7. run.new[f] \in Broken \cup Contents(f)
      <4>1. f = "tui" => I!shouldConfigureTui(run.ans)
        BY <2>1, <3>2 DEF InstallerInvariant, TuiWanted, AtRest, Asking
      <4> QED BY <1>1, <4>1 DEF Planned, Configs, I!ConfigFiles, Broken
    <3> QED BY <1>2, <2>3, <3>1, <3>2, <3>4, <3>6, <3>7 DEF FilesTyped, I!ConfigFiles
  <2> QED BY <1>5, <2>2, <2>3 DEF I!WriteFile
<1> QED BY <1>4, <1>5

(* Every step of the installer.                                            *)
LEMMA WholeStep ==
  ASSUME InstallationWhole, InstallerInvariant, [I!Next]_installation
  PROVE  InstallationWhole'
<1>1. InstallerTyped'
  BY InstallerStep DEF InstallerInvariant
<1>2. CASE UNCHANGED installation
  BY <1>1, <1>2 DEF installation, InstallationWhole, FilesTyped, Planned, PointerMade, ServersMade, FilesMade
<1>3. CASE I!Cancel \/ I!Killed
  <2>1. run' = I!Rest /\ file' = file
    BY <1>3 DEF I!Cancel, I!Killed
  <2> QED BY <1>1, <2>1, WholeEnds DEF InstallationWhole, FilesTyped
<1>4. CASE I!Merge
  BY <1>1, <1>4, MergeKeepsWhole
<1>5. CASE \/ I!Begin \/ I!ReplaceMalformed \/ I!CopyConfig \/ I!Decide \/ I!NoConfig \/ I!CheckWorkspace
           \/ \E ans \in Answers : I!Answer(ans)
  BY <1>1, <1>5, AskingKeepsWhole
<1>6. CASE I!CopyTemplates \/ I!WriteIndex \/ I!WriteSum \/ I!Validate \/ I!Restore
  BY <1>1, <1>6, PointerKeepsWhole
<1>7. CASE I!WriteDownstream \/ \E f \in I!ConfigFiles : I!WriteFile(f)
  BY <1>1, <1>7, WritingKeepsWhole
<1>8. CASE \E e \in Edits : I!Edit(e[1], e[2])
  BY <1>1, <1>8, EditKeepsWhole
<1> QED BY <1>2, <1>3, <1>4, <1>5, <1>6, <1>7, <1>8 DEF I!Next

(* The invariant holds while the installer is exercised.                   *)
LEMMA WholeHolds == DiskSpec => [](part = "installer" => InstallationWhole)
<1>1. DiskInit => (part = "installer" => InstallationWhole)
  BY WholeBegins DEF DiskInit
<1>2. /\ part = "installer" => InstallationWhole /\ InstallerInvariant
      /\ [DiskNext]_allVars
      => (part = "installer" => InstallationWhole)'
  BY WholeStep, PartSteps
<1> QED BY <1>1, <1>2, InstallerInvariantHolds, PTL DEF DiskSpec, allVars

(* At the end it says what was promised.                                   *)
LEMMA WholeIsWhole == InstallationWhole => I!FinishedIsWhole
<1> SUFFICES ASSUME InstallationWhole, I!At("finished") PROVE
      /\ I!Parsed(file["config"]) /\ run.ans.plugins \subseteq file["config"].plugin
      /\ I!Parsed(file["workspace"])
      /\ file["workspace"].mcpPointer = "on" => pointer.index = runs /\ pointer.sum = runs
      /\ I!shouldConfigureTui(run.ans) => I!Parsed(file["tui"]) /\ "delegation" \in file["tui"]
      /\ I!FacadeMode(run.ans) => /\ DOMAIN file["config"].mcp = {"mcp0"}
                                 /\ run.ans.mcps \ {"mcp0"} = downstream
  BY DEF I!FinishedIsWhole
<1>1. run.step = "finished" /\ run.step \in Planning /\ run.step \in Written
  BY DEF I!At, Planning, Written
<1>2. /\ file["config"] = run.new["config"] /\ file["workspace"] = run.new["workspace"]
      /\ I!shouldConfigureTui(run.ans) => file["tui"] = run.new["tui"]
  BY <1>1 DEF InstallationWhole, FilesMade
<1>3. /\ \A c \in Configs \cup Contents("workspace") \cup Contents("tui") : I!Parsed(c)
  BY ContentsAssumption DEF I!Parsed, Configs
<1> QED BY <1>1, <1>2, <1>3 DEF InstallationWhole, Planned, PointerMade, ServersMade

(* A run of the installer that gets to its end leaves a whole installation,*)
(* whatever it found, what users wrote meanwhile, and how often it was     *)
(* killed before (install/src/index.ts).                                   *)
THEOREM FinishedInstallationsAreWhole == DiskSpec => []FinishedIsWhole
<1>1. (part = "installer" => InstallationWhole) => FinishedIsWhole
  BY WholeIsWhole DEF FinishedIsWhole
<1> QED BY <1>1, WholeHolds, PTL

-----------------------------------------------------------------------------
(* The whole                                                               *)

(* Whatever part is exercised, the code index does what CodeIndex says:    *)
(* its theorems hold of the whole.                                         *)
THEOREM IndexIsPart == DiskSpec => Spec
<1>1. DiskInit => Init
  BY DEF DiskInit
<1>2. [DiskNext]_allVars => [Next]_vars
  BY PartSteps
<1> QED BY <1>1, <1>2, PTL DEF DiskSpec, Spec, allVars

(* Every variable of every part has its type.                              *)
THEOREM TypesCorrect == DiskSpec => []TypesOK
<1>1. IndexInvariant => TypeOK
  BY DEF IndexInvariant, IndexTyped
<1>2. ModesInvariant => M!TypeOK
  BY DEF ModesInvariant, ModesTyped
<1>3. WorktreesInvariant => W!TypeOK
  BY DEF WorktreesInvariant, WorktreesTyped
<1>4. AssignmentInvariant => A!TypeOK
  BY DEF AssignmentInvariant, AssignmentTyped
<1>5. InstallerInvariant => I!TypeOK
  BY DEF InstallerInvariant, InstallerTyped
<1>6. /\ IndexInvariant
      /\ part = "modes" => ModesInvariant
      /\ part = "worktrees" => WorktreesInvariant
      /\ part = "assignment" => AssignmentInvariant
      /\ part = "installer" => InstallerInvariant
      => TypesOK
  BY <1>1, <1>2, <1>3, <1>4, <1>5 DEF TypesOK
<1> QED BY <1>6, IndexIsPart, IndexInvariantHolds, ModesInvariantHolds, WorktreesInvariantHolds,
           AssignmentInvariantHolds, InstallerInvariantHolds, PTL
==============================================================================
