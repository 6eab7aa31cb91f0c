----------------------------- MODULE SessionModes -----------------------------
(***************************************************************************)
(* The continuation modes of sessions, workspace/src/continuation/state.ts:*)
(* the tools continuation_continue, continuation_handoff and               *)
(* continuation_stop, the notes about terminals, and the one file that     *)
(* keeps both.  The file is rewritten in place, with a copy beside it      *)
(* until that has worked.  Mutations run one at a time (mutationQueue);    *)
(* readers do not wait for them: whether a session may go on is what the   *)
(* file says at any moment.  Left out: texts and times, a second process   *)
(* with the same file.                                                     *)
(***************************************************************************)
EXTENDS Integers

CONSTANTS
  Owners,        \* sessions
  Keys,          \* idempotency keys
  None,
  NoFile, Torn,  \* no file; a write that was cut off
  MaxMutations   \* bound: mutations ever begun

VARIABLES
  modes,      \* continuation.json: session -> record or None
  copy,       \* continuation.json.bak
  mutation,   \* the one under way
  possible,   \* session -> what its record may be: what its last call to be answered made it,
              \* or a later one that was written and not answered
  mutations,
  forgotten   \* a mutation has read a file that was cut off

vars == <<modes, copy, mutation, possible, mutations, forgotten>>

Modes == {"running", "stopped", "handoff"}
Records == [mode : Modes, key : Keys \cup {None}, terminal : BOOLEAN]
ModeCalls == [session : Owners, mode : Modes, key : Keys \cup {None}]
Nobody == [s \in Owners |-> None]
Rest == [step |-> "idle", session |-> None, new |-> Nobody]

Init ==
  /\ modes = NoFile /\ copy = NoFile
  /\ mutation = Rest /\ mutations = 0
  /\ possible = [s \in Owners |-> {None}] /\ forgotten = FALSE

At(step) == mutation.step = step
Go(step) == mutation' = [mutation EXCEPT !.step = step]

(* readStore: a file that cannot be parsed counts as empty.                *)
readStore(f) == IF f \in {NoFile, Torn} THEN Nobody ELSE f

(* setSessionMode: a call with the key of the last one changes nothing.    *)
setSessionMode(records, call) ==
  LET current == records[call.session]
  IN IF current # None /\ call.key # None /\ current.key = call.key THEN records
     ELSE [records EXCEPT ![call.session] =
             [mode |-> call.mode, key |-> call.key, terminal |-> current # None /\ current.terminal]]

setSessionTmuxMetadata(records, s, terminal) ==
  [records EXCEPT ![s] =
     IF @ = None THEN [mode |-> "running", key |-> None, terminal |-> terminal]
     ELSE [@ EXCEPT !.terminal = terminal]]

-----------------------------------------------------------------------------
(* The file is read and the change made; what was read is written back     *)
(* even when nothing has changed.                                          *)
Mutate(s, new) ==
  /\ At("idle") /\ mutations < MaxMutations
  /\ mutations' = mutations + 1
  /\ mutation' = [step |-> "copy", session |-> s, new |-> new]
  /\ forgotten' = (forgotten \/ modes = Torn)
  /\ UNCHANGED <<modes, copy, possible>>

SetMode(call) == Mutate(call.session, setSessionMode(readStore(modes), call))

NoteTerminal(s) ==
  \E terminal \in BOOLEAN : Mutate(s, setSessionTmuxMetadata(readStore(modes), s, terminal))

(* An error before the file is opened leaves it alone.                     *)
Copy ==
  /\ At("copy")
  /\ \/ modes = NoFile /\ Go("open") /\ UNCHANGED copy
     \/ modes # NoFile /\ copy' = modes /\ Go("open")
     \/ modes # NoFile /\ copy' = Torn /\ mutation' = Rest
  /\ UNCHANGED <<modes, possible, mutations, forgotten>>

Open ==
  /\ At("open")
  /\ modes' = Torn
  /\ mutation' = [mutation EXCEPT !.step = IF modes = NoFile THEN "create" ELSE "write"]
  /\ UNCHANGED <<copy, possible, mutations, forgotten>>

(* A file that was not there before is not cleaned up after an error.      *)
Write ==
  /\ mutation.step \in {"create", "write"}
  /\ \/ /\ modes' = mutation.new /\ Go("delete")
        /\ possible' = [possible EXCEPT ![mutation.session] = @ \cup {mutation.new[mutation.session]}]
     \/ /\ mutation' = IF At("write") THEN [mutation EXCEPT !.step = "restore"] ELSE Rest
        /\ UNCHANGED <<modes, possible>>
  /\ UNCHANGED <<copy, mutations, forgotten>>

(* The copy goes, and the caller is answered; if it does not go, the old   *)
(* file comes back.                                                        *)
DeleteCopy ==
  /\ At("delete")
  /\ \/ /\ copy' = NoFile /\ mutation' = Rest
        /\ possible' = [possible EXCEPT ![mutation.session] = {mutation.new[mutation.session]}]
     \/ copy # NoFile /\ Go("reopen") /\ UNCHANGED <<copy, possible>>
  /\ UNCHANGED <<modes, mutations, forgotten>>

Reopen ==
  /\ At("reopen")
  /\ modes' = Torn /\ Go("restore")
  /\ UNCHANGED <<copy, possible, mutations, forgotten>>

(* Mutant of Restored: the copy goes, and the file stays as it is.         *)
CopyDropped == copy' = NoFile /\ UNCHANGED modes

(* The copy may stay behind.                                               *)
Restored == modes' = copy /\ copy' \in {copy, NoFile}

Restore ==
  /\ At("restore")
  /\ Restored \/ UNCHANGED <<modes, copy>>
  /\ mutation' = Rest
  /\ UNCHANGED <<possible, mutations, forgotten>>

Killed ==
  /\ ~At("idle")
  /\ mutation' = Rest
  /\ UNCHANGED <<modes, copy, possible, mutations, forgotten>>

Next ==
  \/ (\E call \in ModeCalls : SetMode(call)) \/ (\E s \in Owners : NoteTerminal(s))
  \/ Copy \/ Open \/ Write \/ DeleteCopy \/ Reopen \/ Restore \/ Killed

Spec == Init /\ [][Next]_vars
-----------------------------------------------------------------------------
Contents == [Owners -> Records \cup {None}]

(* Files hold records of sessions, or were never written or cut off.       *)
TypeOK ==
  /\ modes \in {NoFile, Torn} \cup Contents /\ copy \in {NoFile, Torn} \cup Contents
  /\ possible \in [Owners -> SUBSET (Records \cup {None})] /\ mutation.new \in Contents
  /\ mutations \in 0..MaxMutations

(* A session stays stopped, or handed off, as its last call was told: after*)
(* any sequence of calls of all sessions, failed writes and kills, the     *)
(* file or, if it was cut off, the copy beside it has every session's      *)
(* record - until a call reads a file that was cut off.                    *)
Kept(f) == \A s \in Owners : readStore(f)[s] \in possible[s]
ModesKept == forgotten \/ (IF modes = Torn THEN Kept(copy) ELSE Kept(modes))
=============================================================================
