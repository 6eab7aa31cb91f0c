----------------------------- MODULE LspManager -----------------------------
(***************************************************************************)
(* The language server manager and client, src/packages/lsp/src/client.ts, *)
(* as the tools use them through withLspClient (utils.ts): the clients of  *)
(* one (root, server) key, their reference counts, replacement of a dead   *)
(* client, idle cleanup, requests with their timeout, and documents opened *)
(* on first use.  A step ends at an await; a caller is one call of a tool. *)
(* Left out: the contents of requests and answers, diagnostics pushed by   *)
(* the server, requests of the server.                                     *)
(***************************************************************************)
EXTENDS Integers, FiniteSets

CONSTANTS
  Callers,     \* tool calls that may be under way at once
  Files,       \* the files they ask about
  MaxCalls,    \* bound: tool calls ever made; a call creates at most one client
  MaxExits     \* bound: server processes that exit by themselves

ASSUME LspAssumption ==
  Callers # {} /\ IsFiniteSet(Callers) /\ Files # {} /\ MaxCalls \in Nat \ {0} /\ MaxExits \in Nat

Clients == 1..MaxCalls
Ids == 1..(MaxCalls + 1)

VARIABLES
  slot,     \* the client in the map, 0 if there is none
  refs,     \* client -> refCount of its entry
  gate,     \* clients whose entry has an initPromise
  ready,    \* client -> outcome of start and initialize
  proc,     \* client -> its process
  opened,   \* client -> openedFiles
  known,    \* client -> files the process was told of by didOpen
  counter,  \* client -> requestIdCounter
  pending,  \* client -> requests that wait for an answer
  inbox,    \* client -> requests the process may still answer
  act,      \* caller -> its call
  calls,    \* calls made so far
  exits,    \* processes that have exited by themselves
  timer,    \* the cleanup timer runs
  hurt      \* a call lost its server or could not start it, or two replaced one client

entry == <<slot, refs, gate, ready>>
wire == <<counter, pending, inbox>>
docs == <<opened, known>>
budget == <<calls, exits>>
vars == <<entry, proc, docs, wire, act, budget, timer, hurt>>

Idle == [pc |-> "idle", client |-> 0, file |-> CHOOSE f \in Files : TRUE, call |-> 0, got |-> 0]

Init ==
  /\ slot = 0 /\ refs = [i \in Clients |-> 0] /\ gate = {}
  /\ ready = [i \in Clients |-> "no"]
  /\ proc = [i \in Clients |-> "none"]
  /\ opened = [i \in Clients |-> {}] /\ known = [i \in Clients |-> {}]
  /\ counter = [i \in Clients |-> 0]
  /\ pending = [i \in Clients |-> {}] /\ inbox = [i \in Clients |-> {}]
  /\ act = [a \in Callers |-> Idle]
  /\ calls = 0 /\ exits = 0 /\ timer = TRUE /\ hurt = FALSE

-----------------------------------------------------------------------------
isAlive(i) == proc[i] = "up"
At(a, pc) == act[a].pc = pc
Mine(a) == act[a].client
Go(a, pc) == act' = [act EXCEPT ![a].pc = pc]
Busy == {a \in Callers : ~At(a, "idle")}
Holders(i) == {a \in Callers : Mine(a) = i /\ act[a].pc \in {"open", "reading", "opening", "asked", "release"}}

(* stop(): the process is told to leave and killed; its stdout closes later. *)
Stopped(p) == IF p = "up" THEN "killed" ELSE p

-----------------------------------------------------------------------------
(* getClient                                                               *)

(* A new client, its process and its entry.                                *)
Create(a, call, file) ==
  LET i == CHOOSE j \in Clients : proc[j] = "none" /\ \A k \in 1..(j - 1) : proc[k] # "none"
  IN /\ \E j \in Clients : proc[j] = "none"
     /\ slot' = i /\ refs' = [refs EXCEPT ![i] = 1] /\ gate' = gate \cup {i}
     /\ act' = [act EXCEPT ![a] = [pc |-> "starting", client |-> i, file |-> file, call |-> call, got |-> 0]]
     /\ UNCHANGED ready

(* Mutant of Take: the reference is not counted.                           *)
TakeUncounted(a, i, call, file) ==
  /\ act' = [act EXCEPT ![a] = [pc |-> IF isAlive(i) THEN "open" ELSE "replace",
                                client |-> i, file |-> file, call |-> call, got |-> 0]]
  /\ UNCHANGED <<entry, proc>>

(* The entry has no initPromise, or no longer waits for it.                *)
Take(a, i, call, file) ==
  /\ act' = [act EXCEPT ![a] = [pc |-> IF isAlive(i) THEN "open" ELSE "replace",
                                client |-> i, file |-> file, call |-> call, got |-> 0]]
  /\ refs' = IF isAlive(i) THEN [refs EXCEPT ![i] = @ + 1] ELSE refs
  /\ UNCHANGED <<slot, gate, ready, proc>>

Begin(a, f) ==
  /\ At(a, "idle") /\ calls < MaxCalls
  /\ calls' = calls + 1
  /\ \/ /\ slot = 0
        /\ Create(a, calls + 1, f)
        /\ proc' = [proc EXCEPT ![slot'] = "up"]
     \/ /\ slot # 0 /\ slot \in gate
        /\ act' = [act EXCEPT ![a] = [pc |-> "waiting", client |-> slot, file |-> f, call |-> calls + 1, got |-> 0]]
        /\ UNCHANGED <<entry, proc>>
     \/ /\ slot # 0 /\ slot \notin gate
        /\ Take(a, slot, calls + 1, f)
  /\ UNCHANGED <<docs, wire, exits, timer, hurt>>

(* The initPromise of the entry found has settled; its failure ends the    *)
(* call, the entry stays.                                                  *)
InitAwaited(a) ==
  /\ At(a, "waiting")
  /\ \/ /\ ready[Mine(a)] = "failed"
        /\ act' = [act EXCEPT ![a] = Idle]
        /\ UNCHANGED <<entry, proc>>
     \/ /\ ready[Mine(a)] = "yes"
        /\ Take(a, Mine(a), act[a].call, act[a].file)
  /\ UNCHANGED <<docs, wire, budget, timer, hurt>>

(* The dead client has been stopped: whatever entry is there now goes.     *)
Replace(a) ==
  /\ At(a, "replace")
  /\ Create(a, act[a].call, act[a].file)
  /\ proc' = [proc EXCEPT ![slot'] = "up"]
  /\ hurt' = (hurt \/ slot \notin {0, Mine(a)})
  /\ UNCHANGED <<docs, wire, budget, timer>>

-----------------------------------------------------------------------------
(* Mutant of Send: ids of settled requests are used again.                 *)
SendReusingIds(a, kind, pc) ==
  LET i == Mine(a)
      id == Cardinality(pending[i]) + 1
  IN /\ counter' = [counter EXCEPT ![i] = id]
     /\ pending' = [pending EXCEPT ![i] = @ \cup {[id |-> id, who |-> a]}]
     /\ inbox' = [inbox EXCEPT ![i] =
          @ \cup {[id |-> id, call |-> act[a].call, kind |-> kind, file |-> act[a].file]}]
     /\ Go(a, pc)

(* send: the caller's pc when the promise is there.                        *)
Send(a, kind, pc) ==
  LET i == Mine(a)
      id == counter[i] + 1
  IN /\ counter' = [counter EXCEPT ![i] = id]
     /\ pending' = [pending EXCEPT ![i] = @ \cup {[id |-> id, who |-> a]}]
     /\ inbox' = [inbox EXCEPT ![i] =
          @ \cup {[id |-> id, call |-> act[a].call, kind |-> kind, file |-> act[a].file]}]
     /\ Go(a, pc)

(* start or initialize fails: getClient throws before withLspClient's try, *)
(* so nothing is released.                                                 *)
InitFails(a) ==
  /\ ready' = [ready EXCEPT ![Mine(a)] = "failed"]
  /\ act' = [act EXCEPT ![a] = Idle]
  /\ hurt' = TRUE
  /\ UNCHANGED <<slot, refs, gate>>

(* 100 ms after spawn: the check of exitCode, then initialize.             *)
Started(a) ==
  /\ At(a, "starting")
  /\ \/ isAlive(Mine(a)) /\ Send(a, "initialize", "greeting") /\ UNCHANGED <<entry, hurt>>
     \/ ~isAlive(Mine(a)) /\ InitFails(a) /\ UNCHANGED wire
  /\ UNCHANGED <<proc, docs, budget, timer>>

(* initialize returns 300 ms after the answer.  The entry that is in the   *)
(* map by now loses its initPromise.                                       *)
InitDone(a) ==
  /\ At(a, "settling")
  /\ ready' = [ready EXCEPT ![Mine(a)] = "yes"]
  /\ gate' = gate \ {slot}
  /\ Go(a, "open")
  /\ UNCHANGED <<slot, refs, proc, docs, wire, budget, timer, hurt>>

-----------------------------------------------------------------------------
(* openFile, then the request of the tool.                                 *)
Request(a) ==
  \/ isAlive(Mine(a)) /\ Send(a, "ask", "asked")
  \/ ~isAlive(Mine(a)) /\ Go(a, "release") /\ UNCHANGED wire

(* Mutant of OpenFile: the file is marked open before its text is read.    *)
OpenFileEarly(a) ==
  /\ At(a, "open")
  /\ \/ act[a].file \in opened[Mine(a)] /\ Request(a) /\ UNCHANGED docs
     \/ /\ act[a].file \notin opened[Mine(a)]
        /\ opened' = [opened EXCEPT ![Mine(a)] = @ \cup {act[a].file}]
        /\ Go(a, "reading")
        /\ UNCHANGED <<known, wire>>
  /\ UNCHANGED <<entry, proc, budget, timer, hurt>>

OpenFile(a) ==
  /\ At(a, "open")
  /\ \/ act[a].file \in opened[Mine(a)] /\ Request(a)
     \/ act[a].file \notin opened[Mine(a)] /\ Go(a, "reading") /\ UNCHANGED wire
  /\ UNCHANGED <<entry, proc, docs, budget, timer, hurt>>

(* The text is read; notify drops what it has for a process that is gone.  *)
DidOpen(a) ==
  LET i == Mine(a) IN
  /\ At(a, "reading")
  /\ known' = IF isAlive(i) THEN [known EXCEPT ![i] = @ \cup {act[a].file}] ELSE known
  /\ opened' = [opened EXCEPT ![i] = @ \cup {act[a].file}]
  /\ Go(a, "opening")
  /\ UNCHANGED <<entry, proc, wire, budget, timer, hurt>>

(* Mutant of ReadFails: nothing is released, as without finally.           *)
ReadFailsHolding(a) ==
  /\ At(a, "reading")
  /\ act' = [act EXCEPT ![a] = Idle]
  /\ UNCHANGED <<entry, proc, docs, wire, budget, timer, hurt>>

ReadFails(a) ==
  /\ At(a, "reading")
  /\ Go(a, "release")
  /\ UNCHANGED <<entry, proc, docs, wire, budget, timer, hurt>>

Ask(a) ==
  /\ At(a, "opening")
  /\ Request(a)
  /\ UNCHANGED <<entry, proc, docs, budget, timer, hurt>>

(* Mutant of Release: the count is not checked.                            *)
ReleaseUnchecked(a) ==
  /\ At(a, "release")
  /\ refs' = IF slot # 0 THEN [refs EXCEPT ![slot] = @ - 1] ELSE refs
  /\ act' = [act EXCEPT ![a] = Idle]
  /\ UNCHANGED <<slot, gate, ready, proc, docs, wire, budget, timer, hurt>>

(* releaseClient finds the entry by key: it may not be the one taken.      *)
Release(a) ==
  /\ At(a, "release")
  /\ refs' = IF slot # 0 /\ refs[slot] > 0 THEN [refs EXCEPT ![slot] = @ - 1] ELSE refs
  /\ act' = [act EXCEPT ![a] = Idle]
  /\ UNCHANGED <<slot, gate, ready, proc, docs, wire, budget, timer, hurt>>

-----------------------------------------------------------------------------
(* What becomes of a request.                                              *)

(* An answer, late or not: processBuffer settles the request of that id.   *)
Answer(i, m) ==
  /\ proc[i] \in {"up", "killed"} /\ m \in inbox[i]
  /\ inbox' = [inbox EXCEPT ![i] = @ \ {m}]
  /\ pending' = [pending EXCEPT ![i] = {p \in @ : p.id # m.id}]
  /\ act' = [a \in Callers |->
       IF \E p \in pending[i] : p.id = m.id /\ p.who = a
       THEN [act[a] EXCEPT !.pc = IF @ = "greeting" THEN "settling" ELSE "release",
                           !.got = m.call]
       ELSE act[a]]
  /\ UNCHANGED <<entry, proc, docs, counter, budget, timer, hurt>>

(* The caller's promise is rejected: an error answer, the timeout.         *)
Fail(a) == IF At(a, "greeting") THEN InitFails(a)
           ELSE Go(a, "release") /\ UNCHANGED <<entry, hurt>>

(* Mutant of Timeout: the request is forgotten, its caller is not told.    *)
TimeoutSilent(i, p) ==
  /\ p \in pending[i]
  /\ pending' = [pending EXCEPT ![i] = @ \ {p}]
  /\ UNCHANGED <<entry, act, hurt, proc, docs, counter, inbox, budget, timer>>

Timeout(i, p) ==
  /\ p \in pending[i]
  /\ pending' = [pending EXCEPT ![i] = @ \ {p}]
  /\ Fail(p.who)
  /\ UNCHANGED <<proc, docs, counter, inbox, budget, timer>>

ErrorAnswer(i, m) ==
  /\ proc[i] \in {"up", "killed"} /\ m \in inbox[i]
  /\ inbox' = [inbox EXCEPT ![i] = @ \ {m}]
  /\ \E p \in pending[i] :
       p.id = m.id /\ pending' = [pending EXCEPT ![i] = @ \ {p}] /\ Fail(p.who)
  /\ UNCHANGED <<proc, docs, counter, budget, timer>>

(* The process ends and its stdout closes: rejectAllPending.               *)
Exit(i) ==
  LET failed == {a \in Callers : \E p \in pending[i] : p.who = a} IN
  /\ \/ proc[i] = "up" /\ exits < MaxExits /\ exits' = exits + 1
        /\ hurt' = (hurt \/ \E a \in Busy : Mine(a) = i)
     \/ proc[i] = "killed" /\ UNCHANGED exits
        /\ hurt' = (hurt \/ \E a \in failed : At(a, "greeting"))
  /\ proc' = [proc EXCEPT ![i] = "gone"]
  /\ pending' = [pending EXCEPT ![i] = {}] /\ inbox' = [inbox EXCEPT ![i] = {}]
  /\ act' = [a \in Callers |->
       IF a \notin failed THEN act[a]
       ELSE IF At(a, "greeting") THEN Idle ELSE [act[a] EXCEPT !.pc = "release"]]
  /\ ready' = IF \E a \in failed : At(a, "greeting") THEN [ready EXCEPT ![i] = "failed"] ELSE ready
  /\ UNCHANGED <<slot, refs, gate, docs, counter, calls, timer>>

-----------------------------------------------------------------------------
(* cleanupIdleClients: unused for five minutes, ten times what a call      *)
(* takes, so no call is under way.                                         *)
CleanupIdle ==
  /\ timer /\ slot # 0 /\ refs[slot] = 0 /\ Busy = {}
  /\ proc' = [proc EXCEPT ![slot] = Stopped(@)]
  /\ slot' = 0
  /\ UNCHANGED <<refs, gate, ready, docs, wire, act, budget, timer, hurt>>

(* stopAll, on a signal: also while calls are under way.                   *)
StopAll ==
  /\ timer
  /\ proc' = IF slot = 0 THEN proc ELSE [proc EXCEPT ![slot] = Stopped(@)]
  /\ slot' = 0 /\ timer' = FALSE
  /\ hurt' = (hurt \/ Busy # {})
  /\ UNCHANGED <<refs, gate, ready, docs, wire, act, budget>>

Step(a) == InitAwaited(a) \/ Replace(a) \/ Started(a) \/ InitDone(a) \/ OpenFile(a) \/ DidOpen(a)
           \/ ReadFails(a) \/ Ask(a) \/ Release(a)

Next ==
  \/ \E a \in Callers : Step(a) \/ \E f \in Files : Begin(a, f)
  \/ \E i \in Clients :
       \/ Exit(i)
       \/ \E m \in inbox[i] : Answer(i, m) \/ ErrorAnswer(i, m)
       \/ \E p \in pending[i] : Timeout(i, p)
  \/ CleanupIdle \/ StopAll

(* Awaits return, the timer of a request and the cleanup timer go off.     *)
Fairness ==
  /\ \A a \in Callers : WF_vars(Step(a))
  /\ \A i \in Clients : WF_vars(\E p \in pending[i] : Timeout(i, p))
  /\ WF_vars(CleanupIdle)

Spec == Init /\ [][Next]_vars /\ Fairness

-----------------------------------------------------------------------------
TypeOK ==
  /\ slot \in 0..MaxCalls /\ refs \in [Clients -> 0..MaxCalls] /\ gate \subseteq Clients
  /\ ready \in [Clients -> {"no", "yes", "failed"}]
  /\ proc \in [Clients -> {"none", "up", "killed", "gone"}]
  /\ opened \in [Clients -> SUBSET Files] /\ known \in [Clients -> SUBSET Files]
  /\ counter \in [Clients -> 0..(MaxCalls + 1)]
  /\ pending \in [Clients -> SUBSET [id : Ids, who : Callers]]
  /\ inbox \in [Clients -> SUBSET [id : Ids, call : 1..MaxCalls, kind : {"initialize", "ask"}, file : Files]]
  /\ act \in [Callers ->
       [pc : {"idle", "waiting", "replace", "starting", "greeting", "settling", "open", "reading",
              "opening", "asked", "release"},
        client : 0..MaxCalls, file : Files, call : 0..MaxCalls, got : 0..MaxCalls]]
  /\ calls \in 0..MaxCalls /\ exits \in 0..MaxExits /\ timer \in BOOLEAN /\ hurt \in BOOLEAN

(* As long as no call lost its server, failed to start it or replaced a    *)
(* client that another one had replaced, the count of the entry is the     *)
(* number of calls that use its client (one that starts it included), they *)
(* all use that one, and no other process runs unreachable: what cleanup   *)
(* stops and what it spares depends on it.                                 *)
OneCountedServer ==
  hurt \/
    /\ \A i \in Clients : proc[i] = "up" => i = slot
    /\ slot # 0 => refs[slot] =
         Cardinality(Holders(slot)
                     \cup {a \in Callers : Mine(a) = slot /\ act[a].pc \in {"starting", "greeting", "settling"}})
    /\ \A a \in Callers : Holders(Mine(a)) # {} => Mine(a) = slot

(* A process is asked about a file only after it was told its text, also   *)
(* when several calls open the file at once or the server dies between;    *)
(* and, unless two calls replaced one client, only after initialize.       *)
OpenBeforeAsked ==
  \A i \in Clients : \A m \in inbox[i] : m.kind = "ask" =>
    m.file \in known[i] /\ (hurt \/ ready[i] = "yes")

(* A call gets the answer to its own request, although answers come in any *)
(* order, come after the timeout of their request, or not at all.          *)
OwnAnswer == \A a \in Callers : act[a].got \in {0, act[a].call}

(* Every call of a tool ends, whatever servers do: a process that does not *)
(* answer, dies, or is stopped by somebody else under the call.            *)
CallsEnd == \A a \in Callers : ~At(a, "idle") ~> At(a, "idle")

(* No process is left behind: once calls stop coming, a server that runs   *)
(* is stopped, unless a call lost its server (its count is then lost too)  *)
(* or the cleanup timer was ended.                                         *)
UnusedServersStop ==
  \A i \in Clients : proc[i] = "up" ~> (proc[i] # "up" \/ hurt \/ ~timer)
=============================================================================
