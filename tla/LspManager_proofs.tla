-------------------------- MODULE LspManager_proofs --------------------------
(***************************************************************************)
(* The language server manager for every number of callers, files, calls   *)
(* and server exits: types, one counted server, documents opened before    *)
(* they are asked about, and answers to the caller's own request.          *)
(***************************************************************************)
EXTENDS LspManager, FiniteSetTheorems, WellFoundedInduction, TLAPS

Starters == {"starting", "greeting", "settling"}
Using    == Starters \cup {"open", "reading", "opening", "asked", "release"}
PCs      == Using \cup {"idle", "waiting", "replace"}

(* The calls that use client i, that have not been counted yet, and that   *)
(* have not made their request yet; who starts client i.                   *)
Users(i) == {a \in Callers : Mine(a) = i /\ act[a].pc \in Using}
Untaken  == {a \in Callers : act[a].pc \in {"waiting", "replace"}}
Unasked  == {a \in Callers : act[a].pc \in
               {"waiting", "replace", "open", "reading", "opening"} \cup Starters}
Starting(i) == \E a \in Callers : At(a, "starting") /\ Mine(a) = i

Call == [pc : PCs, client : 0..MaxCalls, file : Files, call : 0..MaxCalls, got : 0..MaxCalls]
Ask1 == [id : Nat \ {0}, who : Callers]
Mail == [id : Nat \ {0}, call : 1..MaxCalls, kind : {"initialize", "ask"}, file : Files]

(* The types without the bounds that rest on Counts.                       *)
Shape ==
  /\ slot \in 0..MaxCalls /\ refs \in [Clients -> Nat] /\ gate \subseteq Clients
  /\ ready \in [Clients -> {"no", "yes", "failed"}]
  /\ proc \in [Clients -> {"none", "up", "killed", "gone"}]
  /\ opened \in [Clients -> SUBSET Files] /\ known \in [Clients -> SUBSET Files]
  /\ counter \in [Clients -> Nat]
  /\ pending \in [Clients -> SUBSET Ask1] /\ inbox \in [Clients -> SUBSET Mail]
  /\ act \in [Callers -> Call]
  /\ calls \in 0..MaxCalls /\ exits \in 0..MaxExits /\ timer \in BOOLEAN /\ hurt \in BOOLEAN

(* Nothing is known of a client that was not created, and a call under way *)
(* has a client that was.                                                  *)
Created ==
  /\ \A i \in Clients : proc[i] = "none" =>
       /\ refs[i] = 0 /\ counter[i] = 0 /\ ready[i] = "no"
       /\ pending[i] = {} /\ inbox[i] = {} /\ opened[i] = {} /\ known[i] = {}
       /\ slot # i /\ \A a \in Callers : Mine(a) # i
  /\ \A a \in Callers : act[a].pc # "idle" => Mine(a) \in Clients /\ act[a].call \in 1..MaxCalls

(* Requests: ids are fresh, a pending one belongs to the call that waits   *)
(* for it, and the message with its id carries that call.                  *)
Requests ==
  \A i \in Clients :
    /\ \A p \in pending[i] :
         /\ p.id <= counter[i] /\ Mine(p.who) = i
         /\ act[p.who].pc \in {"greeting", "asked"}
    /\ \A m \in inbox[i] : m.id <= counter[i]
    /\ \A p, q \in pending[i] : p.id = q.id \/ p.who = q.who => p = q
    /\ \A m, n \in inbox[i] : m.id = n.id => m = n
    /\ \A m \in inbox[i], p \in pending[i] : m.id = p.id => m.call = act[p.who].call

(* Counts: what the bounds of refs and counter rest on.                    *)
Counts ==
  /\ Cardinality(Unasked) <= calls
  /\ \A a, b \in Callers :
       act[a].pc = "starting" /\ act[b].pc = "starting" /\ Mine(a) = Mine(b) => a = b
  /\ \A i \in Clients :
       /\ refs[i] + Cardinality(Untaken) <= calls
       /\ counter[i] + Cardinality(Unasked) <= calls + (IF Starting(i) THEN 0 ELSE 1)

(* Documents: what is marked open was told to a process that is up.        *)
Documents ==
  /\ \A i \in Clients : proc[i] = "up" => opened[i] \subseteq known[i]
  /\ \A a \in Callers : act[a].pc = "opening" => act[a].file \in opened[Mine(a)]
  /\ \A i \in Clients : \A m \in inbox[i] : m.kind = "ask" => m.file \in known[i]

(* As long as no call lost its server.                                     *)
Calm ==
  hurt \/
    /\ \A i \in Clients : proc[i] = "up" => i = slot
    /\ \A a \in Callers : act[a].pc \in Using \cup {"waiting"} =>
         Mine(a) = slot /\ proc[slot] = "up"
    /\ \A a \in Callers : act[a].pc = "replace" => proc[Mine(a)] # "up"
    /\ slot # 0 => refs[slot] = Cardinality(Users(slot))
    /\ slot # 0 /\ slot \notin gate => ready[slot] = "yes"
    /\ slot # 0 /\ slot \in gate => \E a \in Callers : Mine(a) = slot /\ act[a].pc \in Starters
    /\ \A a \in Callers : act[a].pc \in Using \ Starters => ready[Mine(a)] = "yes"
    /\ \A i \in Clients : \A m \in inbox[i] : m.kind = "ask" => ready[i] = "yes"

Inv == Shape /\ Created /\ Requests /\ Counts /\ Documents /\ Calm /\ OwnAnswer

-----------------------------------------------------------------------------
(* Numbers and sets.                                                       *)

(* Every non-empty set of naturals has a least element: the form in which  *)
(* induction is used below.                                                *)
LEMMA Least ==
  ASSUME NEW T \in SUBSET Nat, T # {}
  PROVE  \E n \in T : \A m \in T : n <= m
<1> DEFINE R == {ss \in Nat \X Nat : ss[1] < ss[2]}
<1>1. IsWellFoundedOn(R, Nat)
  BY NatLessThanWellFounded DEF OpToRel
<1>2. PICK n \in T : \A m \in T : <<m, n>> \notin R
  <2> HIDE DEF R
  <2> QED BY <1>1, WFMin
<1>3. \A m \in T : <<m, n>> \notin R => n <= m
  OBVIOUS
<1> QED BY <1>2, <1>3

(* A set of callers is finite, and its size is a number.                   *)
LEMMA FewCallers == \A S \in SUBSET Callers : IsFiniteSet(S) /\ Cardinality(S) \in Nat
  BY LspAssumption, FS_Subset, FS_CardinalityType DEF LspAssumption

(* A part has no more elements, and fewer when an element is missing.      *)
LEMMA Smaller ==
  ASSUME NEW S \in SUBSET Callers, NEW T \in SUBSET Callers
  PROVE  /\ S \subseteq T => Cardinality(S) <= Cardinality(T)
         /\ \A x \in T : S \subseteq T \ {x} => Cardinality(S) <= Cardinality(T) - 1
<1>1. S \subseteq T => Cardinality(S) <= Cardinality(T)
  BY FewCallers, FS_Subset
<1>2. ASSUME NEW x \in T, S \subseteq T \ {x} PROVE Cardinality(S) <= Cardinality(T) - 1
  <2>1. Cardinality(T \ {x}) = Cardinality(T) - 1
    BY FewCallers, FS_RemoveElement
  <2>2. IsFiniteSet(T \ {x}) /\ Cardinality(T \ {x}) \in Nat
    BY FewCallers
  <2>3. Cardinality(S) <= Cardinality(T \ {x})
    BY <1>2, <2>2, FS_Subset
  <2> QED BY <2>1, <2>3
<1> QED BY <1>1, <1>2

(* One element more, and one less.                                         *)
LEMMA OneMore ==
  ASSUME NEW S \in SUBSET Callers, NEW T \in SUBSET Callers, NEW x \in Callers
  PROVE  /\ x \notin T /\ S = T \cup {x} => Cardinality(S) = Cardinality(T) + 1
         /\ x \in T /\ S = T \ {x} => Cardinality(S) = Cardinality(T) - 1
         /\ S \subseteq T \cup {x} => Cardinality(S) <= Cardinality(T) + 1
<1>1. x \notin T /\ S = T \cup {x} => Cardinality(S) = Cardinality(T) + 1
  BY FewCallers, FS_AddElement
<1>2. x \in T /\ S = T \ {x} => Cardinality(S) = Cardinality(T) - 1
  BY FewCallers, FS_RemoveElement
<1>3. ASSUME S \subseteq T \cup {x} PROVE Cardinality(S) <= Cardinality(T) + 1
  <2>1. Cardinality(T \cup {x}) \in {Cardinality(T), Cardinality(T) + 1}
    BY FewCallers, FS_AddElement
  <2>2. T \cup {x} \in SUBSET Callers
    OBVIOUS
  <2>3. Cardinality(S) <= Cardinality(T \cup {x})
    BY <1>3, <2>2, Smaller
  <2> QED BY <2>1, <2>3, FewCallers
<1> QED BY <1>1, <1>2, <1>3

-----------------------------------------------------------------------------
(* Steps of one caller.                                                    *)

(* Caller a is now at pc with client i, file f, call c and answer g; the   *)
(* others are where they were.                                             *)
Becomes(a, pc, i, f, c, g) ==
  /\ act' \in [Callers -> Call]
  /\ act'[a].pc = pc /\ act'[a].client = i /\ act'[a].file = f
  /\ act'[a].call = c /\ act'[a].got = g
  /\ \A b \in Callers : b # a => act'[b] = act[b]

(* A caller becomes what its record says.                                  *)
LEMMA Became ==
  ASSUME Shape, NEW a \in Callers, NEW pc \in PCs, NEW i \in 0..MaxCalls, NEW f \in Files,
         NEW c \in 0..MaxCalls, NEW g \in 0..MaxCalls,
         act' = [act EXCEPT ![a] = [pc |-> pc, client |-> i, file |-> f, call |-> c, got |-> g]]
  PROVE  Becomes(a, pc, i, f, c, g)
<1> DEFINE r == [pc |-> pc, client |-> i, file |-> f, call |-> c, got |-> g]
<1>1. r \in Call
  BY DEF Call
<1>2. r.pc = pc /\ r.client = i /\ r.file = f /\ r.call = c /\ r.got = g
  OBVIOUS
<1> HIDE DEF r
<1>3. act' \in [Callers -> Call] /\ act'[a] = r /\ \A b \in Callers : b # a => act'[b] = act[b]
  BY <1>1 DEF Shape, r
<1> QED BY <1>2, <1>3 DEF Becomes

(* A caller goes on: only its place changes.                               *)
LEMMA Went ==
  ASSUME Shape, NEW a \in Callers, NEW pc \in PCs, Go(a, pc)
  PROVE  Becomes(a, pc, Mine(a), act[a].file, act[a].call, act[a].got)
<1>1. act[a] \in Call
  BY DEF Shape
<1>2. [act[a] EXCEPT !.pc = pc] =
        [pc |-> pc, client |-> act[a].client, file |-> act[a].file, call |-> act[a].call, got |-> act[a].got]
  BY <1>1 DEF Call
<1>3. act' = [act EXCEPT ![a] = [pc |-> pc, client |-> act[a].client, file |-> act[a].file,
                                 call |-> act[a].call, got |-> act[a].got]]
  BY <1>2 DEF Go
<1>4. /\ act[a].client \in 0..MaxCalls /\ act[a].file \in Files
      /\ act[a].call \in 0..MaxCalls /\ act[a].got \in 0..MaxCalls
  BY <1>1 DEF Call
<1> QED BY <1>3, <1>4, Became DEF Mine

(* A caller is done.                                                       *)
LEMMA Ended ==
  ASSUME Shape, NEW a \in Callers, act' = [act EXCEPT ![a] = Idle]
  PROVE  Becomes(a, "idle", 0, Idle.file, 0, 0)
<1>1. Idle.file \in Files /\ Idle = [pc |-> "idle", client |-> 0, file |-> Idle.file, call |-> 0, got |-> 0]
  BY LspAssumption DEF Idle, LspAssumption
<1>2. "idle" \in PCs /\ 0 \in 0..MaxCalls
  BY LspAssumption DEF PCs, LspAssumption
<1>3. act' = [act EXCEPT ![a] = [pc |-> "idle", client |-> 0, file |-> Idle.file, call |-> 0, got |-> 0]]
  BY <1>1
<1> HIDE DEF Idle
<1> QED BY <1>1, <1>2, <1>3, Became

(* Requests stay what they are when a caller that has none pending moves.  *)
LEMMA RequestsKept ==
  ASSUME Shape, Requests, NEW a \in Callers, act[a].pc \notin {"greeting", "asked"},
         \A b \in Callers : b # a => act'[b] = act[b], UNCHANGED wire
  PROVE  Requests'
<1>1. \A i \in Clients : \A p \in pending[i] : p.who # a
  BY DEF Requests
<1>2. \A i \in Clients : \A p \in pending[i] : act'[p.who] = act[p.who]
  <2> SUFFICES ASSUME NEW i \in Clients, NEW p \in pending[i] PROVE act'[p.who] = act[p.who]
    OBVIOUS
  <2>1. p.who \in Callers
    BY DEF Shape, Ask1
  <2> QED BY <1>1, <2>1
<1>3. counter' = counter /\ pending' = pending /\ inbox' = inbox
  BY DEF wire
<1> QED BY <1>2, <1>3 DEF Requests, Mine

(* No caller comes nearer to its request by being counted, or to a start.  *)
Fades ==
  \A b \in Callers :
    \/ act'[b] = act[b]
    \/ act'[b].pc \in {"idle", "release"}
    \/ act'[b].pc = "settling" /\ act[b].pc \in Starters
    \/ act'[b].pc = "open" /\ act[b].pc = "settling"
    \/ act'[b].pc \in {"reading", "opening"} /\ act[b].pc \in {"open", "reading", "opening"}

(* Counts stay right when no call begins, nothing new is counted or asked, *)
(* and no client gets a second starter.                                    *)
LEMMA CountsKept ==
  ASSUME Shape, Shape', Counts, Fades, calls' = calls, counter' = counter,
         \A i \in Clients : refs'[i] <= refs[i]
  PROVE  Counts'
<1>1. Unasked' \subseteq Unasked /\ Untaken' \subseteq Untaken
  BY DEF Unasked, Untaken, Starters, Fades
<1>2. \A b \in Callers : act'[b].pc = "starting" => act'[b] = act[b]
  BY DEF Fades
<1>3. \A i \in Clients : Starting(i)' => Starting(i)
  BY <1>2 DEF Starting, At, Mine
<1>4. /\ Unasked \in SUBSET Callers /\ Untaken \in SUBSET Callers
      /\ Unasked' \in SUBSET Callers /\ Untaken' \in SUBSET Callers
  BY DEF Unasked, Untaken
<1>5. Cardinality(Unasked') <= Cardinality(Unasked) /\ Cardinality(Untaken') <= Cardinality(Untaken)
  BY <1>1, <1>4, Smaller
<1>6. /\ Cardinality(Unasked) \in Nat /\ Cardinality(Untaken) \in Nat
      /\ Cardinality(Unasked') \in Nat /\ Cardinality(Untaken') \in Nat
  BY <1>4, FewCallers
<1>7. Cardinality(Unasked)' = Cardinality(Unasked') /\ Cardinality(Untaken)' = Cardinality(Untaken')
  OBVIOUS
<1>8. calls \in Nat /\ \A i \in Clients : refs[i] \in Nat /\ refs'[i] \in Nat /\ counter[i] \in Nat
  BY DEF Shape
<1>9. \A i \in Clients :
        /\ refs'[i] + Cardinality(Untaken') <= calls'
        /\ counter'[i] + Cardinality(Unasked') <= calls' + (IF Starting(i)' THEN 0 ELSE 1)
  <2> SUFFICES ASSUME NEW i \in Clients
               PROVE  /\ refs'[i] + Cardinality(Untaken') <= calls'
                      /\ counter'[i] + Cardinality(Unasked') <= calls' + (IF Starting(i)' THEN 0 ELSE 1)
    OBVIOUS
  <2>1. /\ refs[i] + Cardinality(Untaken) <= calls
        /\ counter[i] + Cardinality(Unasked) <= calls + (IF Starting(i) THEN 0 ELSE 1)
    BY DEF Counts
  <2> HIDE DEF Starting
  <2> QED BY <2>1, <1>3, <1>5, <1>6, <1>8
<1>10. \A b, c \in Callers :
        act'[b].pc = "starting" /\ act'[c].pc = "starting" /\ Mine(b)' = Mine(c)' => b = c
  BY <1>2 DEF Counts, Mine
<1> QED BY <1>5, <1>6, <1>7, <1>8, <1>9, <1>10 DEF Counts

(* Answers stay the callers' own.                                          *)
LEMMA AnswersKept ==
  ASSUME OwnAnswer, NEW a \in Callers, NEW pc, NEW i, NEW f, NEW c, NEW g \in {0, c},
         Becomes(a, pc, i, f, c, g)
  PROVE  OwnAnswer'
  BY DEF OwnAnswer, Becomes

-----------------------------------------------------------------------------
(* Steps that only move their caller.                                      *)

(* Caller a leaves its place without a request of its own pending.         *)
PlainStep(a, pc) ==
  /\ Becomes(a, pc, Mine(a), act[a].file, act[a].call, act[a].got)
  /\ UNCHANGED <<entry, proc, docs, wire, budget, timer, hurt>>

LEMMA PlainKeeps ==
  ASSUME Inv, NEW a \in Callers,
         NEW pc \in {"reading", "release"}, PlainStep(a, pc),
         act[a].pc \in {"open", "reading", "opening"}
  PROVE  Inv'
<1>0. Shape /\ Created /\ Requests /\ Counts /\ Documents /\ Calm /\ OwnAnswer
  BY DEF Inv
<1>1. Becomes(a, pc, Mine(a), act[a].file, act[a].call, act[a].got)
      /\ UNCHANGED <<entry, proc, docs, wire, budget, timer, hurt>>
  BY DEF PlainStep
<1>2. Shape'
  BY <1>0, <1>1 DEF Shape, Becomes, entry, docs, wire, budget
<1>3. Created'
  BY <1>0, <1>1 DEF Created, Becomes, Mine, entry, docs, wire
<1>4. Requests'
  <2>1. UNCHANGED wire /\ \A b \in Callers : b # a => act'[b] = act[b]
    BY <1>1 DEF Becomes
  <2> QED BY <1>0, <2>1, RequestsKept
<1>5. Counts'
  <2>1. Fades
    BY <1>1 DEF Fades, Becomes
  <2>2. calls' = calls /\ counter' = counter /\ refs' = refs
    BY <1>1 DEF entry, wire, budget
  <2>3. \A i \in Clients : refs'[i] <= refs[i]
    BY <1>0, <2>2 DEF Shape
  <2> QED BY <1>0, <1>2, <2>1, <2>2, <2>3, CountsKept
<1>6. Documents'
  BY <1>0, <1>1 DEF Documents, Becomes, Mine, entry, docs, wire
<1>7. Calm'
  <2>1. \A i \in Clients : Users(i)' = Users(i)
    BY <1>1 DEF Users, Becomes, Mine, Using
  <2>2. slot \in Clients \cup {0}
    BY <1>0 DEF Shape, Clients
  <2> QED BY <1>0, <1>1, <2>1, <2>2 DEF Calm, Becomes, Mine, entry, wire, Using, Starters
<1>8. OwnAnswer'
  BY <1>0, <1>1 DEF OwnAnswer, Becomes
<1> QED BY <1>2, <1>3, <1>4, <1>5, <1>6, <1>7, <1>8 DEF Inv

(* Release: one user less, and the count goes down with it.                *)
LEMMA ReleaseKeeps ==
  ASSUME Inv, NEW a \in Callers, Release(a)
  PROVE  Inv'
<1>0. Shape /\ Created /\ Requests /\ Counts /\ Documents /\ Calm /\ OwnAnswer
  BY DEF Inv
<1>1. /\ act[a].pc = "release"
      /\ refs' = IF slot # 0 /\ refs[slot] > 0 THEN [refs EXCEPT ![slot] = @ - 1] ELSE refs
      /\ act' = [act EXCEPT ![a] = Idle]
      /\ UNCHANGED <<slot, gate, ready, proc, docs, wire, budget, timer, hurt>>
  BY DEF Release, At
<1>2. Becomes(a, "idle", 0, Idle.file, 0, 0)
  BY <1>0, <1>1, Ended
<1>3. slot \in Clients \cup {0} /\ 0 \notin Clients
  BY <1>0 DEF Shape, Clients
<1>4. refs' \in [Clients -> Nat] /\ \A i \in Clients : refs'[i] <= refs[i]
  BY <1>0, <1>1, <1>3 DEF Shape
<1>5. Shape'
  BY <1>0, <1>1, <1>2, <1>4 DEF Shape, Becomes, docs, wire, budget
<1>6. Created'
  BY <1>0, <1>1, <1>2, <1>3, <1>4 DEF Created, Becomes, Mine, docs, wire, Shape
<1>7. Requests'
  <2>1. UNCHANGED wire /\ \A b \in Callers : b # a => act'[b] = act[b]
    BY <1>1, <1>2 DEF Becomes
  <2> QED BY <1>0, <1>1, <2>1, RequestsKept
<1>8. Counts'
  <2>1. Fades
    BY <1>2 DEF Fades, Becomes
  <2>2. calls' = calls /\ counter' = counter
    BY <1>1 DEF wire, budget
  <2> QED BY <1>0, <1>4, <1>5, <2>1, <2>2, CountsKept
<1>9. Documents'
  BY <1>0, <1>1, <1>2 DEF Documents, Becomes, Mine, docs, wire
<1>10. Calm'
  <2> SUFFICES ASSUME ~hurt' PROVE Calm'
    BY DEF Calm
  <2>1. ~hurt /\ slot' = slot /\ gate' = gate /\ ready' = ready /\ proc' = proc /\ inbox' = inbox
    BY <1>1 DEF wire
  <2>2. Mine(a) = slot /\ slot # 0 /\ slot \in Clients
    BY <1>0, <1>1, <1>3, <2>1 DEF Calm, Created, Using
  <2>3. a \in Users(slot) /\ Users(slot)' = Users(slot) \ {a}
    BY <1>1, <1>2, <2>1, <2>2 DEF Users, Using, Becomes, Mine, Starters
  <2>4. Cardinality(Users(slot)') = Cardinality(Users(slot)) - 1 /\ Cardinality(Users(slot)) \in Nat
        /\ Cardinality(Users(slot)') \in Nat
    <3>1. Users(slot) \in SUBSET Callers /\ Users(slot)' \in SUBSET Callers
      BY DEF Users
    <3> QED BY <2>3, <3>1, OneMore, FewCallers
  <2>5. refs[slot] = Cardinality(Users(slot))
    BY <1>0, <2>1, <2>2 DEF Calm
  <2>6. refs'[slot] = Cardinality(Users(slot)')
    BY <1>0, <1>1, <2>2, <2>4, <2>5 DEF Shape
  <2>7. Cardinality(Users(slot))' = Cardinality(Users(slot)')
    OBVIOUS
  <2>8. refs'[slot'] = Cardinality(Users(slot))'
    BY <2>1, <2>6, <2>7
  <2>9. \A b \in Callers : act'[b].pc # "idle" => act'[b] = act[b]
    BY <1>2 DEF Becomes
  <2>10. \A i \in Clients : proc'[i] = "up" => i = slot'
    BY <1>0, <2>1 DEF Calm
  <2>11. \A b \in Callers : act'[b].pc \in Using \cup {"waiting"} =>
           act'[b].client = slot' /\ proc'[slot'] = "up"
    BY <1>0, <2>1, <2>9 DEF Calm, Using, Mine, Starters
  <2>12. \A b \in Callers : act'[b].pc = "replace" => proc'[act'[b].client] # "up"
    BY <1>0, <2>1, <2>9 DEF Calm, Mine
  <2>13. slot' # 0 /\ slot' \notin gate' => ready'[slot'] = "yes"
    BY <1>0, <2>1 DEF Calm
  <2>13a. slot' # 0 /\ slot' \in gate' => \E b \in Callers : act'[b].client = slot' /\ act'[b].pc \in Starters
    <3> SUFFICES ASSUME slot \in gate PROVE \E b \in Callers : act'[b].client = slot /\ act'[b].pc \in Starters
      BY <2>1
    <3>1. PICK b \in Callers : Mine(b) = slot /\ act[b].pc \in Starters
      BY <1>0, <2>1, <2>2 DEF Calm
    <3>2. b # a
      BY <1>1, <3>1 DEF Starters
    <3> QED BY <1>2, <3>1, <3>2 DEF Becomes, Mine
  <2>14. \A b \in Callers : act'[b].pc \in Using \ Starters => ready'[act'[b].client] = "yes"
    BY <1>0, <2>1, <2>9 DEF Calm, Using, Mine, Starters
  <2>15. \A i \in Clients : \A m \in inbox'[i] : m.kind = "ask" => ready'[i] = "yes"
    BY <1>0, <2>1 DEF Calm
  <2> QED BY <2>8, <2>10, <2>11, <2>12, <2>13, <2>13a, <2>14, <2>15 DEF Calm, Mine
<1>11. OwnAnswer'
  BY <1>0, <1>2 DEF OwnAnswer, Becomes
<1> QED BY <1>5, <1>6, <1>7, <1>8, <1>9, <1>10, <1>11 DEF Inv

-----------------------------------------------------------------------------
(* Steps that end requests and processes.                                  *)

(* Requests are only lost, and none of a caller that moved is left.        *)
Lossy ==
  /\ counter' = counter
  /\ \A j \in Clients :
       /\ pending'[j] \subseteq pending[j] /\ inbox'[j] \subseteq inbox[j]
       /\ \A q \in pending'[j] : act'[q.who] = act[q.who]

LEMMA RequestsLost ==
  ASSUME Requests, Lossy
  PROVE  Requests'
<1> SUFFICES ASSUME NEW i \in Clients
             PROVE  /\ \A p \in pending'[i] :
                         /\ p.id <= counter'[i] /\ act'[p.who].client = i
                         /\ act'[p.who].pc \in {"greeting", "asked"}
                    /\ \A m \in inbox'[i] : m.id <= counter'[i]
                    /\ \A p, q \in pending'[i] : p.id = q.id \/ p.who = q.who => p = q
                    /\ \A m, n \in inbox'[i] : m.id = n.id => m = n
                    /\ \A m \in inbox'[i], p \in pending'[i] : m.id = p.id => m.call = act'[p.who].call
  BY DEF Requests, Mine
<1>1. pending'[i] \subseteq pending[i] /\ inbox'[i] \subseteq inbox[i] /\ counter' = counter
      /\ \A q \in pending'[i] : act'[q.who] = act[q.who]
  BY DEF Lossy
<1> QED BY <1>1 DEF Requests, Mine

(* Nobody begins or stops to use a client, none starts to run, and what is *)
(* called ready is ready.                                                  *)
Steady ==
  /\ slot' = slot /\ refs' = refs
  /\ \A j \in Clients : /\ proc'[j] = "up" => proc[j] = "up"
                        /\ ready[j] = "yes" => ready'[j] = "yes"
  /\ slot # 0 /\ slot \notin gate' => slot \notin gate \/ ready'[slot] = "yes"
  /\ slot # 0 /\ slot \in gate' =>
       slot \in gate /\ \A b \in Callers : act[b].pc \in Starters => act'[b].pc \in Starters
  /\ \A b \in Callers : act[b].pc \in Using => act'[b].pc \in Using /\ act'[b].client = act[b].client
  /\ \A b \in Callers : act'[b].pc # "idle" =>
       /\ act'[b].client = act[b].client /\ act[b].pc # "idle"
       /\ act'[b].pc = "replace" <=> act[b].pc = "replace"
       /\ act'[b].pc = "waiting" <=> act[b].pc = "waiting"
       /\ act'[b].pc # "replace" => proc'[act[b].client] = proc[act[b].client]
       /\ act'[b].pc \in Using \ Starters =>
            act[b].pc \in Using \ Starters \/ ready'[act[b].client] = "yes"
  /\ \A j \in Clients : \A m \in inbox'[j] : m.kind = "ask" => m \in inbox[j] \/ ready'[j] = "yes"

LEMMA CalmKept ==
  ASSUME Shape, Created, Calm, hurt' \/ (~hurt /\ Steady)
  PROVE  Calm'
<1> SUFFICES ASSUME ~hurt' PROVE Calm'
  BY DEF Calm
<1>1. ~hurt /\ Steady
  OBVIOUS
<1>2. slot' = slot /\ refs' = refs /\ (slot \in Clients \/ slot = 0)
  BY <1>1 DEF Steady, Shape, Clients
<1>2a. \A b \in Callers : act[b].pc \in PCs
  BY DEF Shape, Call
<1>3. \A i \in Clients : proc'[i] = "up" => i = slot'
  BY <1>1, <1>2 DEF Calm, Steady
<1>4. \A b \in Callers : act'[b].pc \in Using \cup {"waiting"} =>
        act'[b].client = slot' /\ proc'[slot'] = "up"
  <2> SUFFICES ASSUME NEW b \in Callers, act'[b].pc \in Using \cup {"waiting"}
               PROVE  act'[b].client = slot' /\ proc'[slot'] = "up"
    OBVIOUS
  <2>1. act'[b].pc # "idle" /\ act'[b].pc # "replace"
    BY DEF Using, Starters
  <2>2. act[b].pc \in Using \cup {"waiting"}
    BY <1>1, <1>2a, <2>1 DEF Steady, PCs
  <2>3. act[b].client = slot /\ proc[slot] = "up"
    BY <1>1, <2>2 DEF Calm, Mine
  <2> QED BY <1>1, <1>2, <2>1, <2>3 DEF Steady
<1>5. \A b \in Callers : act'[b].pc = "replace" => proc'[act'[b].client] # "up"
  <2> SUFFICES ASSUME NEW b \in Callers, act'[b].pc = "replace" PROVE proc'[act'[b].client] # "up"
    OBVIOUS
  <2>1. act[b].pc = "replace" /\ act'[b].client = act[b].client
    BY <1>1 DEF Steady
  <2>2. proc[act[b].client] # "up" /\ act[b].client \in Clients
    BY <1>1, <2>1 DEF Calm, Created, Mine
  <2> QED BY <1>1, <2>1, <2>2 DEF Steady
<1>6. slot' # 0 => refs'[slot'] = Cardinality(Users(slot))'
  <2> SUFFICES ASSUME slot # 0 PROVE refs[slot] = Cardinality(Users(slot))'
    BY <1>2
  <2>1. \A b \in Callers : act'[b].pc \in Using => act[b].pc \in Using
    BY <1>1, <1>2a DEF Steady, PCs, Using, Starters
  <2>2. \A b \in Callers : act'[b].pc \in Using <=> act[b].pc \in Using
    BY <1>1, <2>1 DEF Steady
  <2>3. \A b \in Callers : act[b].pc \in Using => act'[b].client = act[b].client
    BY <1>1 DEF Steady
  <2>4. Users(slot)' = Users(slot)
    BY <1>2, <2>2, <2>3 DEF Users, Mine
  <2>5. Cardinality(Users(slot))' = Cardinality(Users(slot))
    BY <2>4
  <2> QED BY <1>1, <2>5 DEF Calm
<1>7. slot' # 0 /\ slot' \notin gate' => ready'[slot'] = "yes"
  BY <1>1, <1>2 DEF Calm, Steady
<1>7a. slot' # 0 /\ slot' \in gate' => \E b \in Callers : act'[b].client = slot' /\ act'[b].pc \in Starters
  <2> SUFFICES ASSUME slot # 0, slot \in gate'
               PROVE  \E b \in Callers : act'[b].client = slot /\ act'[b].pc \in Starters
    BY <1>2
  <2>1. PICK b \in Callers : Mine(b) = slot /\ act[b].pc \in Starters
    BY <1>1 DEF Calm, Steady
  <2>2. act'[b].pc \in Starters
    BY <1>1, <2>1 DEF Steady
  <2>3. act'[b].client = slot
    BY <1>1, <2>1 DEF Steady, Using, Mine
  <2> QED BY <2>2, <2>3
<1>8. \A b \in Callers : act'[b].pc \in Using \ Starters => ready'[act'[b].client] = "yes"
  <2> SUFFICES ASSUME NEW b \in Callers, act'[b].pc \in Using \ Starters
               PROVE  ready'[act'[b].client] = "yes"
    OBVIOUS
  <2>1. act'[b].client = act[b].client /\ act[b].pc # "idle"
        /\ (act[b].pc \in Using \ Starters \/ ready'[act[b].client] = "yes")
    BY <1>1 DEF Steady, Using, Starters
  <2>2. act[b].client \in Clients
    BY <2>1 DEF Created, Mine
  <2> QED BY <1>1, <2>1, <2>2 DEF Calm, Steady, Mine
<1>9. \A i \in Clients : \A m \in inbox'[i] : m.kind = "ask" => ready'[i] = "yes"
  BY <1>1 DEF Calm, Steady
<1> QED BY <1>3, <1>4, <1>5, <1>6, <1>7, <1>7a, <1>8, <1>9 DEF Calm, Mine

(* Nothing happens to clients that were not created, and calls keep theirs. *)
Tidy ==
  /\ \A i \in Clients : proc'[i] = "none" =>
       /\ proc[i] = "none" /\ slot' \in {0, slot}
       /\ refs'[i] = refs[i] /\ counter'[i] = counter[i] /\ ready'[i] = ready[i]
       /\ pending'[i] \subseteq pending[i] /\ inbox'[i] \subseteq inbox[i]
       /\ opened'[i] = opened[i] /\ known'[i] = known[i]
  /\ \A b \in Callers :
       \/ act'[b].client = act[b].client /\ act'[b].call = act[b].call
          /\ (act'[b].pc # "idle" => act[b].pc # "idle")
       \/ act'[b].client = 0 /\ act'[b].pc = "idle"

LEMMA CreatedKept ==
  ASSUME Created, Tidy
  PROVE  Created'
<1>1. 0 \notin Clients
  BY DEF Clients
<1> QED BY <1>1 DEF Created, Tidy, Mine

(* InitDone: the client is ready, and its entry lets others in.            *)
LEMMA InitDoneKeeps ==
  ASSUME Inv, NEW a \in Callers, InitDone(a)
  PROVE  Inv'
<1>0. Shape /\ Created /\ Requests /\ Counts /\ Documents /\ Calm /\ OwnAnswer
  BY DEF Inv
<1>1. /\ act[a].pc = "settling" /\ ready' = [ready EXCEPT ![Mine(a)] = "yes"]
      /\ gate' = gate \ {slot} /\ Go(a, "open")
      /\ slot' = slot /\ refs' = refs /\ proc' = proc /\ opened' = opened /\ known' = known
      /\ counter' = counter /\ pending' = pending /\ inbox' = inbox
      /\ calls' = calls /\ exits' = exits /\ timer' = timer /\ hurt' = hurt
  BY DEF InitDone, At, docs, wire, budget
<1>2. Becomes(a, "open", Mine(a), act[a].file, act[a].call, act[a].got)
  BY <1>0, <1>1, Went DEF PCs, Using
<1>3. Mine(a) \in Clients /\ proc[Mine(a)] # "none"
  BY <1>0, <1>1 DEF Created
<1>4. ready' \in [Clients -> {"no", "yes", "failed"}] /\ ready'[Mine(a)] = "yes"
      /\ \A i \in Clients : ready'[i] \in {ready[i], "yes"} /\ (i # Mine(a) => ready'[i] = ready[i])
  BY <1>0, <1>1, <1>3 DEF Shape
<1>5. Shape'
  BY <1>0, <1>1, <1>2, <1>4 DEF Shape, Becomes
<1>6. Created'
  <2>1. Tidy
    BY <1>1, <1>2, <1>3, <1>4 DEF Tidy, Becomes, Mine
  <2> QED BY <1>0, <2>1, CreatedKept
<1>7. Requests'
  <2>1. UNCHANGED wire /\ \A b \in Callers : b # a => act'[b] = act[b]
    BY <1>1, <1>2 DEF Becomes, wire
  <2> QED BY <1>0, <1>1, <2>1, RequestsKept
<1>8. Counts'
  <2>1. Fades
    BY <1>1, <1>2 DEF Fades, Becomes
  <2>2. \A i \in Clients : refs'[i] <= refs[i]
    BY <1>0, <1>1 DEF Shape
  <2> QED BY <1>0, <1>1, <1>5, <2>1, <2>2, CountsKept
<1>9. Documents'
  BY <1>0, <1>1, <1>2 DEF Documents, Becomes, Mine
<1>10. Calm'
  <2> SUFFICES ASSUME ~hurt PROVE Steady
    BY <1>0, <1>1, CalmKept
  <2>1. Mine(a) = slot
    BY <1>0, <1>1 DEF Calm, Using, Starters
  <2>2. slot # 0 /\ slot \notin gate' => slot \notin gate \/ ready'[slot] = "yes"
    BY <1>4, <2>1
  <2>3. \A b \in Callers : act[b].pc \in Using => act'[b].pc \in Using /\ act'[b].client = act[b].client
    BY <1>2 DEF Becomes, Mine, Using
  <2> QED BY <1>1, <1>2, <1>4, <2>2, <2>3 DEF Steady, Becomes, Mine, Using, Starters
<1>11. OwnAnswer'
  BY <1>0, <1>2 DEF OwnAnswer, Becomes
<1> QED BY <1>5, <1>6, <1>7, <1>8, <1>9, <1>10, <1>11 DEF Inv

(* DidOpen: the file is marked open, and a process that is up is told.     *)
LEMMA DidOpenKeeps ==
  ASSUME Inv, NEW a \in Callers, DidOpen(a)
  PROVE  Inv'
<1>0. Shape /\ Created /\ Requests /\ Counts /\ Documents /\ Calm /\ OwnAnswer
  BY DEF Inv
<1>1. /\ act[a].pc = "reading" /\ Go(a, "opening")
      /\ known' = IF proc[Mine(a)] = "up" THEN [known EXCEPT ![Mine(a)] = @ \cup {act[a].file}] ELSE known
      /\ opened' = [opened EXCEPT ![Mine(a)] = @ \cup {act[a].file}]
      /\ slot' = slot /\ refs' = refs /\ proc' = proc /\ gate' = gate /\ ready' = ready
      /\ counter' = counter /\ pending' = pending /\ inbox' = inbox
      /\ calls' = calls /\ exits' = exits /\ timer' = timer /\ hurt' = hurt
  BY DEF DidOpen, At, entry, wire, budget, isAlive
<1>2. Becomes(a, "opening", Mine(a), act[a].file, act[a].call, act[a].got)
  BY <1>0, <1>1, Went DEF PCs, Using
<1>3. Mine(a) \in Clients /\ proc[Mine(a)] # "none" /\ act[a].file \in Files
  BY <1>0, <1>1 DEF Created, Shape, Call
<1>4. /\ opened' \in [Clients -> SUBSET Files] /\ opened'[Mine(a)] = opened[Mine(a)] \cup {act[a].file}
      /\ \A i \in Clients : opened[i] \subseteq opened'[i] /\ (i # Mine(a) => opened'[i] = opened[i])
  BY <1>0, <1>1, <1>3 DEF Shape
<1>5. /\ known' \in [Clients -> SUBSET Files]
      /\ proc[Mine(a)] = "up" => known'[Mine(a)] = known[Mine(a)] \cup {act[a].file}
      /\ \A i \in Clients : known[i] \subseteq known'[i] /\ (i # Mine(a) => known'[i] = known[i])
  BY <1>0, <1>1, <1>3 DEF Shape
<1>6. Shape'
  BY <1>0, <1>1, <1>2, <1>4, <1>5 DEF Shape, Becomes
<1>7. Created'
  <2>1. Tidy
    BY <1>1, <1>2, <1>3, <1>4, <1>5 DEF Tidy, Becomes, Mine
  <2> QED BY <1>0, <2>1, CreatedKept
<1>8. Requests'
  <2>1. UNCHANGED wire /\ \A b \in Callers : b # a => act'[b] = act[b]
    BY <1>1, <1>2 DEF Becomes, wire
  <2> QED BY <1>0, <1>1, <2>1, RequestsKept
<1>9. Counts'
  <2>1. Fades
    BY <1>1, <1>2 DEF Fades, Becomes
  <2>2. \A i \in Clients : refs'[i] <= refs[i]
    BY <1>0, <1>1 DEF Shape
  <2> QED BY <1>0, <1>1, <1>6, <2>1, <2>2, CountsKept
<1>10. Documents'
  <2>1. \A i \in Clients : proc'[i] = "up" => opened'[i] \subseteq known'[i]
    BY <1>0, <1>1, <1>4, <1>5 DEF Documents
  <2>2. \A b \in Callers : act'[b].pc = "opening" => act'[b].file \in opened'[act'[b].client]
    <3> SUFFICES ASSUME NEW b \in Callers, act'[b].pc = "opening"
                 PROVE  act'[b].file \in opened'[act'[b].client]
      OBVIOUS
    <3>1. CASE b = a
      BY <1>2, <1>4, <3>1 DEF Becomes
    <3>2. CASE b # a
      <4>1. act'[b] = act[b] /\ Mine(b) \in Clients
        BY <1>0, <1>2, <3>2 DEF Becomes, Created
      <4> QED BY <1>0, <1>4, <4>1 DEF Documents, Mine
    <3> QED BY <3>1, <3>2
  <2>3. \A i \in Clients : \A m \in inbox'[i] : m.kind = "ask" => m.file \in known'[i]
    BY <1>0, <1>1, <1>5 DEF Documents
  <2> QED BY <2>1, <2>2, <2>3 DEF Documents, Mine
<1>11. Calm'
  <2> SUFFICES ASSUME ~hurt PROVE Steady
    BY <1>0, <1>1, CalmKept
  <2>1. \A b \in Callers : act[b].pc \in Using => act'[b].pc \in Using /\ act'[b].client = act[b].client
    BY <1>2 DEF Becomes, Mine, Using
  <2> QED BY <1>1, <1>2, <2>1 DEF Steady, Becomes, Mine, Using, Starters
<1>12. OwnAnswer'
  BY <1>0, <1>2 DEF OwnAnswer, Becomes
<1> QED BY <1>6, <1>7, <1>8, <1>9, <1>10, <1>11, <1>12 DEF Inv

(* A request is settled: its caller moves, others may lose messages only.  *)
Settled(i, p) ==
  /\ pending' = [pending EXCEPT ![i] = @ \ {p}]
  /\ inbox' \in [Clients -> SUBSET Mail] /\ \A j \in Clients : inbox'[j] \subseteq inbox[j]
  /\ \A b \in Callers : b # p.who => act'[b] = act[b]
  /\ counter' = counter

LEMMA SettledIsLossy ==
  ASSUME Shape, Requests, NEW i \in Clients, NEW p \in pending[i], Settled(i, p)
  PROVE  Lossy /\ pending' \in [Clients -> SUBSET Ask1]
<1>1. pending' \in [Clients -> SUBSET Ask1] /\ \A j \in Clients : pending'[j] \subseteq pending[j]
  BY DEF Shape, Settled
<1>2. \A j \in Clients : \A q \in pending'[j] : q.who # p.who
  <2> SUFFICES ASSUME NEW j \in Clients, NEW q \in pending'[j], q.who = p.who PROVE FALSE
    OBVIOUS
  <2>1. q \in pending[j] /\ Mine(q.who) = j /\ Mine(p.who) = i
    BY <1>1 DEF Requests
  <2>2. j = i
    BY <2>1
  <2>3. q = p
    BY <2>1, <2>2 DEF Requests
  <2>4. pending'[i] = pending[i] \ {p}
    BY DEF Shape, Settled
  <2> QED BY <2>2, <2>3, <2>4
<1>3. \A j \in Clients : \A q \in pending'[j] : q.who \in Callers
  BY <1>1 DEF Ask1
<1> QED BY <1>1, <1>2, <1>3 DEF Settled, Lossy

(* An error answer or a timeout: the caller gives up.                      *)
LEMMA FailKeeps ==
  ASSUME Inv, NEW i \in Clients, NEW p \in pending[i],
         pending' = [pending EXCEPT ![i] = @ \ {p}],
         inbox' \in [Clients -> SUBSET Mail], \A j \in Clients : inbox'[j] \subseteq inbox[j],
         Fail(p.who), UNCHANGED <<proc, docs, counter, budget, timer>>
  PROVE  Inv'
<1> DEFINE a == p.who
<1>0. Shape /\ Created /\ Requests /\ Counts /\ Documents /\ Calm /\ OwnAnswer
  BY DEF Inv
<1>1. a \in Callers /\ Mine(a) = i /\ act[a].pc \in {"greeting", "asked"}
  BY <1>0 DEF Requests, Shape, Ask1
<1> HIDE DEF a
<1>2. proc' = proc /\ opened' = opened /\ known' = known /\ counter' = counter
      /\ calls' = calls /\ exits' = exits /\ timer' = timer
  BY DEF docs, budget
<1>3. \/ /\ Becomes(a, "idle", 0, Idle.file, 0, 0) /\ hurt'
         /\ ready' = [ready EXCEPT ![i] = "failed"]
         /\ slot' = slot /\ refs' = refs /\ gate' = gate
      \/ /\ Becomes(a, "release", Mine(a), act[a].file, act[a].call, act[a].got) /\ act[a].pc = "asked"
         /\ ready' = ready /\ hurt' = hurt
         /\ slot' = slot /\ refs' = refs /\ gate' = gate
  <2>1. CASE act[a].pc = "greeting"
    <3>1. InitFails(a)
      BY <2>1 DEF Fail, At, a
    <3> QED BY <1>0, <1>1, <3>1, Ended DEF InitFails
  <2>2. CASE act[a].pc = "asked"
    <3>1. Go(a, "release") /\ UNCHANGED <<entry, hurt>>
      BY <2>2 DEF Fail, At, a
    <3> QED BY <1>0, <1>1, <2>2, <3>1, Went DEF entry, PCs, Using
  <2> QED BY <1>1, <2>1, <2>2
<1>4. /\ act' \in [Callers -> Call]
      /\ \A b \in Callers : b # a => act'[b] = act[b]
      /\ act'[a].pc \in {"idle", "release"} /\ act'[a].got \in {0, act'[a].call}
  BY <1>0, <1>1, <1>3 DEF Becomes, OwnAnswer
<1>5. Settled(i, p)
  BY <1>2, <1>4 DEF Settled, a
<1>6. Lossy /\ pending' \in [Clients -> SUBSET Ask1]
  BY <1>0, <1>5, SettledIsLossy
<1>7. proc[i] # "none"
  BY <1>0 DEF Created
<1>8. Shape'
  BY <1>0, <1>2, <1>3, <1>4, <1>6 DEF Shape, Becomes
<1>9. Created'
  <2>1. Tidy
    BY <1>0, <1>1, <1>2, <1>3, <1>4, <1>6, <1>7 DEF Tidy, Becomes, Mine, Lossy, Shape
  <2> QED BY <1>0, <2>1, CreatedKept
<1>10. Requests'
  BY <1>0, <1>6, RequestsLost
<1>11. Counts'
  <2>1. Fades
    BY <1>4 DEF Fades
  <2>2. calls' = calls /\ refs' = refs /\ \A j \in Clients : refs'[j] <= refs[j]
    BY <1>0, <1>2, <1>3 DEF Shape
  <2> QED BY <1>0, <1>2, <1>8, <2>1, <2>2, CountsKept
<1>12. Documents'
  BY <1>0, <1>2, <1>4 DEF Documents, Mine
<1>13. Calm'
  <2> SUFFICES ASSUME ~hurt' PROVE ~hurt /\ Steady
    BY <1>0, CalmKept
  <2>1. Becomes(a, "release", Mine(a), act[a].file, act[a].call, act[a].got) /\ act[a].pc = "asked"
        /\ ready' = ready /\ hurt' = hurt /\ slot' = slot /\ refs' = refs /\ gate' = gate
    BY <1>3
  <2>2. \A b \in Callers : act[b].pc \in Using => act'[b].pc \in Using /\ act'[b].client = act[b].client
    BY <2>1 DEF Becomes, Mine, Using
  <2> QED BY <1>2, <2>1, <2>2 DEF Steady, Becomes, Mine, Using, Starters
<1>14. OwnAnswer'
  BY <1>0, <1>4 DEF OwnAnswer
<1> QED BY <1>8, <1>9, <1>10, <1>11, <1>12, <1>13, <1>14 DEF Inv

(* Answer: the caller whose request has the message's id, if one waits.    *)
LEMMA AnswerKeeps ==
  ASSUME Inv, NEW i \in Clients, NEW m \in inbox[i], Answer(i, m)
  PROVE  Inv'
<1>0. Shape /\ Created /\ Requests /\ Counts /\ Documents /\ Calm /\ OwnAnswer
  BY DEF Inv
<1>1. slot' = slot /\ refs' = refs /\ gate' = gate /\ ready' = ready
      /\ proc' = proc /\ opened' = opened /\ known' = known /\ counter' = counter
      /\ calls' = calls /\ exits' = exits /\ timer' = timer /\ hurt' = hurt
  BY DEF Answer, entry, docs, budget
<1>2. inbox' \in [Clients -> SUBSET Mail] /\ \A j \in Clients : inbox'[j] \subseteq inbox[j]
  BY <1>0 DEF Answer, Shape
<1>3. pending' \in [Clients -> SUBSET Ask1] /\ \A j \in Clients : pending'[j] \subseteq pending[j]
      /\ pending'[i] = {p \in pending[i] : p.id # m.id}
  BY <1>0 DEF Answer, Shape
<1>3a. m.call \in 1..MaxCalls /\ 1..MaxCalls \subseteq 0..MaxCalls
  BY <1>0, LspAssumption DEF Shape, Mail, LspAssumption
<1>4. \A b \in Callers :
        \/ act'[b] = act[b] /\ ~\E p \in pending[i] : p.id = m.id /\ p.who = b
        \/ /\ act[b].pc \in {"greeting", "asked"} /\ Mine(b) = i
           /\ act'[b] = [act[b] EXCEPT !.pc = IF @ = "greeting" THEN "settling" ELSE "release", !.got = m.call]
           /\ m.call = act[b].call
  <2> SUFFICES ASSUME NEW b \in Callers
               PROVE  \/ act'[b] = act[b] /\ ~\E p \in pending[i] : p.id = m.id /\ p.who = b
                      \/ /\ act[b].pc \in {"greeting", "asked"} /\ Mine(b) = i
                         /\ act'[b] = [act[b] EXCEPT !.pc = IF @ = "greeting" THEN "settling" ELSE "release",
                                                     !.got = m.call]
                         /\ m.call = act[b].call
    OBVIOUS
  <2>1. act'[b] = IF \E p \in pending[i] : p.id = m.id /\ p.who = b
                  THEN [act[b] EXCEPT !.pc = IF @ = "greeting" THEN "settling" ELSE "release", !.got = m.call]
                  ELSE act[b]
    BY DEF Answer
  <2>2. CASE ~\E p \in pending[i] : p.id = m.id /\ p.who = b
    BY <2>1, <2>2
  <2>3. CASE \E p \in pending[i] : p.id = m.id /\ p.who = b
    <3>1. PICK p \in pending[i] : p.id = m.id /\ p.who = b
      BY <2>3
    <3>2. act[b].pc \in {"greeting", "asked"} /\ Mine(b) = i /\ m.call = act[b].call
      BY <1>0, <3>1 DEF Requests
    <3> QED BY <2>1, <2>3, <3>2
  <2> QED BY <2>2, <2>3
<1>5. \A b \in Callers :
        \/ act'[b] = act[b] /\ ~\E p \in pending[i] : p.id = m.id /\ p.who = b
        \/ /\ act[b].pc \in {"greeting", "asked"} /\ Mine(b) = i
           /\ act'[b] \in Call
           /\ act'[b].pc = IF act[b].pc = "greeting" THEN "settling" ELSE "release"
           /\ act'[b].client = act[b].client /\ act'[b].file = act[b].file
           /\ act'[b].call = act[b].call /\ act'[b].got = act[b].call
  <2> SUFFICES ASSUME NEW b \in Callers, act[b].pc \in {"greeting", "asked"}, Mine(b) = i,
                      act'[b] = [act[b] EXCEPT !.pc = IF @ = "greeting" THEN "settling" ELSE "release",
                                               !.got = m.call],
                      m.call = act[b].call
               PROVE  /\ act'[b] \in Call
                      /\ act'[b].pc = IF act[b].pc = "greeting" THEN "settling" ELSE "release"
                      /\ act'[b].client = act[b].client /\ act'[b].file = act[b].file
                      /\ act'[b].call = act[b].call /\ act'[b].got = act[b].call
    BY <1>4
  <2>1. act[b] \in Call
    BY <1>0 DEF Shape
  <2>2. m.call \in 0..MaxCalls
    BY <1>3a
  <2> QED BY <2>1, <2>2 DEF Call, PCs, Using, Starters
<1>6. act' \in [Callers -> Call]
  <2>1. \A b \in Callers : act'[b] \in Call
    BY <1>0, <1>5 DEF Shape
  <2>2. act' = [b \in Callers |-> act'[b]]
    BY DEF Answer
  <2> QED BY <2>1, <2>2
<1>7. Shape'
  BY <1>0, <1>1, <1>2, <1>3, <1>6 DEF Shape
<1>8. Created'
  <2>1. Tidy
    BY <1>1, <1>2, <1>3, <1>5 DEF Tidy, Mine
  <2> QED BY <1>0, <2>1, CreatedKept
<1>9. Requests'
  <2>1. \A j \in Clients : \A q \in pending'[j] : act'[q.who] = act[q.who]
    <3> SUFFICES ASSUME NEW j \in Clients, NEW q \in pending'[j], act'[q.who] # act[q.who] PROVE FALSE
      OBVIOUS
    <3>1. q \in pending[j] /\ q.who \in Callers /\ Mine(q.who) = j
      BY <1>0, <1>3 DEF Requests, Ask1
    <3>2. act'[q.who] = IF \E p \in pending[i] : p.id = m.id /\ p.who = q.who
                        THEN [act[q.who] EXCEPT !.pc = IF @ = "greeting" THEN "settling" ELSE "release",
                                                !.got = m.call]
                        ELSE act[q.who]
      BY <3>1 DEF Answer
    <3>3. PICK p \in pending[i] : p.id = m.id /\ p.who = q.who
      BY <3>2
    <3>4. j = i
      BY <1>0, <3>1, <3>3 DEF Requests
    <3>5. q = p
      BY <1>0, <3>1, <3>3, <3>4 DEF Requests
    <3> QED BY <1>3, <3>3, <3>4, <3>5
  <2>2. Lossy
    BY <1>1, <1>2, <1>3, <2>1 DEF Lossy
  <2> QED BY <1>0, <2>2, RequestsLost
<1>10. Counts'
  <2>1. Fades
    BY <1>5 DEF Fades, Starters
  <2>2. \A j \in Clients : refs'[j] <= refs[j]
    BY <1>0, <1>1 DEF Shape
  <2> QED BY <1>0, <1>1, <1>7, <2>1, <2>2, CountsKept
<1>11. Documents'
  <2>1. \A b \in Callers : act'[b].pc = "opening" => act'[b] = act[b]
    BY <1>5
  <2> QED BY <1>0, <1>1, <1>2, <2>1 DEF Documents, Mine
<1>12. Calm'
  <2> SUFFICES ASSUME ~hurt PROVE Steady
    BY <1>0, <1>1, CalmKept
  <2>1. \A b \in Callers : act[b].pc \in Using => act'[b].pc \in Using /\ act'[b].client = act[b].client
    BY <1>5 DEF Using, Starters
  <2>2. \A b \in Callers : act'[b] = act[b] \/
          (/\ act'[b].client = act[b].client
           /\ \/ act[b].pc = "greeting" /\ act'[b].pc = "settling"
              \/ act[b].pc = "asked" /\ act'[b].pc = "release")
    BY <1>5
  <2> QED BY <1>1, <1>2, <2>1, <2>2 DEF Steady, Using, Starters
<1>13. OwnAnswer'
  BY <1>0, <1>5 DEF OwnAnswer
<1> QED BY <1>7, <1>8, <1>9, <1>10, <1>11, <1>12, <1>13 DEF Inv

(* Exit: requests fail together, and no call that uses the client stays    *)
(* calm.                                                                   *)
LEMMA ExitKeeps ==
  ASSUME Inv, NEW i \in Clients, Exit(i)
  PROVE  Inv'
<1> DEFINE failed == {a \in Callers : \E p \in pending[i] : p.who = a}
<1>0. Shape /\ Created /\ Requests /\ Counts /\ Documents /\ Calm /\ OwnAnswer
  BY DEF Inv
<1>1. /\ slot' = slot /\ refs' = refs /\ gate' = gate /\ opened' = opened /\ known' = known
      /\ counter' = counter /\ calls' = calls /\ timer' = timer
      /\ proc' = [proc EXCEPT ![i] = "gone"]
      /\ pending' = [pending EXCEPT ![i] = {}] /\ inbox' = [inbox EXCEPT ![i] = {}]
      /\ act' = [a \in Callers |->
           IF a \notin failed THEN act[a]
           ELSE IF act[a].pc = "greeting" THEN Idle ELSE [act[a] EXCEPT !.pc = "release"]]
      /\ ready' = IF \E a \in failed : act[a].pc = "greeting" THEN [ready EXCEPT ![i] = "failed"] ELSE ready
  BY DEF Exit, docs, At
<1>2. \/ proc[i] = "up" /\ exits < MaxExits /\ exits' = exits + 1
         /\ hurt' = (hurt \/ \E a \in Busy : Mine(a) = i)
      \/ proc[i] = "killed" /\ exits' = exits
         /\ hurt' = (hurt \/ \E a \in failed : act[a].pc = "greeting")
  BY DEF Exit, At
<1>3. \A a \in failed : act[a].pc \in {"greeting", "asked"} /\ Mine(a) = i /\ a \in Callers
  BY <1>0 DEF Requests
<1>4. Idle \in Call /\ Idle.pc = "idle" /\ Idle.client = 0 /\ Idle.got = 0
  BY LspAssumption DEF Idle, Call, PCs, LspAssumption
<1>5. \A a \in Callers : a \notin failed => act'[a] = act[a]
  BY <1>1
<1>6. \A a \in failed : \/ act[a].pc = "greeting" /\ act'[a] = Idle
                        \/ act[a].pc = "asked" /\ act'[a] = [act[a] EXCEPT !.pc = "release"]
  <2> HIDE DEF failed
  <2> QED BY <1>1, <1>3
<1> HIDE DEF failed
<1>7. \A a \in failed : \/ act[a].pc = "greeting" /\ act'[a] = Idle
                        \/ /\ act[a].pc = "asked" /\ act'[a].pc = "release" /\ act'[a] \in Call
                           /\ act'[a].client = act[a].client /\ act'[a].file = act[a].file
                           /\ act'[a].call = act[a].call /\ act'[a].got = act[a].got
  <2> SUFFICES ASSUME NEW a \in failed, act'[a] = [act[a] EXCEPT !.pc = "release"]
               PROVE  /\ act'[a].pc = "release" /\ act'[a] \in Call
                      /\ act'[a].client = act[a].client /\ act'[a].file = act[a].file
                      /\ act'[a].call = act[a].call /\ act'[a].got = act[a].got
    BY <1>6
  <2>1. act[a] \in Call
    BY <1>0, <1>3 DEF Shape
  <2> QED BY <2>1 DEF Call, PCs, Using
<1>8. act' \in [Callers -> Call]
  <2>1. \A a \in Callers : act'[a] \in Call
    BY <1>0, <1>4, <1>5, <1>7 DEF Shape
  <2>2. act' = [a \in Callers |-> act'[a]]
    BY <1>1
  <2> QED BY <2>1, <2>2
<1>9. /\ pending' \in [Clients -> SUBSET Ask1] /\ inbox' \in [Clients -> SUBSET Mail]
      /\ pending'[i] = {} /\ inbox'[i] = {}
      /\ \A j \in Clients : j # i => pending'[j] = pending[j] /\ inbox'[j] = inbox[j]
  BY <1>0, <1>1 DEF Shape
<1>10. /\ proc' \in [Clients -> {"none", "up", "killed", "gone"}] /\ proc'[i] = "gone"
       /\ \A j \in Clients : j # i => proc'[j] = proc[j]
       /\ ready' \in [Clients -> {"no", "yes", "failed"}]
       /\ \A j \in Clients : j # i => ready'[j] = ready[j]
       /\ exits' \in 0..MaxExits /\ hurt' \in BOOLEAN
  <2>1. exits' \in 0..MaxExits
    BY <1>0, <1>2, LspAssumption DEF Shape, LspAssumption
  <2>2. hurt' \in BOOLEAN
    BY <1>0, <1>2 DEF Shape
  <2>3. ready' \in [Clients -> {"no", "yes", "failed"}] /\ \A j \in Clients : j # i => ready'[j] = ready[j]
    BY <1>0, <1>1 DEF Shape
  <2> QED BY <1>0, <1>1, <2>1, <2>2, <2>3 DEF Shape
<1>11. Shape'
  BY <1>0, <1>1, <1>8, <1>9, <1>10 DEF Shape
<1>12. Created'
  <2>1. \A b \in Callers :
          \/ act'[b].client = act[b].client /\ act'[b].call = act[b].call
             /\ (act'[b].pc # "idle" => act[b].pc # "idle")
          \/ act'[b].client = 0 /\ act'[b].pc = "idle"
    BY <1>4, <1>5, <1>7
  <2>2. Tidy
    BY <1>1, <1>9, <1>10, <2>1 DEF Tidy
  <2> QED BY <1>0, <2>2, CreatedKept
<1>13. Requests'
  <2>1. \A j \in Clients : \A q \in pending'[j] : act'[q.who] = act[q.who]
    <3> SUFFICES ASSUME NEW j \in Clients, NEW q \in pending'[j] PROVE act'[q.who] = act[q.who]
      OBVIOUS
    <3>1. j # i /\ q \in pending[j] /\ q.who \in Callers
      BY <1>9 DEF Ask1
    <3>2. Mine(q.who) = j
      BY <1>0, <3>1 DEF Requests
    <3> QED BY <1>3, <1>5, <3>1, <3>2
  <2>2. \A j \in Clients : pending'[j] \subseteq pending[j] /\ inbox'[j] \subseteq inbox[j]
    BY <1>9
  <2>3. Lossy
    BY <1>1, <2>1, <2>2 DEF Lossy
  <2> QED BY <1>0, <2>3, RequestsLost
<1>14. Counts'
  <2>1. Fades
    BY <1>4, <1>5, <1>7 DEF Fades
  <2>2. \A j \in Clients : refs'[j] <= refs[j]
    BY <1>0, <1>1 DEF Shape
  <2> QED BY <1>0, <1>1, <1>11, <2>1, <2>2, CountsKept
<1>15. Documents'
  <2>1. \A b \in Callers : act'[b].pc = "opening" => act'[b] = act[b]
    BY <1>4, <1>5, <1>7
  <2>2. \A j \in Clients : inbox'[j] \subseteq inbox[j] /\ (proc'[j] = "up" => proc[j] = "up")
    BY <1>9, <1>10
  <2> QED BY <1>0, <1>1, <2>1, <2>2 DEF Documents, Mine
<1>16. Calm'
  <2> SUFFICES ASSUME ~hurt' PROVE ~hurt /\ Steady
    BY <1>0, CalmKept
  <2>1. ~hurt
    BY <1>2
  <2>2. \A a \in failed : act[a].pc # "greeting"
    <3> SUFFICES ASSUME NEW a \in failed, act[a].pc = "greeting", proc[i] = "up" PROVE FALSE
      BY <1>2
    <3>1. a \in Busy /\ Mine(a) = i
      BY <1>3 DEF Busy, At
    <3> QED BY <1>2, <3>1
  <2>3. ready' = ready
    BY <1>1, <2>2
  <2>4. \A b \in Callers : act[b].pc \in Using \cup {"waiting"} => Mine(b) # i
    <3> SUFFICES ASSUME NEW b \in Callers, act[b].pc \in Using \cup {"waiting"}, Mine(b) = i PROVE FALSE
      OBVIOUS
    <3>1. proc[i] = "up"
      BY <1>0, <2>1 DEF Calm
    <3>2. b \in Busy
      BY DEF Busy, At, Using, Starters
    <3> QED BY <1>2, <3>1, <3>2
  <2>5. act' = act
    <3>1. \A b \in Callers : b \notin failed
      BY <1>3, <2>4 DEF Using, Starters
    <3>2. \A b \in Callers : act'[b] = act[b]
      BY <1>5, <3>1
    <3> QED BY <1>0, <1>8, <3>2 DEF Shape
  <2>6. \A b \in Callers : act[b].pc \in PCs
    BY <1>0 DEF Shape, Call
  <2>7. \A b \in Callers : act[b].pc \notin {"idle", "replace"} => proc'[act[b].client] = proc[act[b].client]
    <3> SUFFICES ASSUME NEW b \in Callers, act[b].pc \notin {"idle", "replace"}
                 PROVE  proc'[act[b].client] = proc[act[b].client]
      OBVIOUS
    <3>1. act[b].client # i /\ act[b].client \in Clients
      BY <1>0, <2>4, <2>6 DEF PCs, Mine, Created
    <3> QED BY <1>10, <3>1
  <2>8. \A j \in Clients : inbox'[j] \subseteq inbox[j] /\ (proc'[j] = "up" => proc[j] = "up")
    BY <1>9, <1>10
  <2> QED BY <1>1, <2>1, <2>3, <2>5, <2>7, <2>8 DEF Steady
<1>17. OwnAnswer'
  BY <1>0, <1>4, <1>5, <1>7 DEF OwnAnswer
<1> QED BY <1>11, <1>12, <1>13, <1>14, <1>15, <1>16, <1>17 DEF Inv

(* Cleanup and stopAll: the client in the map is stopped and forgotten.    *)
LEMMA StopKeeps ==
  ASSUME Inv, slot' = 0, timer' \in BOOLEAN, hurt' = (hurt \/ Busy # {}),
         proc' = IF slot = 0 THEN proc ELSE [proc EXCEPT ![slot] = Stopped(@)],
         UNCHANGED <<refs, gate, ready, docs, wire, act, budget>>
  PROVE  Inv'
<1>0. Shape /\ Created /\ Requests /\ Counts /\ Documents /\ Calm /\ OwnAnswer
  BY DEF Inv
<1>1. /\ refs' = refs /\ gate' = gate /\ ready' = ready /\ opened' = opened /\ known' = known
      /\ counter' = counter /\ pending' = pending /\ inbox' = inbox
      /\ act' = act /\ calls' = calls /\ exits' = exits
  BY DEF docs, wire, budget
<1>2. slot = 0 \/ slot \in Clients
  BY <1>0 DEF Shape, Clients
<1>3. /\ proc' \in [Clients -> {"none", "up", "killed", "gone"}]
      /\ \A i \in Clients : /\ proc'[i] = "up" => proc[i] = "up" /\ i # slot
                            /\ proc'[i] = "none" <=> proc[i] = "none"
  BY <1>0, <1>2 DEF Stopped, Shape, Clients
<1>4. Shape'
  BY <1>0, <1>1, <1>3, LspAssumption DEF Shape, LspAssumption
<1>5. Created'
  <2>1. Tidy
    BY <1>1, <1>3 DEF Tidy
  <2> QED BY <1>0, <2>1, CreatedKept
<1>6. Requests'
  BY <1>0, <1>1 DEF Requests, Mine
<1>7. Counts'
  <2>1. Fades
    BY <1>1 DEF Fades
  <2>2. \A j \in Clients : refs'[j] <= refs[j]
    BY <1>0, <1>1 DEF Shape
  <2> QED BY <1>0, <1>1, <1>4, <2>1, <2>2, CountsKept
<1>8. Documents'
  BY <1>0, <1>1, <1>3 DEF Documents, Mine
<1>9. Calm'
  <2> SUFFICES ASSUME ~hurt' PROVE Calm'
    BY DEF Calm
  <2>1. ~hurt /\ \A a \in Callers : act[a].pc = "idle"
    BY DEF Busy, At
  <2>2. \A i \in Clients : proc'[i] # "up"
    BY <1>0, <1>3, <2>1 DEF Calm
  <2>3. \A a \in Callers : act'[a].pc = "idle"
    BY <1>1, <2>1
  <2>4. \A i \in Clients : \A m \in inbox'[i] : m.kind = "ask" => ready'[i] = "yes"
    BY <1>0, <1>1, <2>1 DEF Calm
  <2> QED BY <2>2, <2>3, <2>4 DEF Calm, Using, Starters
<1>10. OwnAnswer'
  BY <1>0, <1>1 DEF OwnAnswer
<1> QED BY <1>4, <1>5, <1>6, <1>7, <1>8, <1>9, <1>10 DEF Inv

-----------------------------------------------------------------------------
(* Calls that begin, wait, take a client, and create one.                  *)

(* A start that failed: the process is gone before initialize.             *)
LEMMA StartFails ==
  ASSUME Inv, NEW a \in Callers, act[a].pc = "starting", InitFails(a),
         UNCHANGED <<wire, proc, docs, budget, timer>>
  PROVE  Inv'
<1>0. Shape /\ Created /\ Requests /\ Counts /\ Documents /\ Calm /\ OwnAnswer
  BY DEF Inv
<1>1. /\ ready' = [ready EXCEPT ![Mine(a)] = "failed"] /\ hurt' = TRUE
      /\ act' = [act EXCEPT ![a] = Idle]
      /\ slot' = slot /\ refs' = refs /\ proc' = proc /\ gate' = gate
      /\ opened' = opened /\ known' = known
      /\ counter' = counter /\ pending' = pending /\ inbox' = inbox
      /\ calls' = calls /\ exits' = exits /\ timer' = timer
  BY DEF InitFails, wire, docs, budget
<1>2. Becomes(a, "idle", 0, Idle.file, 0, 0)
  BY <1>0, <1>1, Ended
<1>3. Mine(a) \in Clients /\ proc[Mine(a)] # "none"
  BY <1>0 DEF Created
<1>4. ready' \in [Clients -> {"no", "yes", "failed"}] /\ \A i \in Clients : i # Mine(a) => ready'[i] = ready[i]
  BY <1>0, <1>1, <1>3 DEF Shape
<1>5. Shape'
  BY <1>0, <1>1, <1>2, <1>4 DEF Shape, Becomes
<1>6. Created'
  <2>1. Tidy
    BY <1>1, <1>2, <1>3, <1>4 DEF Tidy, Becomes, Mine
  <2> QED BY <1>0, <2>1, CreatedKept
<1>7. Requests'
  <2>1. UNCHANGED wire /\ \A b \in Callers : b # a => act'[b] = act[b]
    BY <1>1, <1>2 DEF Becomes, wire
  <2> QED BY <1>0, <2>1, RequestsKept
<1>8. Counts'
  <2>1. Fades
    BY <1>2 DEF Fades, Becomes
  <2>2. \A i \in Clients : refs'[i] <= refs[i]
    BY <1>0, <1>1 DEF Shape
  <2> QED BY <1>0, <1>1, <1>5, <2>1, <2>2, CountsKept
<1>9. Documents'
  BY <1>0, <1>1, <1>2 DEF Documents, Becomes, Mine
<1>10. Calm'
  BY <1>1 DEF Calm
<1>11. OwnAnswer'
  BY <1>0, <1>2 DEF OwnAnswer, Becomes
<1> QED BY <1>5, <1>6, <1>7, <1>8, <1>9, <1>10, <1>11 DEF Inv

(* A wait that ends in the failure of the start.                           *)
LEMMA WaitFails ==
  ASSUME Inv, NEW a \in Callers, act[a].pc = "waiting", act' = [act EXCEPT ![a] = Idle],
         UNCHANGED <<entry, proc, docs, wire, budget, timer, hurt>>
  PROVE  Inv'
<1>0. Shape /\ Created /\ Requests /\ Counts /\ Documents /\ Calm /\ OwnAnswer
  BY DEF Inv
<1>1. /\ slot' = slot /\ refs' = refs /\ proc' = proc /\ gate' = gate /\ ready' = ready
      /\ opened' = opened /\ known' = known
      /\ counter' = counter /\ pending' = pending /\ inbox' = inbox
      /\ calls' = calls /\ exits' = exits /\ timer' = timer /\ hurt' = hurt
  BY DEF entry, wire, docs, budget
<1>2. Becomes(a, "idle", 0, Idle.file, 0, 0)
  BY <1>0, Ended
<1>5. Shape'
  BY <1>0, <1>1, <1>2 DEF Shape, Becomes
<1>6. Created'
  <2>1. Tidy
    BY <1>1, <1>2 DEF Tidy, Becomes, Mine
  <2> QED BY <1>0, <2>1, CreatedKept
<1>7. Requests'
  <2>1. UNCHANGED wire /\ \A b \in Callers : b # a => act'[b] = act[b]
    BY <1>1, <1>2 DEF Becomes, wire
  <2> QED BY <1>0, <2>1, RequestsKept
<1>8. Counts'
  <2>1. Fades
    BY <1>2 DEF Fades, Becomes
  <2>2. \A i \in Clients : refs'[i] <= refs[i]
    BY <1>0, <1>1 DEF Shape
  <2> QED BY <1>0, <1>1, <1>5, <2>1, <2>2, CountsKept
<1>9. Documents'
  BY <1>0, <1>1, <1>2 DEF Documents, Becomes, Mine
<1>10. Calm'
  <2> SUFFICES ASSUME ~hurt PROVE Steady
    BY <1>0, <1>1, CalmKept
  <2>1. \A b \in Callers : act[b].pc \in Using => act'[b] = act[b]
    BY <1>2 DEF Becomes, Using, Starters
  <2>2. \A b \in Callers : act'[b].pc # "idle" => act'[b] = act[b]
    BY <1>2 DEF Becomes
  <2> QED BY <1>1, <2>1, <2>2 DEF Steady, Using, Starters
<1>11. OwnAnswer'
  BY <1>0, <1>2 DEF OwnAnswer, Becomes
<1> QED BY <1>5, <1>6, <1>7, <1>8, <1>9, <1>10, <1>11 DEF Inv

(* Counts stay right when at most one call begins, and each client gains   *)
(* no more than that in references and calls that are still to be counted. *)
Grown(k) ==
  /\ calls' = calls + k /\ counter' = counter
  /\ Cardinality(Unasked') <= Cardinality(Unasked) + k
  /\ \A i \in Clients : refs'[i] + Cardinality(Untaken') <= refs[i] + Cardinality(Untaken) + k
  /\ \A i \in Clients : Starting(i)' => Starting(i) \/ counter[i] = 0
  /\ \A b, c \in Callers :
       act'[b].pc = "starting" /\ act'[c].pc = "starting" /\ Mine(b)' = Mine(c)' => b = c

LEMMA CountsGrown ==
  ASSUME Shape, Shape', Counts, NEW k \in {0, 1}, Grown(k)
  PROVE  Counts'
<1>1. /\ Unasked \in SUBSET Callers /\ Untaken \in SUBSET Callers
      /\ Unasked' \in SUBSET Callers /\ Untaken' \in SUBSET Callers
  BY DEF Unasked, Untaken
<1>2. /\ Cardinality(Unasked) \in Nat /\ Cardinality(Untaken) \in Nat
      /\ Cardinality(Unasked') \in Nat /\ Cardinality(Untaken') \in Nat
  BY <1>1, FewCallers
<1>3. calls \in Nat /\ \A i \in Clients : refs[i] \in Nat /\ refs'[i] \in Nat /\ counter[i] \in Nat
  BY DEF Shape
<1>4. Cardinality(Unasked') <= calls'
  BY <1>2, <1>3 DEF Counts, Grown
<1>5. \A i \in Clients :
        /\ refs'[i] + Cardinality(Untaken') <= calls'
        /\ counter'[i] + Cardinality(Unasked') <= calls' + (IF Starting(i)' THEN 0 ELSE 1)
  <2> SUFFICES ASSUME NEW i \in Clients
               PROVE  /\ refs'[i] + Cardinality(Untaken') <= calls'
                      /\ counter'[i] + Cardinality(Unasked') <= calls' + (IF Starting(i)' THEN 0 ELSE 1)
    OBVIOUS
  <2>1. /\ refs[i] + Cardinality(Untaken) <= calls
        /\ counter[i] + Cardinality(Unasked) <= calls + (IF Starting(i) THEN 0 ELSE 1)
    BY DEF Counts
  <2>2. /\ refs'[i] + Cardinality(Untaken') <= refs[i] + Cardinality(Untaken) + k
        /\ Cardinality(Unasked') <= Cardinality(Unasked) + k
        /\ calls' = calls + k /\ counter'[i] = counter[i]
        /\ Starting(i)' => Starting(i) \/ counter[i] = 0
    BY DEF Grown
  <2> HIDE DEF Starting
  <2> QED BY <2>1, <2>2, <1>2, <1>3, <1>4
<1> QED BY <1>4, <1>5 DEF Counts, Grown, Mine

(* What a call does that finds the entry of client i: it waits, or takes.  *)
LEMMA WaitKeeps ==
  ASSUME Inv, NEW a \in Callers, NEW f \in Files, act[a].pc = "idle", calls < MaxCalls,
         slot # 0, slot \in gate, calls' = calls + 1,
         act' = [act EXCEPT ![a] =
           [pc |-> "waiting", client |-> slot, file |-> f, call |-> calls + 1, got |-> 0]],
         UNCHANGED <<entry, proc, docs, wire, exits, timer, hurt>>
  PROVE  Inv'
<1>0. Shape /\ Created /\ Requests /\ Counts /\ Documents /\ Calm /\ OwnAnswer
  BY DEF Inv
<1>1. /\ slot' = slot /\ refs' = refs /\ proc' = proc /\ gate' = gate /\ ready' = ready
      /\ opened' = opened /\ known' = known
      /\ counter' = counter /\ pending' = pending /\ inbox' = inbox
      /\ exits' = exits /\ timer' = timer /\ hurt' = hurt
  BY DEF entry, wire, docs
<1>2. Becomes(a, "waiting", slot, f, calls + 1, 0) /\ slot \in Clients
      /\ calls + 1 \in 1..MaxCalls /\ proc[slot] # "none"
  <2>1. slot \in 0..MaxCalls /\ calls + 1 \in 1..MaxCalls /\ calls + 1 \in 0..MaxCalls /\ 0 \in 0..MaxCalls
    BY <1>0, LspAssumption DEF Shape, LspAssumption
  <2>2. Becomes(a, "waiting", slot, f, calls + 1, 0)
    BY <1>0, <2>1, Became DEF PCs
  <2>3. slot \in Clients
    BY <2>1 DEF Clients
  <2> QED BY <1>0, <2>1, <2>2, <2>3 DEF Created
<1>3. calls' \in 0..MaxCalls
  BY <1>2
<1>5. Shape'
  BY <1>0, <1>1, <1>2, <1>3 DEF Shape, Becomes
<1>6. Created'
  BY <1>0, <1>1, <1>2 DEF Created, Becomes, Mine
<1>7. Requests'
  <2>1. UNCHANGED wire /\ \A b \in Callers : b # a => act'[b] = act[b]
    BY <1>1, <1>2 DEF Becomes, wire
  <2> QED BY <1>0, <2>1, RequestsKept
<1>8. Counts'
  <2>1. Unasked' \subseteq Unasked \cup {a} /\ Untaken' \subseteq Untaken \cup {a}
    BY <1>2 DEF Becomes, Unasked, Untaken
  <2>2. Unasked \in SUBSET Callers /\ Untaken \in SUBSET Callers
        /\ Unasked' \in SUBSET Callers /\ Untaken' \in SUBSET Callers
    BY DEF Unasked, Untaken
  <2>3. Cardinality(Unasked') <= Cardinality(Unasked) + 1 /\ Cardinality(Untaken') <= Cardinality(Untaken) + 1
    BY <2>1, <2>2, OneMore
  <2>4. Cardinality(Untaken) \in Nat /\ Cardinality(Untaken') \in Nat
    BY <2>2, FewCallers
  <2>5. \A i \in Clients : refs'[i] + Cardinality(Untaken') <= refs[i] + Cardinality(Untaken) + 1
    BY <1>0, <1>1, <2>3, <2>4 DEF Shape
  <2>6. \A b \in Callers : act'[b].pc = "starting" => act'[b] = act[b]
    BY <1>2 DEF Becomes
  <2>7. \A i \in Clients : Starting(i)' => Starting(i)
    BY <2>6 DEF Starting, At, Mine
  <2>8. \A b, c \in Callers :
          act'[b].pc = "starting" /\ act'[c].pc = "starting" /\ Mine(b)' = Mine(c)' => b = c
    BY <1>0, <2>6 DEF Counts, Mine
  <2>9. Grown(1)
    BY <1>1, <2>3, <2>5, <2>7, <2>8 DEF Grown
  <2> QED BY <1>0, <1>5, <2>9, CountsGrown
<1>9. Documents'
  BY <1>0, <1>1, <1>2 DEF Documents, Becomes, Mine
<1>10. Calm'
  <2> SUFFICES ASSUME ~hurt PROVE Calm'
    BY <1>1 DEF Calm
  <2>1. PICK b \in Callers : Mine(b) = slot /\ act[b].pc \in Starters
    BY <1>0 DEF Calm
  <2>2. proc[slot] = "up"
    BY <1>0, <2>1 DEF Calm, Using
  <2>3. Users(slot)' = Users(slot)
    BY <1>1, <1>2 DEF Users, Becomes, Mine, Using, Starters
  <2>4. Cardinality(Users(slot))' = Cardinality(Users(slot))
    BY <2>3
  <2>5. b # a /\ act'[b] = act[b]
    BY <1>2, <2>1 DEF Starters, Becomes
  <2>6. slot' # 0 => refs'[slot'] = Cardinality(Users(slot))'
    BY <1>0, <1>1, <2>4 DEF Calm
  <2>7. \A c \in Callers : act'[c].pc \in Using \cup {"waiting"} =>
          act'[c].client = slot' /\ proc'[slot'] = "up"
    BY <1>0, <1>1, <1>2, <2>2 DEF Calm, Becomes, Mine
  <2>8. \A c \in Callers : act'[c].pc = "replace" => proc'[act'[c].client] # "up"
    BY <1>0, <1>1, <1>2 DEF Calm, Becomes, Mine
  <2>9. \A c \in Callers : act'[c].pc \in Using \ Starters => ready'[act'[c].client] = "yes"
    BY <1>0, <1>1, <1>2 DEF Calm, Becomes, Mine, Using, Starters
  <2>10. \E c \in Callers : act'[c].client = slot' /\ act'[c].pc \in Starters
    BY <1>1, <2>1, <2>5 DEF Mine
  <2>11. (\A i \in Clients : proc'[i] = "up" => i = slot')
         /\ (\A i \in Clients : \A m \in inbox'[i] : m.kind = "ask" => ready'[i] = "yes")
         /\ slot' \in gate'
    BY <1>0, <1>1 DEF Calm
  <2> QED BY <2>6, <2>7, <2>8, <2>9, <2>10, <2>11 DEF Calm, Mine
<1>11. OwnAnswer'
  BY <1>0, <1>2 DEF OwnAnswer, Becomes
<1> QED BY <1>5, <1>6, <1>7, <1>8, <1>9, <1>10, <1>11 DEF Inv

LEMMA TakeKeeps ==
  ASSUME Inv, NEW a \in Callers, NEW i \in Clients, NEW c \in 1..MaxCalls, NEW f \in Files,
         NEW k \in {0, 1}, calls + k <= MaxCalls, calls' = calls + k,
         IF k = 0 THEN act[a].pc = "waiting" ELSE act[a].pc = "idle",
         proc[i] # "none", Take(a, i, c, f),
         ~hurt => /\ i = slot /\ ready[i] = "yes"
                  /\ act[a].pc = "waiting" => proc[i] = "up",
         UNCHANGED <<docs, wire, exits, timer, hurt>>
  PROVE  Inv'
<1> DEFINE here == IF proc[i] = "up" THEN "open" ELSE "replace"
<1>0. Shape /\ Created /\ Requests /\ Counts /\ Documents /\ Calm /\ OwnAnswer
  BY DEF Inv
<1>1. /\ slot' = slot /\ proc' = proc /\ gate' = gate /\ ready' = ready
      /\ opened' = opened /\ known' = known
      /\ counter' = counter /\ pending' = pending /\ inbox' = inbox
      /\ exits' = exits /\ timer' = timer /\ hurt' = hurt
      /\ refs' = IF proc[i] = "up" THEN [refs EXCEPT ![i] = @ + 1] ELSE refs
      /\ act' = [act EXCEPT ![a] = [pc |-> here, client |-> i, file |-> f, call |-> c, got |-> 0]]
  BY DEF Take, isAlive, wire, docs
<1>2. Becomes(a, here, i, f, c, 0)
  <2>1. here \in PCs /\ i \in 0..MaxCalls /\ c \in 0..MaxCalls /\ 0 \in 0..MaxCalls
    BY LspAssumption DEF PCs, Using, Clients, LspAssumption
  <2> HIDE DEF here
  <2> QED BY <1>0, <1>1, <2>1, Became
<1>3. act[a].pc \in {"waiting", "idle"} /\ here \in {"open", "replace"}
  OBVIOUS
<1>4. /\ refs' \in [Clients -> Nat]
      /\ \A j \in Clients : j # i => refs'[j] = refs[j]
      /\ refs'[i] = IF proc[i] = "up" THEN refs[i] + 1 ELSE refs[i]
  BY <1>0, <1>1 DEF Shape
<1>4a. (proc[i] = "up" <=> here = "open") /\ (proc[i] # "up" <=> here = "replace")
  OBVIOUS
<1> DEFINE n == IF proc[i] = "up" THEN 1 ELSE 0
<1>4b. n \in {0, 1} /\ (n = 1 <=> here = "open") /\ (n = 0 <=> here = "replace")
  OBVIOUS
<1>4c. refs'[i] = refs[i] + n
  <2>1. refs[i] \in Nat
    BY <1>0 DEF Shape
  <2>2. CASE proc[i] = "up"
    <3>1. n = 1
      BY <2>2
    <3>2. refs'[i] = refs[i] + 1
      BY <1>4, <2>2
    <3> QED BY <3>1, <3>2
  <2>3. CASE proc[i] # "up"
    <3>1. n = 0
      BY <2>3
    <3>2. refs'[i] = refs[i]
      BY <1>4, <2>3
    <3> HIDE DEF n
    <3> QED BY <2>1, <3>1, <3>2
  <2> QED BY <2>2, <2>3
<1> HIDE DEF here, n
<1>5. Shape'
  BY <1>0, <1>1, <1>2, <1>4 DEF Shape, Becomes
<1>6. Created'
  BY <1>0, <1>1, <1>2, <1>4 DEF Created, Becomes, Mine
<1>7. Requests'
  <2>1. UNCHANGED wire /\ \A b \in Callers : b # a => act'[b] = act[b]
    BY <1>1, <1>2 DEF Becomes, wire
  <2> QED BY <1>0, <1>3, <2>1, RequestsKept
<1>8. Counts'
  <2>2. Unasked \in SUBSET Callers /\ Untaken \in SUBSET Callers
        /\ Unasked' \in SUBSET Callers /\ Untaken' \in SUBSET Callers
    BY DEF Unasked, Untaken
  <2>4. Cardinality(Untaken) \in Nat /\ Cardinality(Untaken') \in Nat
        /\ Cardinality(Unasked) \in Nat /\ Cardinality(Unasked') \in Nat
    BY <2>2, FewCallers
  <2>1. Cardinality(Unasked') <= Cardinality(Unasked) + k
    <3>1. CASE k = 0
      <4>1. Unasked' \subseteq Unasked
        BY <1>2, <3>1 DEF Becomes, Unasked
      <4> QED BY <2>2, <2>4, <3>1, <4>1, Smaller
    <3>2. CASE k = 1
      <4>1. Unasked' \subseteq Unasked \cup {a}
        BY <1>2 DEF Becomes, Unasked
      <4> QED BY <2>2, <3>2, <4>1, OneMore
    <3> QED BY <3>1, <3>2
  <2>3. Cardinality(Untaken') <= Cardinality(Untaken) + k - n
    <3>1. CASE k = 0 /\ here = "open"
      <4>1. Untaken' = Untaken \ {a} /\ a \in Untaken
        BY <1>2, <3>1 DEF Becomes, Untaken
      <4> QED BY <1>4b, <2>2, <2>4, <3>1, <4>1, OneMore
    <3>2. CASE k = 0 /\ here = "replace"
      <4>1. Untaken' \subseteq Untaken
        BY <1>2, <3>2 DEF Becomes, Untaken
      <4> QED BY <1>4b, <2>2, <2>4, <3>2, <4>1, Smaller
    <3>3. CASE k = 1 /\ here = "open"
      <4>1. Untaken' \subseteq Untaken
        BY <1>2, <3>3 DEF Becomes, Untaken
      <4> QED BY <1>4b, <2>2, <2>4, <3>3, <4>1, Smaller
    <3>4. CASE k = 1 /\ here = "replace"
      <4>1. Untaken' \subseteq Untaken \cup {a}
        BY <1>2 DEF Becomes, Untaken
      <4> QED BY <1>4b, <2>2, <2>4, <3>4, <4>1, OneMore
    <3> QED BY <1>3, <3>1, <3>2, <3>3, <3>4
  <2>5. \A j \in Clients : refs'[j] + Cardinality(Untaken') <= refs[j] + Cardinality(Untaken) + k
    <3> SUFFICES ASSUME NEW j \in Clients
                 PROVE  refs'[j] + Cardinality(Untaken') <= refs[j] + Cardinality(Untaken) + k
      OBVIOUS
    <3>1. refs[j] \in Nat /\ refs'[j] \in Nat
      BY <1>0, <1>4 DEF Shape
    <3>2. refs'[j] <= refs[j] + n
      BY <1>4, <1>4b, <1>4c, <3>1
    <3> QED BY <1>4b, <2>3, <2>4, <3>1, <3>2
  <2>6. \A b \in Callers : act'[b].pc = "starting" => act'[b] = act[b]
    BY <1>2, <1>3 DEF Becomes
  <2>7. \A j \in Clients : Starting(j)' => Starting(j)
    BY <2>6 DEF Starting, At, Mine
  <2>8. \A b, d \in Callers :
          act'[b].pc = "starting" /\ act'[d].pc = "starting" /\ Mine(b)' = Mine(d)' => b = d
    BY <1>0, <2>6 DEF Counts, Mine
  <2>9. Grown(k)
    BY <1>1, <2>1, <2>5, <2>7, <2>8 DEF Grown
  <2> QED BY <1>0, <1>5, <2>9, CountsGrown
<1>9. Documents'
  BY <1>0, <1>1, <1>2, <1>3 DEF Documents, Becomes, Mine
<1>10. Calm'
  <2> SUFFICES ASSUME ~hurt PROVE Calm'
    BY <1>1 DEF Calm
  <2>0. i = slot /\ ready[i] = "yes" /\ slot # 0
    BY DEF Clients
  <2>1. slot' # 0 => refs'[slot'] = Cardinality(Users(slot))'
    <3>0. Users(slot) \in SUBSET Callers /\ Users(slot)' \in SUBSET Callers
      BY DEF Users
    <3>1. a \notin Users(slot) /\ \A b \in Callers : b # a => (b \in Users(slot)' <=> b \in Users(slot))
      BY <1>1, <1>2, <1>3 DEF Users, Becomes, Mine, Using, Starters
    <3>2. a \in Users(slot)' <=> here = "open"
      BY <1>1, <1>2, <1>3, <2>0 DEF Users, Becomes, Mine, Using, Starters
    <3>3. refs[slot] = Cardinality(Users(slot))
      BY <1>0, <2>0 DEF Calm
    <3>4. refs'[slot] = Cardinality(Users(slot)')
      <4>1. CASE here = "open"
        <5>1. Users(slot)' = Users(slot) \cup {a}
          BY <3>0, <3>1, <3>2, <4>1
        <5> QED BY <1>4b, <1>4c, <2>0, <3>0, <3>1, <3>3, <4>1, <5>1, OneMore
      <4>2. CASE here = "replace"
        <5>1. Users(slot)' = Users(slot)
          BY <3>0, <3>1, <3>2, <4>2
        <5>2. refs'[slot] = refs[slot]
          BY <1>0, <1>4b, <1>4c, <2>0, <4>2 DEF Shape
        <5> QED BY <3>3, <5>1, <5>2
      <4> QED BY <1>3, <4>1, <4>2
    <3>5. Cardinality(Users(slot))' = Cardinality(Users(slot)')
      OBVIOUS
    <3> QED BY <1>1, <3>4, <3>5
  <2>2. \A b \in Callers : act'[b].pc \in Using \cup {"waiting"} =>
          act'[b].client = slot' /\ proc'[slot'] = "up"
    <3> SUFFICES ASSUME NEW b \in Callers, act'[b].pc \in Using \cup {"waiting"}
                 PROVE  act'[b].client = slot /\ proc[slot] = "up"
      BY <1>1
    <3>1. CASE b = a
      BY <1>2, <1>4a, <2>0, <3>1, <1>3 DEF Becomes, Using, Starters
    <3>2. CASE b # a
      BY <1>0, <1>2, <3>2 DEF Becomes, Calm, Mine
    <3> QED BY <3>1, <3>2
  <2>3. \A b \in Callers : act'[b].pc = "replace" => proc'[act'[b].client] # "up"
    BY <1>0, <1>1, <1>2, <1>4a DEF Calm, Becomes, Mine
  <2>4. \A b \in Callers : act'[b].pc \in Using \ Starters => ready'[act'[b].client] = "yes"
    BY <1>0, <1>1, <1>2, <2>0 DEF Calm, Becomes, Mine
  <2>5. slot' # 0 /\ slot' \in gate' => \E b \in Callers : act'[b].client = slot' /\ act'[b].pc \in Starters
    <3> SUFFICES ASSUME slot \in gate
                 PROVE  \E b \in Callers : act'[b].client = slot /\ act'[b].pc \in Starters
      BY <1>1
    <3>1. PICK b \in Callers : Mine(b) = slot /\ act[b].pc \in Starters
      BY <1>0, <2>0 DEF Calm
    <3>2. b # a
      BY <1>3, <3>1 DEF Starters
    <3> QED BY <1>2, <3>1, <3>2 DEF Becomes, Mine
  <2>6. (\A j \in Clients : proc'[j] = "up" => j = slot')
        /\ (\A j \in Clients : \A m \in inbox'[j] : m.kind = "ask" => ready'[j] = "yes")
        /\ ready'[slot'] = "yes"
    BY <1>0, <1>1, <2>0 DEF Calm
  <2> QED BY <2>1, <2>2, <2>3, <2>4, <2>5, <2>6 DEF Calm, Mine
<1>11. OwnAnswer'
  BY <1>0, <1>2 DEF OwnAnswer, Becomes
<1> QED BY <1>5, <1>6, <1>7, <1>8, <1>9, <1>10, <1>11 DEF Inv

(* A new client is the first that was never created.                       *)
LEMMA Fresh ==
  ASSUME \E j \in Clients : proc[j] = "none"
  PROVE  LET i == CHOOSE j \in Clients : proc[j] = "none" /\ \A k \in 1..(j - 1) : proc[k] # "none"
         IN  i \in Clients /\ proc[i] = "none"
<1> DEFINE T == {j \in Clients : proc[j] = "none"}
<1>1. T \in SUBSET Nat /\ T # {} /\ T \subseteq Clients
  BY DEF Clients
<1>2. PICK n \in T : \A m \in T : n <= m
  <2> HIDE DEF T
  <2> QED BY <1>1, Least
<1>3. n \in Clients /\ proc[n] = "none"
  BY <1>2
<1>4. \A k \in 1..(n - 1) : proc[k] # "none"
  <2> SUFFICES ASSUME NEW k \in 1..(n - 1), proc[k] = "none" PROVE FALSE
    OBVIOUS
  <2>1. k \in Clients /\ k < n
    BY <1>3, LspAssumption DEF Clients, LspAssumption
  <2>2. k \in T
    BY <2>1
  <2> QED BY <1>1, <1>2, <2>1, <2>2
<1> QED BY <1>3, <1>4

LEMMA CreateKeeps ==
  ASSUME Inv, NEW a \in Callers, NEW c \in 1..MaxCalls, NEW f \in Files,
         NEW k \in {0, 1}, calls + k <= MaxCalls, calls' = calls + k,
         IF k = 0 THEN act[a].pc = "replace" ELSE act[a].pc = "idle",
         Create(a, c, f), proc' = [proc EXCEPT ![slot'] = "up"],
         hurt' \in BOOLEAN, hurt => hurt',
         ~hurt' => slot = 0 \/ (slot = Mine(a) /\ act[a].pc = "replace"),
         UNCHANGED <<docs, wire, exits, timer>>
  PROVE  Inv'
<1> DEFINE i == CHOOSE j \in Clients : proc[j] = "none" /\ \A n \in 1..(j - 1) : proc[n] # "none"
<1>0. Shape /\ Created /\ Requests /\ Counts /\ Documents /\ Calm /\ OwnAnswer
  BY DEF Inv
<1>1. /\ \E j \in Clients : proc[j] = "none"
      /\ slot' = i /\ refs' = [refs EXCEPT ![i] = 1] /\ gate' = gate \cup {i}
      /\ ready' = ready /\ opened' = opened /\ known' = known
      /\ counter' = counter /\ pending' = pending /\ inbox' = inbox
      /\ exits' = exits /\ timer' = timer
      /\ act' = [act EXCEPT ![a] = [pc |-> "starting", client |-> i, file |-> f, call |-> c, got |-> 0]]
  BY DEF Create, wire, docs
<1>2. i \in Clients /\ proc[i] = "none"
  BY <1>1, Fresh
<1> HIDE DEF i
<1>3. Becomes(a, "starting", i, f, c, 0)
  <2>1. "starting" \in PCs /\ i \in 0..MaxCalls /\ c \in 0..MaxCalls /\ 0 \in 0..MaxCalls
    BY <1>2, LspAssumption DEF PCs, Using, Starters, Clients, LspAssumption
  <2> QED BY <1>0, <1>1, <2>1, Became
<1>4. act[a].pc \in {"replace", "idle"}
  OBVIOUS
<1>5. /\ refs[i] = 0 /\ counter[i] = 0 /\ pending[i] = {} /\ inbox[i] = {}
      /\ opened[i] = {} /\ known[i] = {} /\ \A b \in Callers : Mine(b) # i
  BY <1>0, <1>2 DEF Created
<1>6. /\ refs' \in [Clients -> Nat] /\ refs'[i] = 1 /\ \A j \in Clients : j # i => refs'[j] = refs[j]
      /\ proc' \in [Clients -> {"none", "up", "killed", "gone"}] /\ proc'[i] = "up"
      /\ \A j \in Clients : j # i => proc'[j] = proc[j]
  BY <1>0, <1>1, <1>2 DEF Shape
<1>7. Shape'
  <2>1. slot' \in 0..MaxCalls /\ gate' \subseteq Clients /\ calls' \in 0..MaxCalls
    BY <1>0, <1>1, <1>2, LspAssumption DEF Shape, Clients, LspAssumption
  <2> QED BY <1>0, <1>1, <1>3, <1>6, <2>1 DEF Shape, Becomes
<1>8. Created'
  BY <1>0, <1>1, <1>2, <1>3, <1>6 DEF Created, Becomes, Mine
<1>9. Requests'
  <2>1. UNCHANGED wire /\ \A b \in Callers : b # a => act'[b] = act[b]
    BY <1>1, <1>3 DEF Becomes, wire
  <2> QED BY <1>0, <1>4, <2>1, RequestsKept
<1>10. Counts'
  <2>1. Unasked \in SUBSET Callers /\ Untaken \in SUBSET Callers
        /\ Unasked' \in SUBSET Callers /\ Untaken' \in SUBSET Callers
    BY DEF Unasked, Untaken
  <2>2. Cardinality(Untaken) \in Nat /\ Cardinality(Untaken') \in Nat
        /\ Cardinality(Unasked) \in Nat /\ Cardinality(Unasked') \in Nat
    BY <2>1, FewCallers
  <2>3. Cardinality(Unasked') <= Cardinality(Unasked) + k
    <3>1. CASE k = 0
      <4>1. Unasked' \subseteq Unasked
        BY <1>3, <3>1 DEF Becomes, Unasked
      <4> QED BY <2>1, <2>2, <3>1, <4>1, Smaller
    <3>2. CASE k = 1
      <4>1. Unasked' \subseteq Unasked \cup {a}
        BY <1>3 DEF Becomes, Unasked
      <4> QED BY <2>1, <3>2, <4>1, OneMore
    <3> QED BY <3>1, <3>2
  <2>4. Cardinality(Untaken') <= Cardinality(Untaken) + k - 1
    <3>1. CASE k = 0
      <4>1. Untaken' = Untaken \ {a} /\ a \in Untaken
        BY <1>3, <3>1 DEF Becomes, Untaken
      <4> QED BY <2>1, <2>2, <3>1, <4>1, OneMore
    <3>2. CASE k = 1
      <4>1. Untaken' \subseteq Untaken
        BY <1>3 DEF Becomes, Untaken
      <4> QED BY <2>1, <2>2, <3>2, <4>1, Smaller
    <3> QED BY <3>1, <3>2
  <2>5. \A j \in Clients : refs'[j] + Cardinality(Untaken') <= refs[j] + Cardinality(Untaken) + k
    <3> SUFFICES ASSUME NEW j \in Clients
                 PROVE  refs'[j] + Cardinality(Untaken') <= refs[j] + Cardinality(Untaken) + k
      OBVIOUS
    <3>1. refs[j] \in Nat /\ refs'[j] \in Nat
      BY <1>0, <1>6 DEF Shape
    <3>2. refs'[j] <= refs[j] + 1
      BY <1>5, <1>6, <3>1
    <3> QED BY <2>2, <2>4, <3>1, <3>2
  <2>6. \A j \in Clients : Starting(j)' => Starting(j) \/ counter[j] = 0
    BY <1>3, <1>5 DEF Starting, At, Mine, Becomes
  <2>7. \A b, d \in Callers :
          act'[b].pc = "starting" /\ act'[d].pc = "starting" /\ Mine(b)' = Mine(d)' => b = d
    BY <1>0, <1>3, <1>5 DEF Counts, Mine, Becomes
  <2>8. Grown(k)
    BY <1>1, <2>3, <2>5, <2>6, <2>7 DEF Grown
  <2> QED BY <1>0, <1>7, <2>8, CountsGrown
<1>11. Documents'
  <2>1. \A j \in Clients : proc'[j] = "up" => opened'[j] \subseteq known'[j]
    BY <1>0, <1>1, <1>5, <1>6 DEF Documents
  <2>2. \A b \in Callers : act'[b].pc = "opening" => act'[b].file \in opened'[act'[b].client]
    BY <1>0, <1>1, <1>3 DEF Documents, Becomes, Mine
  <2> QED BY <1>0, <1>1, <2>1, <2>2 DEF Documents, Mine
<1>12. Calm'
  <2> SUFFICES ASSUME ~hurt' PROVE Calm'
    BY DEF Calm
  <2>1. ~hurt /\ (slot = 0 \/ (slot = Mine(a) /\ act[a].pc = "replace"))
    OBVIOUS
  <2>2. slot # 0 => proc[slot] # "up"
    BY <1>0, <2>1 DEF Calm
  <2>3. \A b \in Callers : act[b].pc \notin Using \cup {"waiting"}
    <3> SUFFICES ASSUME NEW b \in Callers, act[b].pc \in Using \cup {"waiting"} PROVE FALSE
      OBVIOUS
    <3>1. Mine(b) = slot /\ proc[slot] = "up"
      BY <1>0, <2>1 DEF Calm
    <3>2. Mine(b) \in Clients
      BY <1>0 DEF Created, Using, Starters
    <3> QED BY <2>2, <3>1, <3>2 DEF Clients
  <2>4. \A j \in Clients : proc[j] # "up"
    BY <1>0, <2>1, <2>2 DEF Calm, Clients
  <2>5. slot' # 0 => refs'[slot'] = Cardinality(Users(slot))'
    <3>1. Users(slot)' = {a}
      BY <1>1, <1>3, <2>3 DEF Users, Becomes, Mine, Using, Starters
    <3>2. Cardinality(Users(slot)') = 1
      BY <3>1, FS_Singleton
    <3>3. Cardinality(Users(slot))' = Cardinality(Users(slot)')
      OBVIOUS
    <3> QED BY <1>1, <1>6, <3>2, <3>3
  <2>6. \A b \in Callers : b # a => act'[b].pc \in {"idle", "replace"}
    <3> SUFFICES ASSUME NEW b \in Callers, b # a PROVE act'[b].pc \in {"idle", "replace"}
      OBVIOUS
    <3>1. act'[b] = act[b] /\ act[b].pc \in PCs
      BY <1>0, <1>3 DEF Becomes, Shape, Call
    <3> QED BY <2>3, <3>1 DEF PCs
  <2>7. \A b \in Callers : act'[b].pc = "replace" => proc'[act'[b].client] # "up"
    <3> SUFFICES ASSUME NEW b \in Callers, act'[b].pc = "replace" PROVE proc'[act'[b].client] # "up"
      OBVIOUS
    <3>1. act'[b] = act[b] /\ Mine(b) \in Clients /\ Mine(b) # i
      BY <1>0, <1>3, <1>5 DEF Becomes, Created
    <3> QED BY <1>6, <2>4, <3>1 DEF Mine
  <2>8. \A b \in Callers : act'[b].pc \in Using \cup {"waiting"} =>
          act'[b].client = slot' /\ proc'[slot'] = "up" /\ act'[b].pc = "starting"
    <3> SUFFICES ASSUME NEW b \in Callers, act'[b].pc \in Using \cup {"waiting"}
                 PROVE  act'[b].client = slot' /\ proc'[slot'] = "up" /\ act'[b].pc = "starting"
      OBVIOUS
    <3>1. b = a
      BY <2>6 DEF Using, Starters
    <3> QED BY <1>1, <1>3, <1>6, <3>1 DEF Becomes
  <2>9. act'[a].client = slot' /\ act'[a].pc \in Starters /\ slot' \in gate'
    BY <1>1, <1>3 DEF Becomes, Starters
  <2>10. (\A j \in Clients : proc'[j] = "up" => j = slot')
         /\ (\A j \in Clients : \A m \in inbox'[j] : m.kind = "ask" => ready'[j] = "yes")
    BY <1>0, <1>1, <1>6, <2>1, <2>4 DEF Calm
  <2> QED BY <2>5, <2>7, <2>8, <2>9, <2>10 DEF Calm, Mine, Starters
<1>13. OwnAnswer'
  BY <1>0, <1>3 DEF OwnAnswer, Becomes
<1> QED BY <1>7, <1>8, <1>9, <1>10, <1>11, <1>12, <1>13 DEF Inv

-----------------------------------------------------------------------------
(* Requests that are sent.                                                 *)

(* What a caller sends, and where it is then.                              *)
Sends(a, kind, pc) ==
  \/ kind = "initialize" /\ act[a].pc = "starting" /\ pc = "greeting"
  \/ kind = "ask" /\ act[a].pc \in {"open", "opening"} /\ pc = "asked"
     /\ act[a].file \in opened[Mine(a)]

LEMMA SendKeeps ==
  ASSUME Inv, NEW a \in Callers, NEW kind, NEW pc, Sends(a, kind, pc),
         isAlive(Mine(a)), Send(a, kind, pc),
         UNCHANGED <<entry, proc, docs, budget, timer, hurt>>
  PROVE  Inv'
<1> DEFINE i == Mine(a)
           id == counter[i] + 1
           p0 == [id |-> id, who |-> a]
           m0 == [id |-> id, call |-> act[a].call, kind |-> kind, file |-> act[a].file]
<1>0. Shape /\ Created /\ Requests /\ Counts /\ Documents /\ Calm /\ OwnAnswer
  BY DEF Inv
<1>1. /\ slot' = slot /\ refs' = refs /\ proc' = proc /\ gate' = gate /\ ready' = ready
      /\ opened' = opened /\ known' = known
      /\ calls' = calls /\ exits' = exits /\ timer' = timer /\ hurt' = hurt
      /\ counter' = [counter EXCEPT ![i] = id]
      /\ pending' = [pending EXCEPT ![i] = @ \cup {p0}]
      /\ inbox' = [inbox EXCEPT ![i] = @ \cup {m0}]
      /\ Go(a, pc)
  BY DEF Send, entry, docs, budget
<1>2. /\ act[a].pc \in {"starting", "open", "opening"} /\ pc \in {"greeting", "asked"}
      /\ kind \in {"initialize", "ask"}
      /\ act[a].pc = "starting" <=> pc = "greeting"
      /\ act[a].pc = "starting" <=> kind = "initialize"
      /\ kind = "ask" => act[a].file \in opened[i]
  BY DEF Sends
<1>3. /\ i \in Clients /\ proc[i] = "up" /\ act[a].call \in 1..MaxCalls /\ act[a].file \in Files
      /\ counter[i] \in Nat
  BY <1>0, <1>2 DEF Created, isAlive, Shape, Call
<1>4. id \in Nat \ {0} /\ p0 \in Ask1 /\ m0 \in Mail
  BY <1>2, <1>3 DEF Ask1, Mail
<1>5. p0.id = id /\ p0.who = a /\ m0.id = id /\ m0.call = act[a].call /\ m0.kind = kind /\ m0.file = act[a].file
  OBVIOUS
<1>5a. id > counter[i]
  BY <1>3
<1> HIDE DEF i, id, p0, m0
<1>6. /\ counter' \in [Clients -> Nat] /\ pending' \in [Clients -> SUBSET Ask1]
      /\ inbox' \in [Clients -> SUBSET Mail]
      /\ counter'[i] = id /\ pending'[i] = pending[i] \cup {p0} /\ inbox'[i] = inbox[i] \cup {m0}
      /\ \A j \in Clients : j # i =>
           counter'[j] = counter[j] /\ pending'[j] = pending[j] /\ inbox'[j] = inbox[j]
  BY <1>0, <1>1, <1>3, <1>4 DEF Shape
<1>7. Becomes(a, pc, i, act[a].file, act[a].call, act[a].got)
  BY <1>0, <1>1, <1>2, Went DEF PCs, Using, Starters, i
<1>8. Shape'
  BY <1>0, <1>1, <1>6, <1>7 DEF Shape, Becomes
<1>9. Created'
  BY <1>0, <1>1, <1>2, <1>3, <1>6, <1>7 DEF Created, Becomes, Mine, i
<1>10. Requests'
  <2>1. \A j \in Clients : \A q \in pending[j] : q.who # a /\ act'[q.who] = act[q.who] /\ q.id <= counter[j]
    <3> SUFFICES ASSUME NEW j \in Clients, NEW q \in pending[j]
                 PROVE  q.who # a /\ act'[q.who] = act[q.who] /\ q.id <= counter[j]
      OBVIOUS
    <3>1. act[q.who].pc \in {"greeting", "asked"} /\ q.id <= counter[j]
      BY <1>0 DEF Requests
    <3>2. q.who # a /\ q.who \in Callers
      BY <1>0, <1>2, <3>1 DEF Shape, Ask1
    <3> QED BY <1>7, <3>1, <3>2 DEF Becomes
  <2>2. \A m \in inbox[i] : m.id <= counter[i] /\ m.id \in Nat
    BY <1>0, <1>3 DEF Requests, Shape, Mail
  <2>2a. \A q \in pending[i] : q.id <= counter[i] /\ q.id \in Nat
    BY <1>0, <1>3, <2>1 DEF Shape, Ask1
  <2>3. act'[a].client = i /\ act'[a].pc \in {"greeting", "asked"} /\ act'[a].call = act[a].call
    BY <1>2, <1>7 DEF Becomes
  <2> SUFFICES ASSUME NEW j \in Clients
               PROVE  /\ \A p \in pending'[j] :
                           /\ p.id <= counter'[j] /\ act'[p.who].client = j
                           /\ act'[p.who].pc \in {"greeting", "asked"}
                      /\ \A m \in inbox'[j] : m.id <= counter'[j]
                      /\ \A p, q \in pending'[j] : p.id = q.id \/ p.who = q.who => p = q
                      /\ \A m, n \in inbox'[j] : m.id = n.id => m = n
                      /\ \A m \in inbox'[j], p \in pending'[j] : m.id = p.id => m.call = act'[p.who].call
    BY DEF Requests, Mine
  <2>4. CASE j # i
    BY <1>0, <1>6, <2>1, <2>4 DEF Requests, Mine
  <2>5. CASE j = i
    <3>1. \A p \in pending'[i] : /\ p.id <= counter'[i] /\ act'[p.who].client = i
                                 /\ act'[p.who].pc \in {"greeting", "asked"}
      BY <1>0, <1>3, <1>4, <1>5, <1>5a, <1>6, <2>1, <2>2a, <2>3 DEF Requests, Mine
    <3>2. \A m \in inbox'[i] : m.id <= counter'[i]
      BY <1>3, <1>4, <1>5, <1>5a, <1>6, <2>2
    <3>3. \A p, q \in pending'[i] : p.id = q.id \/ p.who = q.who => p = q
      BY <1>0, <1>3, <1>4, <1>5, <1>5a, <1>6, <2>1, <2>2a DEF Requests
    <3>4. \A m, n \in inbox'[i] : m.id = n.id => m = n
      BY <1>0, <1>3, <1>4, <1>5, <1>5a, <1>6, <2>2 DEF Requests
    <3>5. \A m \in inbox'[i], p \in pending'[i] : m.id = p.id => m.call = act'[p.who].call
      BY <1>0, <1>3, <1>4, <1>5, <1>5a, <1>6, <2>1, <2>2, <2>2a, <2>3 DEF Requests
    <3> QED BY <2>5, <3>1, <3>2, <3>3, <3>4, <3>5
  <2> QED BY <2>4, <2>5
<1>11. Counts'
  <2>1. Unasked \in SUBSET Callers /\ Untaken \in SUBSET Callers
        /\ Unasked' \in SUBSET Callers /\ Untaken' \in SUBSET Callers
    BY DEF Unasked, Untaken
  <2>2. Cardinality(Unasked) \in Nat /\ Cardinality(Unasked') \in Nat
    BY <2>1, FewCallers
  <2>3. Untaken' = Untaken
    BY <1>2, <1>7 DEF Becomes, Untaken
  <2>4. Cardinality(Unasked') = Cardinality(Unasked) - (IF pc = "asked" THEN 1 ELSE 0)
    <3>1. CASE pc = "asked"
      <4>1. Unasked' = Unasked \ {a} /\ a \in Unasked
        BY <1>2, <1>7, <3>1 DEF Becomes, Unasked, Starters
      <4> QED BY <2>1, <3>1, <4>1, OneMore
    <3>2. CASE pc = "greeting"
      <4>1. Unasked' = Unasked
        BY <1>2, <1>7, <3>2 DEF Becomes, Unasked, Starters
      <4> QED BY <2>2, <3>2, <4>1
    <3> QED BY <1>2, <3>1, <3>2
  <2>5. \A b \in Callers : act'[b].pc = "starting" => b # a /\ act'[b] = act[b]
    BY <1>2, <1>7 DEF Becomes
  <2>6. \A j \in Clients : Starting(j)' => Starting(j)
    BY <2>5 DEF Starting, At, Mine
  <2>7. \A j \in Clients : j # i => (Starting(j) => Starting(j)')
    BY <1>7 DEF Starting, At, Mine, Becomes, i
  <2>8. \A j \in Clients : j = i /\ pc = "greeting" => Starting(j) /\ ~Starting(j)'
    <3> SUFFICES ASSUME NEW j \in Clients, j = i, pc = "greeting" PROVE Starting(j) /\ ~Starting(j)'
      OBVIOUS
    <3>1. Starting(j)
      BY <1>2 DEF Starting, At, i
    <3>2. ASSUME Starting(j)' PROVE FALSE
      <4>1. PICK b \in Callers : act'[b].pc = "starting" /\ act'[b].client = j
        BY <3>2 DEF Starting, At, Mine
      <4>2. b # a /\ act[b].pc = "starting" /\ Mine(b) = j
        BY <2>5, <4>1 DEF Mine
      <4> QED BY <1>0, <1>2, <4>2 DEF Counts, i
    <3> QED BY <3>1, <3>2
  <2>9. \A j \in Clients :
          counter'[j] + Cardinality(Unasked') <= calls' + (IF Starting(j)' THEN 0 ELSE 1)
    <3> SUFFICES ASSUME NEW j \in Clients
                 PROVE  counter'[j] + Cardinality(Unasked') <= calls' + (IF Starting(j)' THEN 0 ELSE 1)
      OBVIOUS
    <3>1. counter[j] + Cardinality(Unasked) <= calls + (IF Starting(j) THEN 0 ELSE 1)
      BY <1>0 DEF Counts
    <3>2. calls' = calls /\ calls \in Nat /\ counter[j] \in Nat
      BY <1>0, <1>1 DEF Shape
    <3>3. CASE j # i
      <4>1. counter'[j] = counter[j] /\ (Starting(j) <=> Starting(j)')
        BY <1>6, <2>6, <2>7, <3>3
      <4>2. Cardinality(Unasked') <= Cardinality(Unasked)
        BY <2>2, <2>4
      <4> HIDE DEF Starting
      <4> QED BY <2>2, <3>1, <3>2, <4>1, <4>2
    <3>4. CASE j = i /\ pc = "greeting"
      <4>1. counter'[j] = counter[j] + 1 /\ Starting(j) /\ ~Starting(j)'
        BY <1>6, <2>8, <3>4 DEF id
      <4>2. Cardinality(Unasked') = Cardinality(Unasked)
        BY <2>2, <2>4, <3>4
      <4> HIDE DEF Starting
      <4> QED BY <2>2, <3>1, <3>2, <4>1, <4>2
    <3>5. CASE j = i /\ pc = "asked"
      <4>1. counter'[j] = counter[j] + 1 /\ (Starting(j)' => Starting(j))
        BY <1>6, <2>6, <3>5 DEF id
      <4>2. Cardinality(Unasked') = Cardinality(Unasked) - 1
        BY <2>4, <3>5
      <4> HIDE DEF Starting
      <4> QED BY <2>2, <3>1, <3>2, <4>1, <4>2
    <3> QED BY <1>2, <3>3, <3>4, <3>5
  <2>10. Cardinality(Unasked') <= calls'
    <3>1. calls' = calls /\ calls \in Nat
      BY <1>0, <1>1 DEF Shape
    <3>2. Cardinality(Unasked') <= Cardinality(Unasked)
      BY <2>2, <2>4
    <3> QED BY <1>0, <2>2, <3>1, <3>2 DEF Counts
  <2>11. \A j \in Clients : refs'[j] + Cardinality(Untaken') <= calls'
    BY <1>0, <1>1, <2>3 DEF Counts
  <2>12. \A b, d \in Callers :
           act'[b].pc = "starting" /\ act'[d].pc = "starting" /\ act'[b].client = act'[d].client => b = d
    BY <1>0, <2>5 DEF Counts, Mine
  <2> QED BY <2>9, <2>10, <2>11, <2>12 DEF Counts, Mine
<1>12. Documents'
  <2>1. \A b \in Callers : act'[b].pc = "opening" => act'[b] = act[b]
    BY <1>2, <1>7 DEF Becomes
  <2>2. \A j \in Clients : \A m \in inbox'[j] : m.kind = "ask" => m.file \in known'[j]
    <3>1. kind = "ask" => act[a].file \in known[i]
      BY <1>0, <1>2, <1>3 DEF Documents
    <3> QED BY <1>0, <1>1, <1>5, <1>6, <3>1 DEF Documents
  <2> QED BY <1>0, <1>1, <2>1, <2>2 DEF Documents, Mine
<1>13. Calm'
  <2> SUFFICES ASSUME ~hurt PROVE Steady
    BY <1>0, <1>1, CalmKept
  <2>1. kind = "ask" => ready[i] = "yes"
    BY <1>0, <1>2 DEF Calm, Using, Starters, i
  <2>2. \A j \in Clients : \A m \in inbox'[j] : m.kind = "ask" => m \in inbox[j] \/ ready'[j] = "yes"
    BY <1>1, <1>5, <1>6, <2>1
  <2>3. \A b \in Callers : b # a => act'[b] = act[b]
    BY <1>7 DEF Becomes
  <2>4. /\ act'[a].client = act[a].client /\ act[a].pc \in Using /\ act'[a].pc \in Using
        /\ act[a].pc \in Starters => act'[a].pc \in Starters
        /\ act'[a].pc \in Using \ Starters => act[a].pc \in Using \ Starters
        /\ act[a].pc \notin {"idle", "waiting", "replace"} /\ act'[a].pc \notin {"idle", "waiting", "replace"}
    BY <1>2, <1>7 DEF Becomes, Using, Starters, Mine, i
  <2>5. \A b \in Callers : act[b].pc \in Using => act'[b].pc \in Using /\ act'[b].client = act[b].client
    BY <2>3, <2>4
  <2>6. \A b \in Callers : act[b].pc \in Starters => act'[b].pc \in Starters
    BY <2>3, <2>4
  <2>7. \A b \in Callers : act'[b].pc # "idle" =>
          /\ act'[b].client = act[b].client /\ act[b].pc # "idle"
          /\ act'[b].pc = "replace" <=> act[b].pc = "replace"
          /\ act'[b].pc = "waiting" <=> act[b].pc = "waiting"
          /\ act'[b].pc \in Using \ Starters => act[b].pc \in Using \ Starters
    BY <2>3, <2>4
  <2> QED BY <1>1, <2>2, <2>5, <2>6, <2>7 DEF Steady
<1>14. OwnAnswer'
  BY <1>0, <1>7 DEF OwnAnswer, Becomes
<1> QED BY <1>8, <1>9, <1>10, <1>11, <1>12, <1>13, <1>14 DEF Inv

(* The request of the tool: sent, or dropped when the process is gone.     *)
LEMMA RequestKeeps ==
  ASSUME Inv, NEW a \in Callers, act[a].pc \in {"open", "opening"},
         act[a].file \in opened[Mine(a)], Request(a),
         UNCHANGED <<entry, proc, docs, budget, timer, hurt>>
  PROVE  Inv'
<1>1. CASE isAlive(Mine(a)) /\ Send(a, "ask", "asked")
  <2>1. Sends(a, "ask", "asked")
    BY DEF Sends
  <2> QED BY <1>1, <2>1, SendKeeps
<1>2. CASE ~isAlive(Mine(a)) /\ Go(a, "release") /\ UNCHANGED wire
  <2>1. Becomes(a, "release", Mine(a), act[a].file, act[a].call, act[a].got)
    BY <1>2, Went DEF Inv, PCs, Using
  <2>2. PlainStep(a, "release")
    BY <1>2, <2>1 DEF PlainStep
  <2> QED BY <2>2, PlainKeeps
<1> QED BY <1>1, <1>2 DEF Request

-----------------------------------------------------------------------------
(* The invariant.                                                          *)

LEMMA InitInv == Init => Inv
<1> SUFFICES ASSUME Init PROVE Inv
  OBVIOUS
<1>0. Idle \in Call /\ Idle.pc = "idle" /\ Idle.client = 0 /\ Idle.call = 0 /\ Idle.got = 0
  BY LspAssumption DEF Idle, Call, PCs, LspAssumption
<1>1. \A a \in Callers : act[a].pc = "idle" /\ act[a].client = 0 /\ act[a].got = 0 /\ act[a] \in Call
  BY <1>0 DEF Init
<1>2. 0 \notin Clients
  BY DEF Clients
<1>3. Shape
  <2>1. slot \in 0..MaxCalls /\ calls \in 0..MaxCalls /\ exits \in 0..MaxExits
    BY LspAssumption DEF Init, LspAssumption
  <2>2. /\ refs \in [Clients -> Nat] /\ counter \in [Clients -> Nat]
        /\ ready \in [Clients -> {"no", "yes", "failed"}]
        /\ proc \in [Clients -> {"none", "up", "killed", "gone"}]
    BY DEF Init
  <2>3. /\ opened \in [Clients -> SUBSET Files] /\ known \in [Clients -> SUBSET Files]
        /\ pending \in [Clients -> SUBSET Ask1] /\ inbox \in [Clients -> SUBSET Mail]
    BY DEF Init
  <2>4. act \in [Callers -> Call]
    BY <1>0 DEF Init
  <2>5. gate \subseteq Clients /\ timer \in BOOLEAN /\ hurt \in BOOLEAN
    BY DEF Init
  <2> QED BY <2>1, <2>2, <2>3, <2>4, <2>5 DEF Shape
<1>4. Created
  BY <1>1, <1>2 DEF Init, Created, Mine
<1>5. Requests
  BY DEF Init, Requests
<1>6. Counts
  <2>1. Unasked = {} /\ Untaken = {} /\ \A i \in Clients : ~Starting(i)
    BY <1>1 DEF Unasked, Untaken, Starters, Starting, At
  <2>2. Cardinality(Unasked) = 0 /\ Cardinality(Untaken) = 0
    BY <2>1, FS_EmptySet
  <2>3. \A a, b \in Callers : act[a].pc = "starting" /\ act[b].pc = "starting" /\ Mine(a) = Mine(b) => a = b
    BY <1>1
  <2>4. \A i \in Clients :
          /\ refs[i] + Cardinality(Untaken) <= calls
          /\ counter[i] + Cardinality(Unasked) <= calls + (IF Starting(i) THEN 0 ELSE 1)
    BY <2>2 DEF Init
  <2>5. Cardinality(Unasked) <= calls
    BY <2>2 DEF Init
  <2> QED BY <2>3, <2>4, <2>5 DEF Counts
<1>7. Documents
  BY <1>1 DEF Init, Documents
<1>8. Calm
  BY <1>1 DEF Init, Calm, Using, Starters
<1>9. OwnAnswer
  BY <1>1 DEF OwnAnswer
<1> QED BY <1>3, <1>4, <1>5, <1>6, <1>7, <1>8, <1>9 DEF Inv

(* A new call: it creates, waits for, or takes a client.                   *)
LEMMA BeginKeeps ==
  ASSUME Inv, NEW a \in Callers, NEW f \in Files, Begin(a, f)
  PROVE  Inv'
<1>0. Shape /\ Created /\ Calm
  BY DEF Inv
<1>1. act[a].pc = "idle" /\ calls < MaxCalls /\ calls' = calls + 1
      /\ UNCHANGED <<docs, wire, exits, timer, hurt>>
  BY DEF Begin, At
<1>2. calls + 1 \in 1..MaxCalls /\ calls + 1 <= MaxCalls /\ hurt \in BOOLEAN
  BY <1>0, <1>1, LspAssumption DEF Shape, LspAssumption
<1>3. CASE slot = 0 /\ Create(a, calls + 1, f) /\ proc' = [proc EXCEPT ![slot'] = "up"]
  <2>1. hurt' \in BOOLEAN /\ (hurt => hurt') /\ (~hurt' => slot = 0 \/ (slot = Mine(a) /\ act[a].pc = "replace"))
    BY <1>1, <1>2, <1>3
  <2>2. 1 \in {0, 1} /\ (IF 1 = 0 THEN act[a].pc = "replace" ELSE act[a].pc = "idle")
    BY <1>1
  <2> QED BY <1>1, <1>2, <1>3, <2>1, <2>2, CreateKeeps
<1>4. CASE slot # 0 /\ slot \in gate
           /\ act' = [act EXCEPT ![a] =
                [pc |-> "waiting", client |-> slot, file |-> f, call |-> calls + 1, got |-> 0]]
           /\ UNCHANGED <<entry, proc>>
  BY <1>1, <1>4, WaitKeeps
<1>5. CASE slot # 0 /\ slot \notin gate /\ Take(a, slot, calls + 1, f)
  <2>1. slot \in Clients /\ proc[slot] # "none"
    BY <1>0, <1>5 DEF Shape, Created, Clients
  <2>2. ~hurt => slot = slot /\ ready[slot] = "yes" /\ (act[a].pc = "waiting" => proc[slot] = "up")
    BY <1>0, <1>1, <1>5 DEF Calm
  <2>3. 1 \in {0, 1} /\ (IF 1 = 0 THEN act[a].pc = "waiting" ELSE act[a].pc = "idle")
    BY <1>1
  <2> QED BY <1>1, <1>2, <1>5, <2>1, <2>2, <2>3, TakeKeeps
<1> QED BY <1>3, <1>4, <1>5 DEF Begin

(* A wait that ends.                                                       *)
LEMMA AwaitedKeeps ==
  ASSUME Inv, NEW a \in Callers, InitAwaited(a)
  PROVE  Inv'
<1>0. Shape /\ Created /\ Calm
  BY DEF Inv
<1>1. act[a].pc = "waiting" /\ UNCHANGED <<docs, wire, budget, timer, hurt>>
  BY DEF InitAwaited, At
<1>2. CASE act' = [act EXCEPT ![a] = Idle] /\ UNCHANGED <<entry, proc>>
  BY <1>1, <1>2, WaitFails
<1>3. CASE ready[Mine(a)] = "yes" /\ Take(a, Mine(a), act[a].call, act[a].file)
  <2>1. Mine(a) \in Clients /\ act[a].call \in 1..MaxCalls /\ act[a].file \in Files /\ calls \in 0..MaxCalls
    BY <1>0, <1>1 DEF Created, Shape, Call
  <2>2. proc[Mine(a)] # "none"
    BY <1>0, <2>1 DEF Created
  <2>3. ~hurt => /\ Mine(a) = slot /\ ready[Mine(a)] = "yes"
                 /\ act[a].pc = "waiting" => proc[Mine(a)] = "up"
    BY <1>0, <1>1, <1>3 DEF Calm
  <2>4. 0 \in {0, 1} /\ (IF 0 = 0 THEN act[a].pc = "waiting" ELSE act[a].pc = "idle")
    BY <1>1
  <2>5. calls + 0 <= MaxCalls /\ calls' = calls + 0 /\ UNCHANGED <<docs, wire, exits, timer, hurt>>
    BY <1>1, <2>1, LspAssumption DEF budget, LspAssumption
  <2> QED BY <1>3, <2>1, <2>2, <2>3, <2>4, <2>5, TakeKeeps
<1> QED BY <1>2, <1>3 DEF InitAwaited

LEMMA ReplaceKeeps ==
  ASSUME Inv, NEW a \in Callers, Replace(a)
  PROVE  Inv'
<1>0. Shape /\ Created
  BY DEF Inv
<1>1. /\ act[a].pc = "replace" /\ Create(a, act[a].call, act[a].file)
      /\ proc' = [proc EXCEPT ![slot'] = "up"]
      /\ hurt' = (hurt \/ slot \notin {0, Mine(a)})
      /\ UNCHANGED <<docs, wire, budget, timer>>
  BY DEF Replace, At
<1>2. act[a].call \in 1..MaxCalls /\ act[a].file \in Files /\ calls \in 0..MaxCalls /\ hurt \in BOOLEAN
  BY <1>0, <1>1 DEF Created, Shape, Call
<1>3. hurt' \in BOOLEAN /\ (hurt => hurt') /\ (~hurt' => slot = 0 \/ (slot = Mine(a) /\ act[a].pc = "replace"))
  BY <1>1, <1>2
<1>4. 0 \in {0, 1} /\ (IF 0 = 0 THEN act[a].pc = "replace" ELSE act[a].pc = "idle")
  BY <1>1
<1>5. calls + 0 <= MaxCalls /\ calls' = calls + 0 /\ UNCHANGED <<docs, wire, exits, timer>>
  BY <1>1, <1>2, LspAssumption DEF budget, LspAssumption
<1> QED BY <1>1, <1>2, <1>3, <1>4, <1>5, CreateKeeps

(* Every step keeps the invariant.                                         *)
LEMMA NextInv ==
  ASSUME Inv, [Next]_vars
  PROVE  Inv'
<1>1. ASSUME NEW a \in Callers, InitAwaited(a) PROVE Inv'
  BY <1>1, AwaitedKeeps
<1>2. ASSUME NEW a \in Callers, Replace(a) PROVE Inv'
  BY <1>2, ReplaceKeeps
<1>3. ASSUME NEW a \in Callers, Started(a) PROVE Inv'
  <2>1. act[a].pc = "starting" /\ UNCHANGED <<proc, docs, budget, timer>>
    BY <1>3 DEF Started, At
  <2>2. CASE isAlive(Mine(a)) /\ Send(a, "initialize", "greeting") /\ UNCHANGED <<entry, hurt>>
    <3>1. Sends(a, "initialize", "greeting")
      BY <2>1 DEF Sends
    <3> QED BY <2>1, <2>2, <3>1, SendKeeps
  <2>3. CASE InitFails(a) /\ UNCHANGED wire
    BY <2>1, <2>3, StartFails
  <2> QED BY <1>3, <2>2, <2>3 DEF Started
<1>4. ASSUME NEW a \in Callers, InitDone(a) PROVE Inv'
  BY <1>4, InitDoneKeeps
<1>5. ASSUME NEW a \in Callers, OpenFile(a) PROVE Inv'
  <2>1. act[a].pc = "open" /\ UNCHANGED <<entry, proc, docs, budget, timer, hurt>>
    BY <1>5 DEF OpenFile, At
  <2>2. CASE act[a].file \in opened[Mine(a)] /\ Request(a)
    BY <2>1, <2>2, RequestKeeps
  <2>3. CASE Go(a, "reading") /\ UNCHANGED wire
    <3>1. Becomes(a, "reading", Mine(a), act[a].file, act[a].call, act[a].got)
      BY <2>3, Went DEF Inv, PCs, Using
    <3>2. PlainStep(a, "reading")
      BY <2>1, <2>3, <3>1 DEF PlainStep
    <3> QED BY <2>1, <3>2, PlainKeeps
  <2> QED BY <1>5, <2>2, <2>3 DEF OpenFile
<1>6. ASSUME NEW a \in Callers, DidOpen(a) PROVE Inv'
  BY <1>6, DidOpenKeeps
<1>7. ASSUME NEW a \in Callers, ReadFails(a) PROVE Inv'
  <2>1. act[a].pc = "reading" /\ Go(a, "release")
        /\ UNCHANGED <<entry, proc, docs, wire, budget, timer, hurt>>
    BY <1>7 DEF ReadFails, At
  <2>2. Becomes(a, "release", Mine(a), act[a].file, act[a].call, act[a].got)
    BY <2>1, Went DEF Inv, PCs, Using
  <2>3. PlainStep(a, "release")
    BY <2>1, <2>2 DEF PlainStep
  <2> QED BY <2>1, <2>3, PlainKeeps
<1>8. ASSUME NEW a \in Callers, Ask(a) PROVE Inv'
  <2>1. act[a].pc = "opening" /\ Request(a) /\ UNCHANGED <<entry, proc, docs, budget, timer, hurt>>
    BY <1>8 DEF Ask, At
  <2>2. act[a].file \in opened[Mine(a)]
    BY <2>1 DEF Inv, Documents
  <2> QED BY <2>1, <2>2, RequestKeeps
<1>9. ASSUME NEW a \in Callers, Release(a) PROVE Inv'
  BY <1>9, ReleaseKeeps
<1>10. ASSUME NEW a \in Callers, NEW f \in Files, Begin(a, f) PROVE Inv'
  BY <1>10, BeginKeeps
<1>11. ASSUME NEW i \in Clients, Exit(i) PROVE Inv'
  BY <1>11, ExitKeeps
<1>12. ASSUME NEW i \in Clients, NEW m \in inbox[i], Answer(i, m) PROVE Inv'
  BY <1>12, AnswerKeeps
<1>13. ASSUME NEW i \in Clients, NEW m \in inbox[i], ErrorAnswer(i, m) PROVE Inv'
  <2>1. inbox' \in [Clients -> SUBSET Mail] /\ \A j \in Clients : inbox'[j] \subseteq inbox[j]
    BY <1>13 DEF ErrorAnswer, Inv, Shape
  <2>2. PICK p \in pending[i] : pending' = [pending EXCEPT ![i] = @ \ {p}] /\ Fail(p.who)
    BY <1>13 DEF ErrorAnswer
  <2>3. UNCHANGED <<proc, docs, counter, budget, timer>>
    BY <1>13 DEF ErrorAnswer
  <2> QED BY <2>1, <2>2, <2>3, FailKeeps
<1>14. ASSUME NEW i \in Clients, NEW p \in pending[i], Timeout(i, p) PROVE Inv'
  <2>1. inbox' \in [Clients -> SUBSET Mail] /\ \A j \in Clients : inbox'[j] \subseteq inbox[j]
    BY <1>14 DEF Timeout, Inv, Shape
  <2>2. pending' = [pending EXCEPT ![i] = @ \ {p}] /\ Fail(p.who)
        /\ UNCHANGED <<proc, docs, counter, budget, timer>>
    BY <1>14 DEF Timeout
  <2> QED BY <2>1, <2>2, FailKeeps
<1>15. ASSUME CleanupIdle PROVE Inv'
  <2>1. /\ slot' = 0 /\ timer' \in BOOLEAN /\ hurt' = (hurt \/ Busy # {})
        /\ proc' = IF slot = 0 THEN proc ELSE [proc EXCEPT ![slot] = Stopped(@)]
        /\ UNCHANGED <<refs, gate, ready, docs, wire, act, budget>>
    BY <1>15 DEF CleanupIdle, Inv, Shape
  <2> QED BY <2>1, StopKeeps
<1>16. ASSUME StopAll PROVE Inv'
  <2>1. /\ slot' = 0 /\ timer' \in BOOLEAN /\ hurt' = (hurt \/ Busy # {})
        /\ proc' = IF slot = 0 THEN proc ELSE [proc EXCEPT ![slot] = Stopped(@)]
        /\ UNCHANGED <<refs, gate, ready, docs, wire, act, budget>>
    BY <1>16 DEF StopAll
  <2> QED BY <2>1, StopKeeps
<1>17. ASSUME UNCHANGED vars PROVE Inv'
  <2>1. /\ slot' = slot /\ refs' = refs /\ gate' = gate /\ ready' = ready /\ proc' = proc
        /\ opened' = opened /\ known' = known
        /\ counter' = counter /\ pending' = pending /\ inbox' = inbox
        /\ act' = act /\ calls' = calls /\ exits' = exits /\ timer' = timer /\ hurt' = hurt
    BY <1>17 DEF vars, entry, docs, wire, budget
  <2>2. Shape' /\ Created' /\ Documents' /\ OwnAnswer'
    BY <2>1 DEF Inv, Shape, Created, Documents, OwnAnswer, Mine
  <2>3. Requests'
    BY <2>1 DEF Inv, Requests, Mine
  <2>4. Unasked' = Unasked /\ Untaken' = Untaken /\ \A i \in Clients : Starting(i)' = Starting(i) /\ Users(i)' = Users(i)
    BY <2>1 DEF Unasked, Untaken, Starting, Users, At, Mine
  <2>5. Counts'
    BY <2>1, <2>4 DEF Inv, Counts, Mine
  <2>6. Calm'
    <3>1. hurt' \/ (~hurt /\ Steady)
      BY <2>1 DEF Steady, Inv, Shape
    <3> QED BY <3>1, CalmKept DEF Inv
  <2> QED BY <2>2, <2>3, <2>5, <2>6 DEF Inv
<1> QED
  <2>1. CASE \E a \in Callers : Step(a)
    BY <1>1, <1>2, <1>3, <1>4, <1>5, <1>6, <1>7, <1>8, <1>9, <2>1 DEF Step
  <2>2. CASE \E a \in Callers : \E f \in Files : Begin(a, f)
    BY <1>10, <2>2
  <2>3. CASE \E i \in Clients : \/ Exit(i)
                                \/ \E m \in inbox[i] : Answer(i, m) \/ ErrorAnswer(i, m)
                                \/ \E p \in pending[i] : Timeout(i, p)
    BY <1>11, <1>12, <1>13, <1>14, <2>3
  <2> QED BY <1>15, <1>16, <1>17, <2>1, <2>2, <2>3 DEF Next

LEMMA Always == Spec => []Inv
<1>1. Init => Inv
  BY InitInv
<1>2. Inv /\ [Next]_vars => Inv'
  BY NextInv
<1> QED BY <1>1, <1>2, PTL DEF Spec

-----------------------------------------------------------------------------
(* What follows.                                                           *)

(* Types, with the bounds that follow from the counts: references and      *)
(* request ids are bounded by the calls that were made.                    *)
THEOREM TypesCorrect == Spec => []TypeOK
<1>1. ASSUME Inv PROVE TypeOK
  <2>0. Shape /\ Requests /\ Counts
    BY <1>1 DEF Inv
  <2>1. Unasked \in SUBSET Callers /\ Untaken \in SUBSET Callers
    BY DEF Unasked, Untaken
  <2>2. Cardinality(Unasked) \in Nat /\ Cardinality(Untaken) \in Nat
    BY <2>1, FewCallers
  <2>3. MaxCalls \in Nat /\ calls \in Nat /\ calls <= MaxCalls
    BY <2>0, LspAssumption DEF Shape, LspAssumption
  <2>4. \A i \in Clients : refs[i] \in 0..MaxCalls /\ counter[i] \in 0..(MaxCalls + 1)
    <3> SUFFICES ASSUME NEW i \in Clients PROVE refs[i] \in 0..MaxCalls /\ counter[i] \in 0..(MaxCalls + 1)
      OBVIOUS
    <3>1. refs[i] \in Nat /\ counter[i] \in Nat
      BY <2>0 DEF Shape
    <3>2. /\ refs[i] + Cardinality(Untaken) <= calls
          /\ counter[i] + Cardinality(Unasked) <= calls + (IF Starting(i) THEN 0 ELSE 1)
      BY <2>0 DEF Counts
    <3> HIDE DEF Starting
    <3> QED BY <2>2, <2>3, <3>1, <3>2
  <2>5. refs \in [Clients -> 0..MaxCalls] /\ counter \in [Clients -> 0..(MaxCalls + 1)]
    BY <2>0, <2>4 DEF Shape
  <2>6. pending \in [Clients -> SUBSET [id : Ids, who : Callers]]
    <3>1. \A i \in Clients : \A p \in pending[i] : p.id \in Nat \ {0} /\ p.id <= counter[i] /\ p \in Ask1
      BY <2>0 DEF Requests, Shape, Ask1
    <3>2. \A i \in Clients : \A p \in pending[i] : p.id \in Ids
      BY <2>3, <2>4, <3>1 DEF Ids
    <3>3. \A i \in Clients : pending[i] \subseteq [id : Ids, who : Callers]
      BY <3>1, <3>2 DEF Ask1
    <3> QED BY <2>0, <3>3 DEF Shape
  <2>7. inbox \in [Clients -> SUBSET [id : Ids, call : 1..MaxCalls, kind : {"initialize", "ask"}, file : Files]]
    <3>1. \A i \in Clients : \A m \in inbox[i] : m.id \in Nat \ {0} /\ m.id <= counter[i] /\ m \in Mail
      BY <2>0 DEF Requests, Shape, Mail
    <3>2. \A i \in Clients : \A m \in inbox[i] : m.id \in Ids
      BY <2>3, <2>4, <3>1 DEF Ids
    <3>3. \A i \in Clients :
            inbox[i] \subseteq [id : Ids, call : 1..MaxCalls, kind : {"initialize", "ask"}, file : Files]
      BY <3>1, <3>2 DEF Mail
    <3> QED BY <2>0, <3>3 DEF Shape
  <2>8. act \in [Callers ->
          [pc : {"idle", "waiting", "replace", "starting", "greeting", "settling", "open", "reading",
                 "opening", "asked", "release"},
           client : 0..MaxCalls, file : Files, call : 0..MaxCalls, got : 0..MaxCalls]]
    BY <2>0 DEF Shape, Call, PCs, Using, Starters
  <2> QED BY <2>0, <2>5, <2>6, <2>7, <2>8 DEF TypeOK, Shape
<1>2. Inv => TypeOK
  BY <1>1
<1> QED BY <1>2, Always, PTL

(* As long as no call lost its server, the count in the map's entry is the *)
(* number of calls that use its client, all calls use that client, and no  *)
(* other process runs.                                                     *)
THEOREM CountIsTrue == Spec => []OneCountedServer
<1>1. ASSUME Inv PROVE OneCountedServer
  <2> SUFFICES ASSUME ~hurt PROVE OneCountedServer
    BY DEF OneCountedServer
  <2>0. Calm
    BY <1>1 DEF Inv
  <2>1. Users(slot) = Holders(slot)
          \cup {a \in Callers : Mine(a) = slot /\ act[a].pc \in {"starting", "greeting", "settling"}}
    BY DEF Users, Holders, Using, Starters
  <2>2. slot # 0 => refs[slot] =
          Cardinality(Holders(slot)
            \cup {a \in Callers : Mine(a) = slot /\ act[a].pc \in {"starting", "greeting", "settling"}})
    BY <2>0, <2>1 DEF Calm
  <2>3. \A a \in Callers : Holders(Mine(a)) # {} => Mine(a) = slot
    BY <2>0 DEF Calm, Holders, Using
  <2>4. \A i \in Clients : proc[i] = "up" => i = slot
    BY <2>0 DEF Calm
  <2> QED BY <2>2, <2>3, <2>4 DEF OneCountedServer
<1>2. Inv => OneCountedServer
  BY <1>1
<1> QED BY <1>2, Always, PTL

(* A server is asked about a file only after it was told its text, and, as *)
(* long as no call lost its server, only after initialize.                 *)
THEOREM ToldBeforeAsked == Spec => []OpenBeforeAsked
<1>1. Inv => OpenBeforeAsked
  BY DEF Inv, Documents, Calm, OpenBeforeAsked
<1> QED BY <1>1, Always, PTL

(* A call gets the answer to its own request, whatever order, delay or     *)
(* loss of answers there is.                                               *)
THEOREM AnswersMatch == Spec => []OwnAnswer
<1>1. Inv => OwnAnswer
  BY DEF Inv
<1> QED BY <1>1, Always, PTL
==============================================================================
