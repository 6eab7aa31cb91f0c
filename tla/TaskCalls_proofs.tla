-------------------------- MODULE TaskCalls_proofs --------------------------
(***************************************************************************)
(* Facts about the operations of the store, for every store and call.      *)
(***************************************************************************)
EXTENDS TaskCalls, FiniteSetTheorems, WellFoundedInduction, TLAPS

(* A finite set of natural numbers that is not empty has a largest member. *)
LEMMA FiniteMax ==
  ASSUME NEW S, IsFiniteSet(S), S # {}, S \subseteq Nat
  PROVE  \E n \in S : \A m \in S : m <= n
<1> DEFINE Above(n) == {m \in S : m > n}
           Family == {Above(n) : n \in S}
           R == StrictSubsetOrdering(S)
<1>1. IsWellFoundedOn(R, SUBSET S)
  BY FS_StrictSubsetOrderingWellFounded, FS_FiniteSubsetsOfFinite
<1>2. Family \subseteq SUBSET S /\ Family # {}
  OBVIOUS
<1>3. PICK A \in Family : \A B \in Family : ~(<<B, A>> \in R)
  <2> HIDE DEF R, Family
  <2> QED BY <1>1, <1>2, WFMin, Zenon
<1>4. PICK n \in S : A = Above(n)
  BY <1>3
<1>5. ASSUME NEW m \in S, m > n
      PROVE  FALSE
  <2>0. m \in Nat /\ n \in Nat /\ ~(m > m) /\ \A k \in Nat : k > m => k > n
    BY <1>5
  <2>1. Above(m) \subseteq A /\ m \in A /\ m \notin Above(m)
    BY <2>0, <1>4, <1>5
  <2>2. <<Above(m), A>> \in R
    BY <2>1, <1>2, <1>3 DEF StrictSubsetOrdering
  <2>3. Above(m) \in Family
    OBVIOUS
  <2> QED BY <1>3, <2>2, <2>3
<1> QED BY <1>5

(* getNextCreatedOrder exceeds every order in the store.                   *)
LEMMA NextOrderAbove ==
  ASSUME NEW s \in Store
  PROVE  /\ NextOrder(s) \in Nat \ {0}
         /\ \A t \in Tasks : Present(s, t) => s[t].order < NextOrder(s)
<1> DEFINE U == {u \in Tasks : Present(s, u)}
<1>1. IsFiniteSet({s[t].order : t \in U})
  <2>1. IsFiniteSet(U)
    BY TasksFinite, FS_Subset
  <2> DEFINE f == [u \in U |-> s[u].order]
  <2>2. {s[t].order : t \in U} = {f[u] : u \in U}
    OBVIOUS
  <2>3. f \in [U -> {f[u] : u \in U}]
    OBVIOUS
  <2>4. f \in Surjection(U, {f[u] : u \in U})
    BY <2>3 DEF Surjection
  <2> QED BY <2>1, <2>2, <2>4, FS_Surjection
<1>2. IsFiniteSet(Orders(s))
  BY <1>1, FS_Singleton, FS_Union DEF Orders
<1>3. Orders(s) \subseteq Nat /\ Orders(s) # {}
  BY DEF Orders, Store, Record
<1>4. \E n \in Orders(s) : \A m \in Orders(s) : m <= n
  BY <1>2, <1>3, FiniteMax
<1>5. \A t \in Tasks : Present(s, t) => s[t].order \in Orders(s)
  BY DEF Orders
<1> DEFINE top == CHOOSE n \in Orders(s) : \A m \in Orders(s) : m <= n
<1>6. top \in Orders(s) /\ \A m \in Orders(s) : m <= top
  BY <1>4
<1>7. NextOrder(s) = 1 + top
  BY DEF NextOrder
<1> HIDE DEF top
<1> QED BY <1>3, <1>5, <1>6, <1>7

(* Every operation maps stores to stores.                                  *)
LEMMA ApplyType ==
  ASSUME NEW s \in Store, NEW c \in Call
  PROVE  Apply(s, c) \in Store
<1>1. CASE c \in CreateCall
  <2>1. StatusOnEntry(s, c.initial, c.deps) \in Stored
    BY <1>1 DEF CreateCall, StatusOnEntry, Stored
  <2>2. NextOrder(s) \in Nat
    BY NextOrderAbove
  <2>3. c.op = "create" /\ c.id \in Tasks
    BY <1>1 DEF CreateCall
  <2>4. Created(s, c) \in Store
    BY <1>1, <2>1, <2>2 DEF CreateCall, Created, Store, Record
  <2> QED BY <2>3, <2>4 DEF Apply
<1>2. CASE c \in TransitionCall
  BY <1>2 DEF TransitionCall, Apply, Transitioned, Store, Record
<1>3. CASE c \in RestartCall
  <2>1. StatusOnEntry(s, c.initial, s[c.id].deps) \in Stored
    BY <1>3 DEF RestartCall, StatusOnEntry, Stored
  <2>2. c.op = "restart" /\ c.id \in Tasks /\ s[c.id] \in Record
    BY <1>3 DEF RestartCall, Store
  <2> DEFINE x == [s[c.id] EXCEPT
                     !.status = StatusOnEntry(s, c.initial, s[c.id].deps),
                     !.child = c.child, !.key = c.key, !.bg = c.bg,
                     !.exec = c.exec, !.asg = c.asg]
  <2>3. x \in Record
    BY <1>3, <2>1, <2>2 DEF RestartCall, Record
  <2>4. Apply(s, c) = [s EXCEPT ![c.id] = x]
    BY <2>2 DEF Apply, Restarted
  <2> HIDE DEF x
  <2> QED BY <2>2, <2>3, <2>4 DEF Store
<1>4. CASE c \in UpdateCall
  <2>1. c.op = "update" /\ c.id \in Tasks /\ s[c.id] \in Record
    BY <1>4 DEF UpdateCall, Store
  <2> DEFINE x == [s[c.id] EXCEPT !.exec = c.exec, !.asg = c.asg]
  <2>2. x \in Record
    BY <1>4, <2>1 DEF UpdateCall, Record
  <2>3. Apply(s, c) = [s EXCEPT ![c.id] = x]
    BY <2>1 DEF Apply, Updated
  <2> HIDE DEF x
  <2> QED BY <2>1, <2>2, <2>3 DEF Store
<1> QED BY <1>1, <1>2, <1>3, <1>4 DEF Call

(* What an accepted operation leaves of the records that were there, and   *)
(* that it adds at most the record it creates.                             *)
LEMMA ApplyKeeps ==
  ASSUME NEW s \in Store, NEW c \in Call, Accepts(s, c), NEW t \in Tasks
  PROVE  LET r == Apply(s, c) IN
         /\ Present(s, t) => /\ Present(r, t)
                             /\ r[t].root = s[t].root
                             /\ r[t].deps = s[t].deps
                             /\ r[t].order = s[t].order
         /\ ~Present(s, t) /\ Present(r, t) =>
              /\ c.op = "create" /\ c.id = t /\ CreateAccepted(s, c)
              /\ r[t].root = c.root /\ r[t].deps = c.deps
              /\ r[t].order = NextOrder(s)
         /\ s[t].status \in Terminal =>
              r[t].status \in Active \cup {s[t].status}
         /\ c.op = "create" => Present(r, c.id)
<1>1. CASE c \in CreateCall
  <2>1. c.op = "create" /\ c.id \in Tasks /\ CreateAccepted(s, c)
    BY <1>1 DEF CreateCall, Accepts
  <2>2. Apply(s, c) = Created(s, c)
    BY <2>1 DEF Apply
  <2>3. StatusOnEntry(s, c.initial, c.deps) \in Active
    BY <1>1 DEF CreateCall, StatusOnEntry, Active
  <2>4. s[c.id].status = "absent"
    BY <2>1 DEF CreateAccepted, Present
  <2> QED BY <2>1, <2>2, <2>3, <2>4
          DEF Created, Present, Store, Active, Terminal
<1>2. CASE c \in TransitionCall
  <2>1. c.op = "transition" /\ c.id \in Tasks /\ c.to \in Stored
    BY <1>2 DEF TransitionCall
  <2>2. Present(s, c.id) /\ TransitionAllowed(s[c.id].status, c.to)
    BY <2>1 DEF Accepts, TransitionAccepted
  <2>3. Apply(s, c) = Transitioned(s, c)
    BY <2>1 DEF Apply
  <2>4. s[c.id].status \in Terminal => c.to = s[c.id].status
    BY <2>2 DEF TransitionAllowed, ValidTransitions, Terminal
  <2>5. s[t] \in Record
    BY DEF Store
  <2> QED BY <2>1, <2>2, <2>3, <2>4, <2>5
          DEF Transitioned, Present, Store, Stored, Record
<1>3. CASE c \in RestartCall
  <2>1. c.op = "restart" /\ c.id \in Tasks
    BY <1>3 DEF RestartCall
  <2>2. Present(s, c.id)
    BY <2>1 DEF Accepts, RestartAccepted
  <2>3. Apply(s, c) = Restarted(s, c)
    BY <2>1 DEF Apply
  <2>4. StatusOnEntry(s, c.initial, s[c.id].deps) \in Active
    BY <1>3 DEF RestartCall, StatusOnEntry, Active
  <2>5. s[t] \in Record
    BY DEF Store
  <2> QED BY <2>1, <2>2, <2>3, <2>4, <2>5
          DEF Restarted, Present, Store, Active, Record
<1>4. CASE c \in UpdateCall
  <2>1. c.op = "update" /\ c.id \in Tasks
    BY <1>4 DEF UpdateCall
  <2>2. Present(s, c.id)
    BY <2>1 DEF Accepts, UpdateAccepted
  <2>3. Apply(s, c) = Updated(s, c)
    BY <2>1 DEF Apply
  <2>4. s[t] \in Record
    BY DEF Store
  <2> QED BY <2>1, <2>2, <2>3, <2>4 DEF Updated, Present, Store, Record
<1> QED BY <1>1, <1>2, <1>3, <1>4 DEF Call

(* An accepted operation keeps a store well formed.                        *)
LEMMA ApplyWellFormed ==
  ASSUME NEW s \in Store, NEW c \in Call, Accepts(s, c), WellFormed(s)
  PROVE  WellFormed(Apply(s, c))
<1> DEFINE r == Apply(s, c)
<1>1. DepsOlder(r)
  <2> SUFFICES ASSUME NEW t \in Tasks, Present(r, t), NEW d \in r[t].deps
               PROVE  Present(r, d) /\ r[d].root = r[t].root
                        /\ r[d].order < r[t].order
    BY DEF DepsOlder
  <2>1. r \in Store
    BY ApplyType
  <2>2. d \in Tasks
    BY <2>1 DEF Store, Record
  <2>3. CASE Present(s, t)
    <3>1. d \in s[t].deps
      BY <2>3, ApplyKeeps
    <3>2. Present(s, d) /\ s[d].root = s[t].root /\ s[d].order < s[t].order
      BY <2>3, <3>1 DEF WellFormed, DepsOlder
    <3> QED BY <2>2, <2>3, <3>2, ApplyKeeps
  <2>4. CASE ~Present(s, t)
    <3>1. /\ r[t].deps = c.deps /\ r[t].root = c.root
          /\ r[t].order = NextOrder(s) /\ CreateAccepted(s, c)
      BY <2>4, ApplyKeeps
    <3>2. Present(s, d) /\ s[d].root = c.root
      BY <3>1 DEF CreateAccepted
    <3>3. s[d].order < NextOrder(s)
      BY <2>2, <3>2, NextOrderAbove
    <3> QED BY <2>2, <3>1, <3>2, <3>3, ApplyKeeps
  <2> QED BY <2>3, <2>4
<1>2. OrdersDistinct(r)
  <2> SUFFICES ASSUME NEW t \in Tasks, NEW u \in Tasks,
                      Present(r, t), Present(r, u)
               PROVE  r[t].order > 0 /\ (r[t].order = r[u].order => t = u)
    BY DEF OrdersDistinct
  <2>1. NextOrder(s) \in Nat \ {0}
    BY NextOrderAbove
  <2>2. \A v \in Tasks : s[v].order \in Nat
    BY DEF Store, Record
  <2>3. CASE Present(s, t) /\ Present(s, u)
    BY <2>3, ApplyKeeps DEF WellFormed, OrdersDistinct
  <2>4. CASE Present(s, t) /\ ~Present(s, u)
    <3>1. r[u].order = NextOrder(s) /\ r[t].order = s[t].order
      BY <2>4, ApplyKeeps
    <3>2. s[t].order < NextOrder(s) /\ s[t].order > 0
      BY <2>4, NextOrderAbove DEF WellFormed, OrdersDistinct
    <3> QED BY <2>1, <2>2, <3>1, <3>2
  <2>5. CASE ~Present(s, t) /\ Present(s, u)
    <3>1. r[t].order = NextOrder(s) /\ r[u].order = s[u].order
      BY <2>5, ApplyKeeps
    <3>2. s[u].order < NextOrder(s)
      BY <2>5, NextOrderAbove
    <3> QED BY <2>1, <2>2, <3>1, <3>2
  <2>6. CASE ~Present(s, t) /\ ~Present(s, u)
    <3>1. r[t].order = NextOrder(s) /\ c.id = t /\ c.id = u
      BY <2>6, ApplyKeeps
    <3> QED BY <2>1, <3>1
  <2> QED BY <2>3, <2>4, <2>5, <2>6
<1> QED BY <1>1, <1>2 DEF WellFormed
=============================================================================
