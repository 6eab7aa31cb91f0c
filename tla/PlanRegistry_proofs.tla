------------------------ MODULE PlanRegistry_proofs ------------------------
(***************************************************************************)
(* The plan registry for every number of sessions, plans, calls, crashes   *)
(* and edits: types and the exclusion by the two locks, that the registry  *)
(* and the active-plan file agree, and that archived plans and drafts get  *)
(* another standing only from the call that is meant to give it.           *)
(***************************************************************************)
EXTENDS PlanRegistry, FiniteSetTheorems, SequenceTheorems, WellFoundedInduction, TLAPS

-----------------------------------------------------------------------------
(* A call by the step it has come to and the set of those it has left.     *)
First(q) == IF q = <<>> THEN "end" ELSE Head(q)
Steps(q) == {q[i] : i \in DOMAIN q}
Now(s)  == First(act[s].todo)
Left(s) == Steps(act[s].todo)

Kind(op) == IF op = "list" THEN "list" ELSE IF op \in Saves THEN "save" ELSE "whole"

(* The steps that may follow at once.                                      *)
Anyhow(x) ==
  CASE x = "lockLifecycle" -> {"lockRegistry"}
    [] x = "lockRegistry"  -> {"loadSeen", "content", "resolve", "load", "remember"}
    [] x = "resolve"   -> {"load"}
    [] x = "load"      -> {"sync"}
    [] x = "sync"      -> {"check", "promote", "archive", "unarchive", "replace", "enter", "choose", "unlock", "end"}
    [] x = "loadSeen"  -> {"syncSeen"}
    [] x = "syncSeen"  -> {"look"}
    [] x \in {"look", "repair"} -> {"unlock", "point", "succeed"}
    [] x = "content"   -> {"load"}
    [] x = "check"     -> {"loadSeen"}
    [] x = "point"     -> {"mark"}
    [] x = "mark"      -> {"confirm"}
    [] x = "confirm"   -> {"content", "unlock", "conclude"}
    [] x = "promote"   -> {"confirm"}
    [] x = "archive"   -> {"loadSeen"}
    [] x \in {"succeed", "replace"} -> {"conclude"}
    [] x = "conclude"  -> {"load", "unlock", "lockLifecycle", "end"}
    [] x \in {"unarchive", "enter", "remember"} -> {"unlock"}
    [] x = "unlock"    -> {"end", "lockLifecycle", "load", "choose", "again", "conclude", "write"}
    [] x = "write"     -> {"lockRegistry", "lockLifecycle"}
    [] x \in {"choose", "again"} -> {"end"}
    [] OTHER -> {}

(* Steps under both locks; those of an update are under that of the        *)
(* registry alone.                                                         *)
Reads == {"loadSeen", "syncSeen", "look", "repair"}
Inner == Reads \cup {"point", "mark"}

(* Steps of which none is left from there on.                              *)
Early == {"enter", "resolve", "content", "write"}

(* Steps of the calls that mean to change what is active: they do not look *)
(* again after that.                                                       *)
Changing == {"resolve", "content", "check", "promote", "archive", "unarchive", "succeed", "replace"}

(* What a step may have behind it: n the next one, rest all of them.       *)
Fits(kind, x, n, rest) ==
  /\ n \in Anyhow(x) /\ (n = "end" <=> rest = {}) /\ (n # "end" => n \in rest)
  /\ x \in Inner \cup {"enter", "again", "succeed", "replace"} => Early \cap rest = {}
  /\ x \in Changing => "again" \notin rest
  /\ x = "lockRegistry" /\ n = "loadSeen" => rest \cap {"mark", "succeed"} = {}
  /\ x = "archive" => "mark" \notin rest /\ "succeed" \in rest
  /\ x = "check" => "succeed" \notin rest /\ "mark" \in rest
  /\ CASE kind = "whole" ->
            /\ "lockLifecycle" \notin rest /\ "enter" \notin {x} \cup rest
            /\ x \in {"succeed", "replace"} => "succeed" \notin rest
            /\ x # "lockLifecycle" => "lockRegistry" \notin rest
            /\ x = "unlock" <=> n = "end"
       [] kind = "list" -> {x} \cup rest \subseteq {"load", "sync"}
       [] OTHER ->
            /\ x = "unlock" /\ n = "load" => "choose" \in rest
            /\ x = "sync" => IF "choose" \in rest THEN n = "choose" ELSE n \in {"enter", "check"}
            /\ x = "write" /\ n = "lockRegistry" => "enter" \in rest /\ "remember" \notin rest
            /\ x = "confirm" => n = "unlock"
            /\ x = "conclude" => n \in {"end", "lockLifecycle"}
            /\ x \notin {"resolve", "promote", "archive", "succeed", "replace", "unarchive"}

After(q, i) == {q[j] : j \in {j \in DOMAIN q : j > i}}
Run(kind, q, n, rest) ==
  /\ q \in Seq(StepNames)
  /\ \A i \in DOMAIN q : Fits(kind, q[i], IF i = Len(q) THEN n ELSE q[i + 1], After(q, i) \cup rest)
Shape(kind, q) == Run(kind, q, "end", {})

(* What goes with the steps that are left.                                 *)
Naming == {"promote", "unarchive", "archive", "succeed", "conclude"}
Targeting == {"check", "mark", "confirm", "write", "enter"}
Belongs(x, rest) ==
  /\ "promote" \in rest => x.op = "promote"
  /\ "unarchive" \in rest => x.op = "unarchive"
  /\ rest \cap Naming # {} => x.plan \in Plans
  /\ rest \cap Targeting # {} => x.target \in Plans
  /\ "enter" \in rest /\ x.op = "saveActive" /\ x.life = "inactive" => {"again", "look"} \subseteq rest
  /\ x.life \in {"inactive", "draft", "active"}

(* Who holds the locks when session s has come to step n of a call and     *)
(* left has still to be done.                                              *)
Outside == {"end", "lockLifecycle", "unlock", "write", "conclude", "choose", "again"}
HoldsAt(s, kind, n, left, lifecycle, plans) ==
  CASE kind = "whole" ->
         /\ n \notin {"end", "lockLifecycle", "unlock"} => lifecycle = s
         /\ n \notin {"end", "lockLifecycle", "lockRegistry", "unlock"} => plans = s
    [] kind = "list" -> TRUE
    [] OTHER ->
         n \notin Outside /\ ~(n \in {"load", "sync"} /\ "choose" \in left) =>
           /\ n # "lockRegistry" => plans = s
           /\ "remember" \in left \/ "enter" \notin left => lifecycle = s

Holds(s, x, lifecycle, plans) == HoldsAt(s, Kind(x.op), First(x.todo), Steps(x.todo), lifecycle, plans)

(* A call does not speak of a plan that was not written yet.               *)
Unaware(x, p) ==
  LET rest == Steps(x.todo)
  IN /\ x.reg[p] = "absent" /\ x.seen[p] = "absent" /\ x.cur # p
     /\ "mark" \in rest /\ "content" \notin rest => x.target # p
     /\ "enter" \in rest /\ "write" \notin rest => x.target # p
     /\ "succeed" \in rest /\ "resolve" \notin rest => x.plan # p

Unborn(p) == files[p] = "future"
Born ==
  \A p \in Plans : Unborn(p) =>
    /\ registry[p] = "absent" /\ active # p
    /\ \A s \in Sessions : Unaware(act[s], p)

(* A call that session s can be in.                                        *)
Fitting(s, x, lifecycle, plans) ==
  /\ Shape(Kind(x.op), x.todo)
  /\ Belongs(x, Steps(x.todo))
  /\ Holds(s, x, lifecycle, plans)
  /\ (x.op = "none" <=> x.todo = <<>>) /\ (x.todo = <<>> => x = Idle)

Ordered == \A s \in Sessions : Fitting(s, act[s], lifecycleLock, registryLock)

-----------------------------------------------------------------------------
(* A copy r of the registry that is not stale, for the registry now and    *)
(* the files there are: it may lack plans whose files are new.             *)
Settled == {"archived", "draft"}
Keeps(r, now) == \A p \in Plans : now[p] \in Settled => r[p] = now[p]
Close(r, now, there) ==
  Keeps(r, now) /\ \A p \in there : r[p] = now[p] \/ {r[p], now[p]} \subseteq {"absent", "inactive"}
Fresh(r, now, there, a) == Close(r, now, there) /\ (a \in there => r[a] # "absent")

(* An archived plan that is still the active one.                          *)
Leaving(x) == First(x.todo) \in {"loadSeen", "syncSeen", "look"} /\ "succeed" \in Steps(x.todo)

(* What call x may rely on; a is the active plan.                          *)
Knows(x, now, there, a) ==
  LET n == First(x.todo)
      rest == Steps(x.todo)
  IN /\ n \in {"check", "promote", "archive", "unarchive", "enter"} => Fresh(x.reg, now, there, a)
     /\ n = "look" => Fresh(x.seen, now, there, a)
     /\ n = "repair" => /\ Close(x.seen, now, there) /\ x.cur = a /\ (a \in Plans => now[a] \notin Settled)
                        /\ \A p \in there : x.seen[p] = "active" => p = a
     /\ n \in Inner /\ "mark" \in rest => Keeps(x.reg, now) /\ x.reg[x.target] \notin Settled
     /\ n \in {"look", "repair"} /\ "mark" \in rest => \A p \in Plans : x.seen[p] \in Settled => x.reg[p] = x.seen[p]
     /\ n = "mark" => x.target = a
     /\ Leaving(x) /\ x.plan \in there => now[x.plan] = "archived"
     /\ n \in {"repair", "succeed"} /\ "succeed" \in rest => x.cur # x.plan
     /\ "replace" \notin rest

Written == {p \in Plans : There(p)}

(* A save owes a look at the active plan that it has marked as inactive.   *)
Owing(x) ==
  /\ "again" \in Steps(x.todo) /\ "enter" \notin Steps(x.todo)
  /\ "look" \in Steps(x.todo) \/ First(x.todo) = "repair"

Half == \A p \in Written : registry[p] = "active" => p = active \/ \E s \in Sessions : Now(s) = "mark"
Rest ==
  active \in Written =>
    \/ registry[active] = "active"
    \/ registry[active] = "inactive" /\ \E s \in Sessions : Owing(act[s])
    \/ \E s \in Sessions : Now(s) \in {"repair", "mark"}
    \/ registry[active] = "archived" /\ \E s \in Sessions : Leaving(act[s]) /\ act[s].plan = active

Sound == Half /\ Rest /\ \A s \in Sessions : Knows(act[s], registry, Written, active)
Data == ~overwritten /\ registryLock # "left" => Sound

CallRecords ==
  [todo : Seq(StepNames), op : OpNames \cup {"none"}, plan : Plans \cup {None}, target : Plans \cup {None},
   reg : [Plans -> Lifecycle], seen : [Plans -> Lifecycle], cur : Plans \cup {None}, was : Confirmed,
   life : Lifecycle]
TypedDisk ==
  /\ files \in [Plans -> {"future", "there", "gone"}]
  /\ registry \in [Plans -> Lifecycle]
  /\ active \in Plans \cup {None}
  /\ confirmed \in [Plans -> Confirmed]
TypedRest ==
  /\ lifecycleLock \in Holders /\ registryLock \in Holders /\ contextLeft \subseteq Plans
  /\ calls \in 0..MaxCalls /\ crashes \in 0..MaxCrashes /\ edits \in 0..MaxEdits
Typed == TypedDisk /\ TypedRest /\ act \in [Sessions -> CallRecords]

Inv == Typed /\ Ordered /\ Born /\ Data

-----------------------------------------------------------------------------
(* Sequences of steps.                                                     *)

(* A sequence of steps is its first one and what is left after it.         *)
LEMMA FirstOfAll ==
  ASSUME NEW q \in Seq(StepNames), q # <<>>
  PROVE  /\ First(q) = Head(q) /\ First(q) \in StepNames
         /\ Tail(q) \in Seq(StepNames)
         /\ Steps(q) = {First(q)} \cup Steps(Tail(q))
<1>1. /\ Head(q) = q[1] /\ Head(q) \in StepNames /\ Tail(q) \in Seq(StepNames)
      /\ Len(Tail(q)) = Len(q) - 1 /\ \A i \in 1 .. Len(Tail(q)) : Tail(q)[i] = q[i + 1]
  BY HeadTailProperties
<1>2. DOMAIN q = 1 .. Len(q) /\ Len(q) \in Nat \ {0} /\ DOMAIN Tail(q) = 1 .. Len(Tail(q))
  BY <1>1, EmptySeq, LenProperties
<1>3. ASSUME NEW i \in DOMAIN q PROVE q[i] = Head(q) \/ q[i] \in Steps(Tail(q))
  <2>1. CASE i = 1
    BY <2>1, <1>1
  <2>2. CASE i # 1
    <3>1. i - 1 \in DOMAIN Tail(q) /\ (i - 1) + 1 = i
      BY <2>2, <1>1, <1>2
    <3> QED BY <3>1, <1>1, <1>2 DEF Steps
  <2> QED BY <2>1, <2>2
<1>4. ASSUME NEW i \in DOMAIN Tail(q) PROVE Tail(q)[i] \in Steps(q)
  <2>1. i + 1 \in DOMAIN q /\ Tail(q)[i] = q[i + 1]
    BY <1>1, <1>2
  <2> QED BY <2>1 DEF Steps
<1>5. Head(q) \in Steps(q)
  BY <1>1, <1>2 DEF Steps
<1>6. Steps(q) = {Head(q)} \cup Steps(Tail(q))
  BY <1>3, <1>4, <1>5 DEF Steps
<1> QED BY <1>1, <1>6 DEF First

(* Nothing is left of a sequence only when it is empty.                    *)
LEMMA FirstIsLeft ==
  ASSUME NEW q \in Seq(StepNames)
  PROVE  /\ First(q) = "end" <=> q = <<>>
         /\ First(q) = "end" <=> Steps(q) = {}
         /\ First(q) # "end" => First(q) \in Steps(q) /\ First(q) \in StepNames
         /\ Steps(q) \subseteq StepNames
<1>1. "end" \notin StepNames
  BY DEF StepNames
<1>2. CASE q = <<>>
  BY <1>2 DEF First, Steps
<1>3. CASE q # <<>>
  <2>1. First(q) \in StepNames /\ First(q) \in Steps(q)
    BY <1>3, FirstOfAll
  <2>2. Steps(q) \subseteq StepNames
    BY LenProperties DEF Steps
  <2> QED BY <2>1, <2>2, <1>1, <1>3
<1> QED BY <1>2, <1>3

(* What is left of a call fits as the call did.                            *)
LEMMA ShapeTail ==
  ASSUME NEW k, NEW q, Shape(k, q), q # <<>>
  PROVE  /\ Shape(k, Tail(q))
         /\ Fits(k, First(q), First(Tail(q)), Steps(Tail(q)))
<1>1. q \in Seq(StepNames)
  BY DEF Shape, Run
<1>2. /\ Head(q) = q[1] /\ Tail(q) \in Seq(StepNames)
      /\ Len(Tail(q)) = Len(q) - 1 /\ \A i \in 1 .. Len(Tail(q)) : Tail(q)[i] = q[i + 1]
  BY <1>1, HeadTailProperties
<1>3. DOMAIN q = 1 .. Len(q) /\ Len(q) \in Nat \ {0} /\ DOMAIN Tail(q) = 1 .. Len(Tail(q))
  BY <1>1, <1>2, EmptySeq, LenProperties
<1>4. ASSUME NEW i \in DOMAIN Tail(q)
      PROVE  Fits(k, Tail(q)[i], IF i = Len(Tail(q)) THEN "end" ELSE Tail(q)[i + 1], After(Tail(q), i))
  <2>1. i + 1 \in DOMAIN q /\ Tail(q)[i] = q[i + 1]
    BY <1>2, <1>3
  <2>2. (IF i = Len(Tail(q)) THEN "end" ELSE Tail(q)[i + 1]) = IF i + 1 = Len(q) THEN "end" ELSE q[(i + 1) + 1]
    BY <1>2, <1>3
  <2>3. After(Tail(q), i) = After(q, i + 1)
    <3>1. ASSUME NEW j \in DOMAIN q, j > i + 1 PROVE j - 1 \in DOMAIN Tail(q) /\ j - 1 > i /\ Tail(q)[j - 1] = q[j]
      BY <3>1, <1>2, <1>3
    <3>2. ASSUME NEW j \in DOMAIN Tail(q), j > i PROVE j + 1 \in DOMAIN q /\ j + 1 > i + 1 /\ Tail(q)[j] = q[j + 1]
      BY <3>2, <1>2, <1>3
    <3> QED BY <3>1, <3>2 DEF After
  <2>4. Fits(k, q[i + 1], IF i + 1 = Len(q) THEN "end" ELSE q[(i + 1) + 1], After(q, i + 1))
    BY <2>1 DEF Shape, Run
  <2> QED BY <2>1, <2>2, <2>3, <2>4
<1>5. Fits(k, q[1], IF 1 = Len(q) THEN "end" ELSE q[1 + 1], After(q, 1))
  BY <1>3 DEF Shape, Run
<1>9. Tail(q) = <<>> <=> Len(Tail(q)) = 0
  BY <1>2, EmptySeq
<1>6. First(Tail(q)) = IF 1 = Len(q) THEN "end" ELSE q[1 + 1]
  <2>1. CASE Len(q) = 1
    <3>1. Tail(q) = <<>>
      BY <2>1, <1>2, <1>9
    <3> QED BY <2>1, <3>1 DEF First
  <2>2. CASE Len(q) # 1
    <3>1. 1 \in 1 .. Len(Tail(q)) /\ Tail(q) # <<>>
      BY <2>2, <1>2, <1>3, <1>9
    <3>2. Head(Tail(q)) = Tail(q)[1]
      BY <3>1, <1>2, HeadTailProperties
    <3> QED BY <2>2, <3>1, <3>2, <1>2 DEF First
  <2> QED BY <2>1, <2>2
<1>7. Steps(Tail(q)) = After(q, 1)
  <2>1. ASSUME NEW j \in DOMAIN q, j > 1 PROVE j - 1 \in DOMAIN Tail(q) /\ Tail(q)[j - 1] = q[j]
    BY <2>1, <1>2, <1>3
  <2>2. ASSUME NEW j \in DOMAIN Tail(q) PROVE j + 1 \in DOMAIN q /\ j + 1 > 1 /\ Tail(q)[j] = q[j + 1]
    BY <1>2, <1>3
  <2> QED BY <2>1, <2>2 DEF After, Steps
<1>8. First(q) = q[1]
  BY <1>2 DEF First
<1> QED BY <1>2, <1>3, <1>4, <1>5, <1>6, <1>7, <1>8 DEF Shape, Run

Together(p, q, r) == r = p \o q

(* One sequence in front of another that it fits.                          *)
LEMMA RunConcat ==
  ASSUME NEW k, NEW p, NEW q, NEW r, NEW n, NEW rest, p # <<>>, q # <<>>, Together(p, q, r),
         Run(k, p, First(q), Steps(q) \cup rest), Run(k, q, n, rest)
  PROVE  /\ Run(k, r, n, rest) /\ r # <<>>
         /\ First(r) = First(p)
         /\ \A x : x \in Steps(r) <=> x \in Steps(p) \/ x \in Steps(q)
<1>1. p \in Seq(StepNames) /\ q \in Seq(StepNames)
  BY DEF Run
<1>2. /\ Len(p) \in Nat \ {0} /\ DOMAIN p = 1 .. Len(p)
      /\ Len(q) \in Nat \ {0} /\ DOMAIN q = 1 .. Len(q)
  BY <1>1, LenProperties, EmptySeq
<1>4. /\ r \in Seq(StepNames) /\ Len(r) = Len(p) + Len(q)
      /\ \A i \in 1 .. Len(p) + Len(q) : r[i] = IF i <= Len(p) THEN p[i] ELSE q[i - Len(p)]
  BY <1>1, ConcatProperties DEF Together
<1>5. DOMAIN r = 1 .. Len(p) + Len(q)
  BY <1>4, LenProperties
<1>6. \A i \in DOMAIN p : i \in DOMAIN r /\ r[i] = p[i]
  BY <1>2, <1>4, <1>5
<1>7. \A i \in DOMAIN q : i + Len(p) \in DOMAIN r /\ i + Len(p) \notin DOMAIN p /\ r[i + Len(p)] = q[i]
  BY <1>2, <1>4, <1>5
<1>8. \A i \in DOMAIN r : i \in DOMAIN p \/ \E j \in DOMAIN q : i = j + Len(p)
  <2> TAKE i \in DOMAIN r
  <2>1. CASE i <= Len(p)
    BY <2>1, <1>2, <1>5
  <2>2. CASE i > Len(p)
    <3>1. i - Len(p) \in DOMAIN q /\ i = (i - Len(p)) + Len(p)
      BY <2>2, <1>2, <1>5
    <3> QED BY <3>1
  <2> QED BY <2>1, <2>2, <1>2, <1>5
<1>9. Steps(r) = Steps(p) \cup Steps(q)
  BY <1>6, <1>7, <1>8 DEF Steps
<1>10. r # <<>> /\ First(p) = p[1] /\ First(q) = q[1] /\ First(r) = r[1]
  <2>1. r # <<>>
    BY <1>2, <1>4, EmptySeq
  <2>2. Head(p) = p[1] /\ Head(q) = q[1] /\ Head(r) = r[1]
    BY <1>1, <1>4, HeadTailProperties
  <2> QED BY <2>1, <2>2 DEF First
<1>11. First(r) = First(p)
  BY <1>2, <1>6, <1>10
<1>12. ASSUME NEW i \in DOMAIN p
       PROVE  Fits(k, r[i], IF i = Len(r) THEN n ELSE r[i + 1], After(r, i) \cup rest)
  <2>1. Fits(k, p[i], IF i = Len(p) THEN First(q) ELSE p[i + 1], After(p, i) \cup (Steps(q) \cup rest))
    BY DEF Run
  <2>2. (IF i = Len(r) THEN n ELSE r[i + 1]) = IF i = Len(p) THEN First(q) ELSE p[i + 1]
    <3>1. i # Len(r)
      BY <1>2, <1>4
    <3>2. CASE i = Len(p)
      <4>1. 1 \in DOMAIN q /\ 1 + Len(p) = i + 1
        BY <3>2, <1>2
      <4> QED BY <3>1, <3>2, <4>1, <1>7, <1>10
    <3>3. CASE i # Len(p)
      <4>1. i + 1 \in DOMAIN p
        BY <3>3, <1>2
      <4> QED BY <3>1, <3>3, <4>1, <1>6
    <3> QED BY <3>2, <3>3
  <2>3. After(r, i) = After(p, i) \cup Steps(q)
    <3>1. ASSUME NEW j \in DOMAIN r, j > i PROVE r[j] \in After(p, i) \cup Steps(q)
      BY <3>1, <1>6, <1>7, <1>8 DEF After, Steps
    <3>2. ASSUME NEW j \in DOMAIN p, j > i PROVE p[j] \in After(r, i)
      BY <3>2, <1>6 DEF After
    <3>3. ASSUME NEW j \in DOMAIN q PROVE q[j] \in After(r, i)
      <4>1. j + Len(p) > i /\ j + Len(p) \in DOMAIN r /\ r[j + Len(p)] = q[j]
        BY <1>2, <1>7
      <4> QED BY <4>1 DEF After
    <3> QED BY <3>1, <3>2, <3>3 DEF After, Steps
  <2>4. After(p, i) \cup (Steps(q) \cup rest) = After(r, i) \cup rest
    BY <2>3
  <2> QED BY <2>1, <2>2, <2>4, <1>6
<1>13. ASSUME NEW j \in DOMAIN q
       PROVE  Fits(k, r[j + Len(p)], IF j + Len(p) = Len(r) THEN n ELSE r[(j + Len(p)) + 1], After(r, j + Len(p)) \cup rest)
  <2>1. Fits(k, q[j], IF j = Len(q) THEN n ELSE q[j + 1], After(q, j) \cup rest)
    BY DEF Run
  <2>2. (IF j + Len(p) = Len(r) THEN n ELSE r[(j + Len(p)) + 1]) = IF j = Len(q) THEN n ELSE q[j + 1]
    <3>1. j + Len(p) = Len(r) <=> j = Len(q)
      BY <1>2, <1>4
    <3>2. j # Len(q) => j + 1 \in DOMAIN q /\ (j + 1) + Len(p) = (j + Len(p)) + 1
      BY <1>2
    <3> QED BY <3>1, <3>2, <1>7
  <2>3. After(r, j + Len(p)) = After(q, j)
    <3>1. ASSUME NEW i \in DOMAIN r, i > j + Len(p) PROVE r[i] \in After(q, j)
      <4>1. PICK m \in DOMAIN q : i = m + Len(p)
        BY <3>1, <1>2, <1>8
      <4>2. m > j /\ r[i] = q[m]
        BY <3>1, <4>1, <1>2, <1>7
      <4> QED BY <4>2 DEF After
    <3>2. ASSUME NEW m \in DOMAIN q, m > j PROVE q[m] \in After(r, j + Len(p))
      <4>1. m + Len(p) > j + Len(p) /\ m + Len(p) \in DOMAIN r /\ r[m + Len(p)] = q[m]
        BY <3>2, <1>2, <1>7
      <4> QED BY <4>1 DEF After
    <3> QED BY <3>1, <3>2 DEF After
  <2> QED BY <2>1, <2>2, <2>3, <1>7
<1>14. Run(k, r, n, rest)
  BY <1>4, <1>8, <1>12, <1>13 DEF Run
<1> QED BY <1>9, <1>10, <1>11, <1>14

(* A part of a call: where it begins, what it consists of, and what it     *)
(* fits in front of.                                                       *)
Part(k, q, first, steps, n, rest) ==
  Run(k, q, n, rest) /\ q # <<>> /\ First(q) = first /\ Steps(q) = steps

(* Two parts, one behind the other, are a part.                            *)
LEMMA Join ==
  ASSUME NEW k, NEW p, NEW q, NEW a, NEW b, NEW S, NEW T, NEW n, NEW rest,
         Part(k, p, a, S, b, T \cup rest), Part(k, q, b, T, n, rest)
  PROVE  Part(k, p \o q, a, S \cup T, n, rest)
<1>1. Run(k, p, First(q), Steps(q) \cup rest) /\ Run(k, q, n, rest) /\ p # <<>> /\ q # <<>>
  BY DEF Part
<1>2. PICK r : Together(p, q, r)
  BY DEF Together
<1>3. Run(k, r, n, rest)
  BY <1>1, <1>2, RunConcat
<1>4. r # <<>>
  BY <1>1, <1>2, RunConcat
<1>5. First(r) = First(p)
  BY <1>1, <1>2, RunConcat
<1>6. \A x : x \in Steps(r) <=> x \in Steps(p) \/ x \in Steps(q)
  BY <1>1, <1>2, RunConcat
<1>7. Steps(r) = Steps(p) \cup Steps(q)
  BY <1>6
<1> QED BY <1>2, <1>3, <1>4, <1>5, <1>7 DEF Part, Together

(* Sequences of one, two and three steps.                                  *)
LEMMA RunOne ==
  ASSUME NEW k, NEW a \in StepNames, NEW n, NEW rest, Fits(k, a, n, rest)
  PROVE  Part(k, <<a>>, a, {a}, n, rest)
<1>1. PICK q : q = <<a>>
  OBVIOUS
<1>2. q \in Seq(StepNames) /\ Len(q) = 1 /\ DOMAIN q = {1} /\ q[1] = a /\ Head(q) = a /\ q # <<>>
  BY <1>1
<1>3. After(q, 1) = {} /\ Steps(q) = {a} /\ First(q) = a
  BY <1>2 DEF After, Steps, First
<1>4. Run(k, q, n, rest)
  BY <1>2, <1>3 DEF Run
<1> QED BY <1>1, <1>2, <1>3, <1>4 DEF Part

(* A part of two steps.                                                    *)
LEMMA RunTwo ==
  ASSUME NEW k, NEW a \in StepNames, NEW b \in StepNames, NEW n, NEW rest,
         Fits(k, a, b, {b} \cup rest), Fits(k, b, n, rest)
  PROVE  Part(k, <<a, b>>, a, {a, b}, n, rest)
<1>1. PICK q : q = <<a, b>>
  OBVIOUS
<1>2. /\ q \in Seq(StepNames) /\ Len(q) = 2 /\ DOMAIN q = {1, 2}
      /\ q[1] = a /\ q[2] = b /\ Head(q) = a /\ q # <<>>
  BY <1>1
<1>3. After(q, 1) = {b} /\ After(q, 2) = {} /\ Steps(q) = {a, b} /\ First(q) = a
  BY <1>2 DEF After, Steps, First
<1>4. Run(k, q, n, rest)
  <2>1. Fits(k, q[1], IF 1 = Len(q) THEN n ELSE q[1 + 1], After(q, 1) \cup rest)
    <3>1. (IF 1 = Len(q) THEN n ELSE q[1 + 1]) = b
      BY <1>2
    <3> QED BY <1>2, <1>3, <3>1
  <2>2. Fits(k, q[2], IF 2 = Len(q) THEN n ELSE q[2 + 1], After(q, 2) \cup rest)
    <3>1. After(q, 2) \cup rest = rest
      BY <1>3
    <3> QED BY <1>2, <3>1
  <2> QED BY <1>2, <2>1, <2>2 DEF Run
<1> QED BY <1>1, <1>2, <1>3, <1>4 DEF Part

(* A part of three steps.                                                  *)
LEMMA RunThree ==
  ASSUME NEW k, NEW a \in StepNames, NEW b \in StepNames, NEW c \in StepNames, NEW n, NEW rest,
         Fits(k, a, b, {b, c} \cup rest), Fits(k, b, c, {c} \cup rest), Fits(k, c, n, rest)
  PROVE  Part(k, <<a, b, c>>, a, {a, b, c}, n, rest)
<1>1. PICK q : q = <<a, b, c>>
  OBVIOUS
<1>2. /\ q \in Seq(StepNames) /\ Len(q) = 3 /\ DOMAIN q = {1, 2, 3}
      /\ q[1] = a /\ q[2] = b /\ q[3] = c /\ Head(q) = a /\ q # <<>>
  BY <1>1
<1>3. After(q, 1) = {b, c} /\ After(q, 2) = {c} /\ After(q, 3) = {} /\ Steps(q) = {a, b, c} /\ First(q) = a
  BY <1>2 DEF After, Steps, First
<1>4. Run(k, q, n, rest)
  <2>1. Fits(k, q[1], IF 1 = Len(q) THEN n ELSE q[1 + 1], After(q, 1) \cup rest)
    <3>1. (IF 1 = Len(q) THEN n ELSE q[1 + 1]) = b
      BY <1>2
    <3> QED BY <1>2, <1>3, <3>1
  <2>2. Fits(k, q[2], IF 2 = Len(q) THEN n ELSE q[2 + 1], After(q, 2) \cup rest)
    <3>1. (IF 2 = Len(q) THEN n ELSE q[2 + 1]) = c
      BY <1>2
    <3> QED BY <1>2, <1>3, <3>1
  <2>3. Fits(k, q[3], IF 3 = Len(q) THEN n ELSE q[3 + 1], After(q, 3) \cup rest)
    <3>1. After(q, 3) \cup rest = rest
      BY <1>3
    <3> QED BY <1>2, <3>1
  <2> QED BY <1>2, <2>1, <2>2, <2>3 DEF Run
<1> QED BY <1>1, <1>2, <1>3, <1>4 DEF Part

(* The pieces of a call, in front of n and the rest.                       *)
ReadSteps == {"loadSeen", "syncSeen", "look"}

(* Reading the active plan can stand before an unlock, the pointing at     *)
(* another plan or the succession of an archived one.                      *)
LEMMA RunRead ==
  ASSUME NEW k \in {"whole", "save"}, NEW n \in {"unlock", "point", "succeed"}, NEW rest,
         n \in rest, Early \cap rest = {}, k = "whole" => {"lockLifecycle", "lockRegistry"} \cap rest = {}
  PROVE  Part(k, ReadActive, "loadSeen", ReadSteps, n, rest)
<1>1. Fits(k, "loadSeen", "syncSeen", {"syncSeen", "look"} \cup rest)
  BY DEF Fits, Anyhow, Early, Changing, Inner, Reads
<1>2. Fits(k, "syncSeen", "look", {"look"} \cup rest)
  BY DEF Fits, Anyhow, Early, Changing, Inner, Reads
<1>3. Fits(k, "look", n, rest)
  BY DEF Fits, Anyhow, Early, Changing, Inner, Reads
<1>4. "loadSeen" \in StepNames /\ "syncSeen" \in StepNames /\ "look" \in StepNames
  BY DEF StepNames
<1> QED BY <1>1, <1>2, <1>3, <1>4, RunThree DEF ReadActive, ReadSteps

SyncSteps == {"load", "sync"}

(* Reading and rewriting the registry can stand before every step that may *)
(* follow a sync.                                                          *)
LEMMA RunSync ==
  ASSUME NEW k \in {"whole", "list", "save"}, NEW n \in Anyhow("sync"), NEW rest,
         n = "end" <=> rest = {}, n # "end" => n \in rest,
         k = "whole" => n # "end" /\ {"lockLifecycle", "lockRegistry", "enter"} \cap rest = {},
         k = "list" => n = "end",
         k = "save" => IF "choose" \in rest THEN n = "choose" ELSE n \in {"enter", "check"}
  PROVE  Part(k, Sync, "load", SyncSteps, n, rest)
<1>1. Fits(k, "load", "sync", {"sync"} \cup rest)
  BY DEF Fits, Anyhow, Early, Changing, Inner, Reads
<1>2. Fits(k, "sync", n, rest)
  BY DEF Fits, Early, Changing, Inner, Reads
<1>3. "load" \in StepNames /\ "sync" \in StepNames
  BY DEF StepNames
<1> QED BY <1>1, <1>2, <1>3, RunTwo DEF Sync, SyncSteps

SetSteps == {"content", "load", "sync", "check", "loadSeen", "syncSeen", "look", "point", "mark", "confirm"}

(* The steps of setActivePlanInternal can stand at the end of a call, or   *)
(* before the context of an archived plan is written.                      *)
LEMMA RunSet ==
  ASSUME NEW k \in {"whole", "save"}, NEW n \in {"unlock", "conclude"}, NEW rest,
         n \in rest, Early \cap rest = {}, {"succeed", "again"} \cap rest = {},
         k = "whole" => {"lockLifecycle", "lockRegistry"} \cap rest = {},
         k = "save" => n = "unlock" /\ "choose" \notin rest
  PROVE  Part(k, SetActive, "content", SetSteps, n, rest)
<1> DEFINE last == <<"point", "mark", "confirm">>
           Last == {"point", "mark", "confirm"}
           rest5 == Last \cup rest
           rest4 == ReadSteps \cup rest5
           rest3 == {"check"} \cup rest4
           rest2 == SyncSteps \cup rest3
<1>0. {"content", "load", "sync", "check", "point", "mark", "confirm"} \subseteq StepNames
  BY DEF StepNames
<1>1. Part(k, last, "point", Last, n, rest)
  <2>1. Fits(k, "point", "mark", {"mark", "confirm"} \cup rest)
    BY DEF Fits, Anyhow, Early, Changing, Inner, Reads
  <2>2. Fits(k, "mark", "confirm", {"confirm"} \cup rest)
    BY DEF Fits, Anyhow, Early, Changing, Inner, Reads
  <2>3. Fits(k, "confirm", n, rest)
    BY DEF Fits, Anyhow, Early, Changing, Inner, Reads
  <2> QED BY <1>0, <2>1, <2>2, <2>3, RunThree
<1>2. Part(k, ReadActive, "loadSeen", ReadSteps, "point", rest5)
  BY RunRead DEF Early
<1>3. Part(k, <<"check">>, "check", {"check"}, "loadSeen", rest4)
  <2>1. Fits(k, "check", "loadSeen", rest4)
    BY DEF Fits, Anyhow, Early, Changing, Inner, Reads, ReadSteps
  <2> QED BY <1>0, <2>1, RunOne
<1>4. Part(k, Sync, "load", SyncSteps, "check", rest3)
  <2>1. "check" \in Anyhow("sync") /\ "check" \in rest3
    BY DEF Anyhow
  <2>2. k = "whole" => {"lockLifecycle", "lockRegistry", "enter"} \cap rest3 = {}
    BY DEF ReadSteps, Early
  <2>3. k = "save" => "choose" \notin rest3
    BY DEF ReadSteps
  <2> HIDE DEF rest3
  <2> QED BY <2>1, <2>2, <2>3, RunSync
<1>5. Part(k, <<"content">>, "content", {"content"}, "load", rest2)
  <2>1. Fits(k, "content", "load", rest2)
    BY DEF Fits, Anyhow, Early, Changing, Inner, Reads, ReadSteps, SyncSteps
  <2> QED BY <1>0, <2>1, RunOne
<1> HIDE DEF last, Last
<1>6. Part(k, <<"content">> \o Sync, "content", {"content"} \cup SyncSteps, "check", rest3)
  BY <1>4, <1>5, Join
<1>7. Part(k, <<"content">> \o Sync \o <<"check">>, "content", {"content"} \cup SyncSteps \cup {"check"}, "loadSeen", rest4)
  BY <1>3, <1>6, Join
<1>8. Part(k, <<"content">> \o Sync \o <<"check">> \o ReadActive, "content",
           {"content"} \cup SyncSteps \cup {"check"} \cup ReadSteps, "point", rest5)
  BY <1>2, <1>7, Join
<1>9. Part(k, <<"content">> \o Sync \o <<"check">> \o ReadActive \o last, "content",
           {"content"} \cup SyncSteps \cup {"check"} \cup ReadSteps \cup Last, n, rest)
  BY <1>1, <1>8, Join
<1>10. {"content"} \cup SyncSteps \cup {"check"} \cup ReadSteps \cup Last = SetSteps
  BY DEF SetSteps, SyncSteps, ReadSteps, Last
<1> QED BY <1>9, <1>10 DEF SetActive, last

(* What is done under both locks.                                          *)
LEMMA RunLocked ==
  ASSUME NEW k, NEW w, NEW f, NEW W, NEW n, NEW rest,
         Part(k, w, f, W, "unlock", {"unlock"} \cup rest),
         Fits(k, "unlock", n, rest),
         Fits(k, "lockRegistry", f, W \cup ({"unlock"} \cup rest)),
         Fits(k, "lockLifecycle", "lockRegistry", {"lockRegistry"} \cup (W \cup ({"unlock"} \cup rest)))
  PROVE  Part(k, Locked(w), "lockLifecycle", {"lockLifecycle", "lockRegistry"} \cup W \cup {"unlock"}, n, rest)
<1>0. "lockLifecycle" \in StepNames /\ "lockRegistry" \in StepNames /\ "unlock" \in StepNames
  BY DEF StepNames
<1>1. Part(k, <<"lockLifecycle", "lockRegistry">>, "lockLifecycle", {"lockLifecycle", "lockRegistry"},
           f, W \cup ({"unlock"} \cup rest))
  BY <1>0, RunTwo
<1>2. Part(k, <<"unlock">>, "unlock", {"unlock"}, n, rest)
  BY <1>0, RunOne
<1>3. Part(k, <<"lockLifecycle", "lockRegistry">> \o w, "lockLifecycle", {"lockLifecycle", "lockRegistry"} \cup W,
           "unlock", {"unlock"} \cup rest)
  BY <1>1, Join
<1>4. Part(k, <<"lockLifecycle", "lockRegistry">> \o w \o <<"unlock">>, "lockLifecycle",
           {"lockLifecycle", "lockRegistry"} \cup W \cup {"unlock"}, n, rest)
  BY <1>2, <1>3, Join
<1> QED BY <1>4 DEF Locked

(* An update of the registry by a save.                                    *)
UpsertSteps == {"lockRegistry", "load", "sync", "enter", "unlock"}

(* An update of the registry can stand before whatever may follow its      *)
(* unlock.                                                                 *)
LEMMA RunUpsert ==
  ASSUME NEW n, NEW rest, Early \cap rest = {}, {"choose", "mark", "succeed"} \cap rest = {}, Fits("save", "unlock", n, rest)
  PROVE  Part("save", Upsert, "lockRegistry", UpsertSteps, n, rest)
<1> DEFINE rest2 == {"enter", "unlock"} \cup rest
           rest1 == SyncSteps \cup rest2
<1>0. "lockRegistry" \in StepNames /\ "enter" \in StepNames /\ "unlock" \in StepNames
  BY DEF StepNames
<1>1. Part("save", <<"enter", "unlock">>, "enter", {"enter", "unlock"}, n, rest)
  <2>1. Fits("save", "enter", "unlock", {"unlock"} \cup rest)
    BY DEF Fits, Anyhow, Early, Changing, Inner, Reads
  <2> QED BY <1>0, <2>1, RunTwo
<1>2. Part("save", Sync, "load", SyncSteps, "enter", rest2)
  <2>1. "enter" \in Anyhow("sync") /\ "enter" \in rest2 /\ "choose" \notin rest2
    BY DEF Anyhow
  <2> HIDE DEF rest2
  <2> QED BY <2>1, RunSync
<1>3. Part("save", <<"lockRegistry">>, "lockRegistry", {"lockRegistry"}, "load", rest1)
  <2>1. Fits("save", "lockRegistry", "load", rest1)
    BY DEF Fits, Anyhow, Early, Changing, Inner, Reads, SyncSteps
  <2> HIDE DEF rest1
  <2> QED BY <1>0, <2>1, RunOne
<1> HIDE DEF rest2
<1>4. Part("save", <<"lockRegistry">> \o Sync, "lockRegistry", {"lockRegistry"} \cup SyncSteps, "enter", rest2)
  BY <1>2, <1>3, Join
<1>5. Part("save", <<"lockRegistry">> \o Sync \o <<"enter", "unlock">>, "lockRegistry",
           {"lockRegistry"} \cup SyncSteps \cup {"enter", "unlock"}, n, rest)
  BY <1>1, <1>4, Join DEF rest2
<1>6. {"lockRegistry"} \cup SyncSteps \cup {"enter", "unlock"} = UpsertSteps
  BY DEF UpsertSteps, SyncSteps
<1> QED BY <1>5, <1>6 DEF Upsert

(* A reading of the active plan under the locks.                           *)
LockedReadSteps == {"lockLifecycle", "lockRegistry", "unlock"} \cup ReadSteps

(* Reading under both locks can stand before whatever may follow the       *)
(* unlock.                                                                 *)
LEMMA RunLockedRead ==
  ASSUME NEW k \in {"whole", "save"}, NEW n, NEW rest, Fits(k, "unlock", n, rest),
         Early \cap rest = {}, {"mark", "succeed"} \cap rest = {}
  PROVE  Part(k, Locked(ReadActive), "lockLifecycle", LockedReadSteps, n, rest)
<1> DEFINE rest1 == {"unlock"} \cup rest
<1>0. k = "whole" => {"lockLifecycle", "lockRegistry"} \cap rest1 = {}
  BY DEF Fits
<1>1. Part(k, ReadActive, "loadSeen", ReadSteps, "unlock", rest1)
  <2>1. "unlock" \in rest1 /\ Early \cap rest1 = {}
    BY DEF Early
  <2> HIDE DEF rest1
  <2> QED BY <1>0, <2>1, RunRead
<1>2. Fits(k, "lockRegistry", "loadSeen", ReadSteps \cup rest1)
  BY <1>0 DEF Fits, Anyhow, Early, Changing, Inner, Reads, ReadSteps
<1>3. Fits(k, "lockLifecycle", "lockRegistry", {"lockRegistry"} \cup (ReadSteps \cup rest1))
  BY <1>0 DEF Fits, Anyhow, Early, Changing, Inner, Reads, ReadSteps
<1>4. Part(k, Locked(ReadActive), "lockLifecycle",
           {"lockLifecycle", "lockRegistry"} \cup ReadSteps \cup {"unlock"}, n, rest)
  BY <1>1, <1>2, <1>3, RunLocked
<1>5. {"lockLifecycle", "lockRegistry"} \cup ReadSteps \cup {"unlock"} = LockedReadSteps
  BY DEF LockedReadSteps
<1> QED BY <1>4, <1>5

(* The look at the active plan that ends a save.                           *)
SettleSteps == LockedReadSteps \cup {"again"}

(* The look at the active plan can end a save.                             *)
LEMMA RunSettle == Part("save", Settle, "lockLifecycle", SettleSteps, "end", {})
<1>1. Part("save", <<"again">>, "again", {"again"}, "end", {})
  <2>1. Fits("save", "again", "end", {})
    BY DEF Fits, Anyhow, Early, Changing, Inner, Reads
  <2>2. "again" \in StepNames
    BY DEF StepNames
  <2> QED BY <2>1, <2>2, RunOne
<1>2. Part("save", Locked(ReadActive), "lockLifecycle", LockedReadSteps, "again", {"again"} \cup {})
  <2>1. PICK R : R = {"again"} \cup {}
    OBVIOUS
  <2>2. Fits("save", "unlock", "again", R) /\ Early \cap R = {} /\ {"mark", "succeed"} \cap R = {}
    BY <2>1 DEF Fits, Anyhow, Early, Changing, Inner, Reads
  <2> QED BY <2>1, <2>2, RunLockedRead
<1>3. Part("save", Locked(ReadActive) \o <<"again">>, "lockLifecycle", LockedReadSteps \cup {"again"}, "end", {})
  BY <1>1, <1>2, Join
<1> QED BY <1>3 DEF Settle, SettleSteps

-----------------------------------------------------------------------------
(* The calls.                                                              *)
(* A whole call is its work under the locks.                               *)
LEMMA RunWhole ==
  ASSUME NEW w, NEW f, NEW W, f \in {"loadSeen", "content", "resolve"}, f \in W,
         {"lockLifecycle", "lockRegistry", "enter", "unlock"} \cap W = {},
         f = "loadSeen" => {"mark", "succeed"} \cap W = {},
         Part("whole", w, f, W, "unlock", {"unlock"})
  PROVE  Part("whole", Locked(w), "lockLifecycle", {"lockLifecycle", "lockRegistry"} \cup W \cup {"unlock"}, "end", {})
<1> DEFINE R == {"unlock"} \cup {}
<1>0. R = {"unlock"}
  OBVIOUS
<1> HIDE DEF R
<1>1. Fits("whole", "unlock", "end", {})
  BY DEF Fits, Anyhow, Early, Changing, Inner, Reads
<1>2. Fits("whole", "lockRegistry", f, W \cup R)
  BY <1>0 DEF Fits, Anyhow, Early, Changing, Inner, Reads
<1>3. Fits("whole", "lockLifecycle", "lockRegistry", {"lockRegistry"} \cup (W \cup R))
  BY <1>0 DEF Fits, Anyhow, Early, Changing, Inner, Reads
<1>4. Part("whole", w, f, W, "unlock", R)
  BY <1>0
<1> QED BY <1>1, <1>2, <1>3, <1>4, RunLocked DEF R

(* The plan is found and the registry synced.                              *)
LEMMA RunFind ==
  ASSUME NEW n \in {"promote", "archive", "unarchive"}, NEW rest, n \in rest,
         {"lockLifecycle", "lockRegistry", "enter", "again"} \cap rest = {}
  PROVE  Part("whole", <<"resolve">> \o Sync, "resolve", {"resolve"} \cup SyncSteps, n, rest)
<1>0. "resolve" \in StepNames
  BY DEF StepNames
<1>1. Part("whole", Sync, "load", SyncSteps, n, rest)
  <2>1. n \in Anyhow("sync")
    BY DEF Anyhow
  <2> QED BY <2>1, RunSync
<1>2. Part("whole", <<"resolve">>, "resolve", {"resolve"}, "load", SyncSteps \cup rest)
  <2>1. Fits("whole", "resolve", "load", SyncSteps \cup rest)
    BY DEF Fits, Anyhow, Early, Changing, Inner, Reads, SyncSteps
  <2> QED BY <1>0, <2>1, RunOne
<1> QED BY <1>1, <1>2, Join

PromoteSteps == {"resolve"} \cup SyncSteps \cup {"promote", "confirm"} \cup SetSteps

(* The work of promotePlan fits under the locks.                           *)
LEMMA RunPromote ==
  Part("whole", <<"resolve">> \o Sync \o <<"promote", "confirm">> \o SetActive, "resolve", PromoteSteps,
       "unlock", {"unlock"})
<1> DEFINE rest2 == SetSteps \cup {"unlock"}
           rest1 == {"promote", "confirm"} \cup rest2
<1>0. "promote" \in StepNames /\ "confirm" \in StepNames
  BY DEF StepNames
<1>1. Part("whole", SetActive, "content", SetSteps, "unlock", {"unlock"})
  BY RunSet DEF Early
<1>2. Part("whole", <<"promote", "confirm">>, "promote", {"promote", "confirm"}, "content", rest2)
  <2>1. Fits("whole", "promote", "confirm", {"confirm"} \cup rest2)
    BY DEF Fits, Anyhow, Early, Changing, Inner, Reads, SetSteps
  <2>2. Fits("whole", "confirm", "content", rest2)
    BY DEF Fits, Anyhow, Early, Changing, Inner, Reads, SetSteps
  <2> HIDE DEF rest2
  <2> QED BY <1>0, <2>1, <2>2, RunTwo
<1>3. Part("whole", <<"resolve">> \o Sync, "resolve", {"resolve"} \cup SyncSteps, "promote", rest1)
  <2>1. "promote" \in rest1 /\ {"lockLifecycle", "lockRegistry", "enter", "again"} \cap rest1 = {}
    BY DEF SetSteps
  <2> HIDE DEF rest1
  <2> QED BY <2>1, RunFind
<1>4. Part("whole", <<"resolve">> \o Sync \o <<"promote", "confirm">>, "resolve",
           {"resolve"} \cup SyncSteps \cup {"promote", "confirm"}, "content", rest2)
  <2> HIDE DEF rest2
  <2> QED BY <1>2, <1>3, Join
<1> QED BY <1>1, <1>4, Join DEF PromoteSteps

ArchiveSteps == {"resolve"} \cup SyncSteps \cup {"archive"} \cup ReadSteps \cup {"succeed", "conclude"} \cup SyncSteps

(* The work of archivePlan fits under the locks.                           *)
LEMMA RunArchive ==
  Part("whole", <<"resolve">> \o Sync \o <<"archive">> \o ReadActive \o <<"succeed", "conclude">> \o Sync,
       "resolve", ArchiveSteps, "unlock", {"unlock"})
<1> DEFINE rest4 == SyncSteps \cup {"unlock"}
           rest3 == {"succeed", "conclude"} \cup rest4
           rest2 == ReadSteps \cup rest3
           rest1 == {"archive"} \cup rest2
<1>0. "archive" \in StepNames /\ "succeed" \in StepNames /\ "conclude" \in StepNames
  BY DEF StepNames
<1>1. Part("whole", Sync, "load", SyncSteps, "unlock", {"unlock"})
  <2>1. "unlock" \in Anyhow("sync")
    BY DEF Anyhow
  <2> QED BY <2>1, RunSync
<1>2. Part("whole", <<"succeed", "conclude">>, "succeed", {"succeed", "conclude"}, "load", rest4)
  <2>1. Fits("whole", "succeed", "conclude", {"conclude"} \cup rest4)
    BY DEF Fits, Anyhow, Early, Changing, Inner, Reads, SyncSteps
  <2>2. Fits("whole", "conclude", "load", rest4)
    BY DEF Fits, Anyhow, Early, Changing, Inner, Reads, SyncSteps
  <2> HIDE DEF rest4
  <2> QED BY <1>0, <2>1, <2>2, RunTwo
<1>3. Part("whole", ReadActive, "loadSeen", ReadSteps, "succeed", rest3)
  <2>1. "succeed" \in rest3 /\ Early \cap rest3 = {} /\ {"lockLifecycle", "lockRegistry"} \cap rest3 = {}
    BY DEF SyncSteps, Early
  <2> HIDE DEF rest3
  <2> QED BY <2>1, RunRead
<1>4. Part("whole", <<"archive">>, "archive", {"archive"}, "loadSeen", rest2)
  <2>1. Fits("whole", "archive", "loadSeen", rest2)
    BY DEF Fits, Anyhow, Early, Changing, Inner, Reads, SyncSteps, ReadSteps
  <2> HIDE DEF rest2
  <2> QED BY <1>0, <2>1, RunOne
<1>5. Part("whole", <<"resolve">> \o Sync, "resolve", {"resolve"} \cup SyncSteps, "archive", rest1)
  <2>1. "archive" \in rest1 /\ {"lockLifecycle", "lockRegistry", "enter", "again"} \cap rest1 = {}
    BY DEF SyncSteps, ReadSteps
  <2> HIDE DEF rest1
  <2> QED BY <2>1, RunFind
<1>6. Part("whole", <<"resolve">> \o Sync \o <<"archive">>, "resolve",
           {"resolve"} \cup SyncSteps \cup {"archive"}, "loadSeen", rest2)
  <2> HIDE DEF rest2
  <2> QED BY <1>4, <1>5, Join
<1>7. Part("whole", <<"resolve">> \o Sync \o <<"archive">> \o ReadActive, "resolve",
           {"resolve"} \cup SyncSteps \cup {"archive"} \cup ReadSteps, "succeed", rest3)
  <2> HIDE DEF rest3
  <2> QED BY <1>3, <1>6, Join
<1>8. Part("whole", <<"resolve">> \o Sync \o <<"archive">> \o ReadActive \o <<"succeed", "conclude">>, "resolve",
           {"resolve"} \cup SyncSteps \cup {"archive"} \cup ReadSteps \cup {"succeed", "conclude"}, "load", rest4)
  <2> HIDE DEF rest4
  <2> QED BY <1>2, <1>7, Join
<1> QED BY <1>1, <1>8, Join DEF ArchiveSteps

UnarchiveSteps == {"resolve"} \cup SyncSteps \cup {"unarchive"}

(* The work of unarchivePlan fits under the locks.                         *)
LEMMA RunUnarchive ==
  Part("whole", <<"resolve">> \o Sync \o <<"unarchive">>, "resolve", UnarchiveSteps, "unlock", {"unlock"})
<1> DEFINE rest1 == {"unarchive"} \cup {"unlock"}
<1>1. Part("whole", <<"unarchive">>, "unarchive", {"unarchive"}, "unlock", {"unlock"})
  <2>1. Fits("whole", "unarchive", "unlock", {"unlock"})
    BY DEF Fits, Anyhow, Early, Changing, Inner, Reads
  <2>2. "unarchive" \in StepNames
    BY DEF StepNames
  <2> QED BY <2>1, <2>2, RunOne
<1>2. Part("whole", <<"resolve">> \o Sync, "resolve", {"resolve"} \cup SyncSteps, "unarchive", rest1)
  <2>1. "unarchive" \in rest1 /\ {"lockLifecycle", "lockRegistry", "enter", "again"} \cap rest1 = {}
    OBVIOUS
  <2> HIDE DEF rest1
  <2> QED BY <2>1, RunFind
<1> QED BY <1>1, <1>2, Join DEF UnarchiveSteps

(* What a call of each kind does, from its beginning.                      *)
Begun(op, q) ==
  /\ Shape(Kind(op), q) /\ q # <<>>
  /\ First(q) = "lockLifecycle" \/ (First(q) = "load" /\ op = "list")
  /\ "promote" \in Steps(q) => op = "promote"
  /\ "unarchive" \in Steps(q) => op = "unarchive"
  /\ op \in {"read", "list"} \cup Saves => Steps(q) \cap (Naming \cup Targeting) = {}
  /\ "enter" \notin Steps(q) /\ "replace" \notin Steps(q)
  /\ "mark" \in Steps(q) => "content" \in Steps(q)
  /\ "succeed" \in Steps(q) => "resolve" \in Steps(q)

(* Every call begins as it should.                                         *)
LEMMA ProgramBegun ==
  ASSUME NEW op \in OpNames
  PROVE  Begun(op, Program(op))
<1>1. CASE op = "read"
  <2>1. Part("whole", ReadActive, "loadSeen", ReadSteps, "unlock", {"unlock"})
    BY RunRead DEF Early
  <2>2. {"lockLifecycle", "lockRegistry", "enter", "unlock", "mark", "succeed"} \cap ReadSteps = {} /\ "loadSeen" \in ReadSteps
    BY DEF ReadSteps
  <2>3. Part("whole", Locked(ReadActive), "lockLifecycle", {"lockLifecycle", "lockRegistry"} \cup ReadSteps \cup {"unlock"}, "end", {})
    BY <2>1, <2>2, RunWhole
  <2>4. Program(op) = Locked(ReadActive) /\ Kind(op) = "whole"
    BY <1>1 DEF Program, Kind, Saves
  <2> QED BY <1>1, <2>3, <2>4 DEF Part, Shape, Begun, Naming, Targeting, Saves, ReadSteps
<1>2. CASE op = "set"
  <2>1. Part("whole", SetActive, "content", SetSteps, "unlock", {"unlock"})
    BY RunSet DEF Early
  <2>2. {"lockLifecycle", "lockRegistry", "enter", "unlock"} \cap SetSteps = {} /\ "content" \in SetSteps
    BY DEF SetSteps
  <2>3. Part("whole", Locked(SetActive), "lockLifecycle", {"lockLifecycle", "lockRegistry"} \cup SetSteps \cup {"unlock"}, "end", {})
    BY <2>1, <2>2, RunWhole
  <2>4. Program(op) = Locked(SetActive) /\ Kind(op) = "whole"
    BY <1>2 DEF Program, Kind, Saves
  <2> QED BY <1>2, <2>3, <2>4 DEF Part, Shape, Begun, Naming, Targeting, Saves, SetSteps
<1>3. CASE op = "promote"
  <2>1. PICK w : w = <<"resolve">> \o Sync \o <<"promote", "confirm">> \o SetActive
    OBVIOUS
  <2>2. Part("whole", w, "resolve", PromoteSteps, "unlock", {"unlock"})
    BY <2>1, RunPromote
  <2>3. {"lockLifecycle", "lockRegistry", "enter", "unlock"} \cap PromoteSteps = {} /\ "resolve" \in PromoteSteps
    BY DEF PromoteSteps, SetSteps, SyncSteps
  <2>4. Part("whole", Locked(w), "lockLifecycle", {"lockLifecycle", "lockRegistry"} \cup PromoteSteps \cup {"unlock"}, "end", {})
    BY <2>2, <2>3, RunWhole
  <2>5. Program(op) = Locked(w) /\ Kind(op) = "whole"
    BY <1>3, <2>1 DEF Program, Kind, Saves
  <2> QED BY <1>3, <2>4, <2>5 DEF Part, Shape, Begun, Naming, Targeting, Saves, PromoteSteps, SetSteps, SyncSteps
<1>4. CASE op = "archive"
  <2>1. PICK w : w = <<"resolve">> \o Sync \o <<"archive">> \o ReadActive \o <<"succeed", "conclude">> \o Sync
    OBVIOUS
  <2>2. Part("whole", w, "resolve", ArchiveSteps, "unlock", {"unlock"})
    BY <2>1, RunArchive
  <2>3. {"lockLifecycle", "lockRegistry", "enter", "unlock"} \cap ArchiveSteps = {} /\ "resolve" \in ArchiveSteps
    BY DEF ArchiveSteps, ReadSteps, SyncSteps
  <2>4. Part("whole", Locked(w), "lockLifecycle", {"lockLifecycle", "lockRegistry"} \cup ArchiveSteps \cup {"unlock"}, "end", {})
    BY <2>2, <2>3, RunWhole
  <2>5. Program(op) = Locked(w) /\ Kind(op) = "whole"
    BY <1>4, <2>1 DEF Program, Kind, Saves
  <2> QED BY <1>4, <2>4, <2>5 DEF Part, Shape, Begun, Naming, Targeting, Saves, ArchiveSteps, ReadSteps, SyncSteps
<1>5. CASE op = "unarchive"
  <2>1. PICK w : w = <<"resolve">> \o Sync \o <<"unarchive">>
    OBVIOUS
  <2>2. Part("whole", w, "resolve", UnarchiveSteps, "unlock", {"unlock"})
    BY <2>1, RunUnarchive
  <2>3. {"lockLifecycle", "lockRegistry", "enter", "unlock"} \cap UnarchiveSteps = {} /\ "resolve" \in UnarchiveSteps
    BY DEF UnarchiveSteps, SyncSteps
  <2>4. Part("whole", Locked(w), "lockLifecycle", {"lockLifecycle", "lockRegistry"} \cup UnarchiveSteps \cup {"unlock"}, "end", {})
    BY <2>2, <2>3, RunWhole
  <2>5. Program(op) = Locked(w) /\ Kind(op) = "whole"
    BY <1>5, <2>1 DEF Program, Kind, Saves
  <2> QED BY <1>5, <2>4, <2>5 DEF Part, Shape, Begun, Naming, Targeting, Saves, UnarchiveSteps, SyncSteps
<1>6. CASE op = "list"
  <2>1. Part("list", Sync, "load", SyncSteps, "end", {})
    <3>1. "end" \in Anyhow("sync")
      BY DEF Anyhow
    <3> QED BY <3>1, RunSync
  <2>2. Program(op) = Sync /\ Kind(op) = "list"
    BY <1>6 DEF Program, Kind
  <2> QED BY <1>6, <2>1, <2>2 DEF Part, Shape, Begun, Naming, Targeting, Saves, SyncSteps
<1>7. CASE op = "saveDraft"
  <2>1. Part("save", <<"choose">>, "choose", {"choose"}, "end", {})
    <3>1. Fits("save", "choose", "end", {})
      BY DEF Fits, Anyhow, Early, Changing, Inner, Reads
    <3>2. "choose" \in StepNames
      BY DEF StepNames
    <3> QED BY <3>1, <3>2, RunOne
  <2>2. Part("save", Sync, "load", SyncSteps, "choose", {"choose"})
    <3>1. "choose" \in Anyhow("sync")
      BY DEF Anyhow
    <3> QED BY <3>1, RunSync
  <2>3. PICK R : R = SyncSteps \cup {"choose"}
    OBVIOUS
  <2>4. Fits("save", "unlock", "load", R) /\ Early \cap R = {} /\ {"mark", "succeed"} \cap R = {}
    BY <2>3 DEF Fits, Anyhow, Early, Changing, Inner, Reads, SyncSteps
  <2>5. Part("save", Locked(ReadActive), "lockLifecycle", LockedReadSteps, "load", R)
    BY <2>4, RunLockedRead
  <2>6. Part("save", Locked(ReadActive) \o Sync, "lockLifecycle", LockedReadSteps \cup SyncSteps, "choose", {"choose"})
    BY <2>2, <2>3, <2>5, Join
  <2>7. Part("save", Locked(ReadActive) \o Sync \o <<"choose">>, "lockLifecycle",
             LockedReadSteps \cup SyncSteps \cup {"choose"}, "end", {})
    <3>1. {"choose"} \cup {} = {"choose"}
      OBVIOUS
    <3> QED BY <2>1, <2>6, <3>1, Join
  <2>8. Program(op) = Locked(ReadActive) \o Sync \o <<"choose">> /\ Kind(op) = "save"
    BY <1>7 DEF Program, Kind, Saves
  <2>9. PICK S : S = LockedReadSteps \cup SyncSteps \cup {"choose"}
    OBVIOUS
  <2>10. Part("save", Program(op), "lockLifecycle", S, "end", {})
    BY <2>7, <2>8, <2>9
  <2>11. S \cap (Naming \cup Targeting) = {} /\ "replace" \notin S
    BY <2>9 DEF LockedReadSteps, ReadSteps, SyncSteps, Naming, Targeting
  <2>12. {"promote", "unarchive", "succeed", "enter", "mark"} \subseteq Naming \cup Targeting
    BY DEF Naming, Targeting
  <2>13. S \cap {"promote", "unarchive", "succeed", "enter", "mark"} = {}
    BY <2>11, <2>12
  <2> QED BY <1>7, <2>8, <2>10, <2>11, <2>13 DEF Part, Shape, Begun
<1>8. CASE op \in {"saveActive", "saveNew"}
  <2>1. Part("save", <<"choose">>, "choose", {"choose"}, "end", {})
    <3>1. Fits("save", "choose", "end", {})
      BY DEF Fits, Anyhow, Early, Changing, Inner, Reads
    <3>2. "choose" \in StepNames
      BY DEF StepNames
    <3> QED BY <3>1, <3>2, RunOne
  <2>3. PICK R : R = {"choose"} \cup {}
    OBVIOUS
  <2>4. Fits("save", "unlock", "choose", R) /\ Early \cap R = {} /\ {"mark", "succeed"} \cap R = {}
    BY <2>3 DEF Fits, Anyhow, Early, Changing, Inner, Reads
  <2>5. Part("save", Locked(ReadActive), "lockLifecycle", LockedReadSteps, "choose", R)
    BY <2>4, RunLockedRead
  <2>6. Part("save", Locked(ReadActive) \o <<"choose">>, "lockLifecycle", LockedReadSteps \cup {"choose"}, "end", {})
    BY <2>1, <2>3, <2>5, Join
  <2>7. Program(op) = Locked(ReadActive) \o <<"choose">> /\ Kind(op) = "save"
    BY <1>8 DEF Program, Kind, Saves
  <2> QED BY <1>8, <2>6, <2>7 DEF Part, Shape, Begun, Naming, Targeting, Saves, LockedReadSteps, ReadSteps
<1> QED BY <1>1, <1>2, <1>3, <1>4, <1>5, <1>6, <1>7, <1>8 DEF OpNames, Saves

(* What plan_save goes on with once it has chosen a plan.                  *)
Ahead(q) ==
  /\ Shape("save", q) /\ q # <<>> /\ First(q) \in {"write", "lockLifecycle"}
  /\ Steps(q) \cap {"promote", "unarchive", "archive", "succeed", "replace"} = {}
  /\ "enter" \in Steps(q) => "write" \in Steps(q)
  /\ "mark" \in Steps(q) => "content" \in Steps(q)

(* The plan is written and the registry updated.                           *)
UpdateSteps == {"write"} \cup UpsertSteps

(* Writing a plan and entering it can stand before whatever may follow the *)
(* unlock of the update.                                                   *)
LEMMA RunUpdate ==
  ASSUME NEW n, NEW rest, Early \cap rest = {}, {"choose", "mark", "succeed", "remember"} \cap rest = {},
         Fits("save", "unlock", n, rest)
  PROVE  /\ Part("save", <<"write">>, "write", {"write"}, "lockRegistry", UpsertSteps \cup rest)
         /\ Part("save", Upsert, "lockRegistry", UpsertSteps, n, rest)
         /\ Part("save", <<"write">> \o Upsert, "write", UpdateSteps, n, rest)
<1>1. Part("save", Upsert, "lockRegistry", UpsertSteps, n, rest)
  BY RunUpsert
<1>2. Part("save", <<"write">>, "write", {"write"}, "lockRegistry", UpsertSteps \cup rest)
  <2>1. Fits("save", "write", "lockRegistry", UpsertSteps \cup rest)
    BY DEF Fits, Anyhow, Early, Changing, Inner, Reads, UpsertSteps
  <2>2. "write" \in StepNames
    BY DEF StepNames
  <2> QED BY <2>1, <2>2, RunOne
<1>3. Part("save", <<"write">> \o Upsert, "write", {"write"} \cup UpsertSteps, n, rest)
  BY <1>1, <1>2, Join
<1> QED BY <1>1, <1>2, <1>3 DEF UpdateSteps

(* The active plan is updated, after a session list was written or not.    *)
LEMMA UpdateAhead ==
  ASSUME NEW first \in {<<>>, Locked(<<"remember">>)}
  PROVE  LET q == first \o <<"write">> \o Upsert \o Settle
         IN Ahead(q) /\ {"again", "look"} \subseteq Steps(q)
<1> DEFINE rest1 == UpsertSteps \cup SettleSteps
<1>1. Part("save", Settle, "lockLifecycle", SettleSteps, "end", {})
  BY RunSettle
<1>2. PICK R : R = SettleSteps \cup {}
  OBVIOUS
<1>3. /\ Early \cap SettleSteps = {} /\ {"choose", "mark", "succeed", "remember"} \cap SettleSteps = {}
      /\ Fits("save", "unlock", "lockLifecycle", SettleSteps)
  BY DEF Fits, Anyhow, Early, Changing, Inner, Reads, SettleSteps, LockedReadSteps, ReadSteps
<1>4. /\ Part("save", <<"write">>, "write", {"write"}, "lockRegistry", rest1)
      /\ Part("save", Upsert, "lockRegistry", UpsertSteps, "lockLifecycle", SettleSteps)
      /\ Part("save", <<"write">> \o Upsert, "write", UpdateSteps, "lockLifecycle", SettleSteps)
  BY <1>3, RunUpdate
<1>5. SettleSteps \cup {} = SettleSteps
  OBVIOUS
<1>6. CASE first = <<>>
  <2>1. Part("save", <<"write">> \o Upsert \o Settle, "write", UpdateSteps \cup SettleSteps, "end", {})
    BY <1>1, <1>4, <1>5, Join
  <2>2. first \o <<"write">> = <<"write">>
    <3>1. <<"write">> \in Seq(StepNames)
      BY DEF StepNames
    <3> QED BY <1>6, <3>1, ConcatEmptySeq
  <2>3. PICK q : q = first \o <<"write">> \o Upsert \o Settle
    OBVIOUS
  <2>4. Part("save", q, "write", UpdateSteps \cup SettleSteps, "end", {})
    BY <2>1, <2>2, <2>3
  <2>5. Ahead(q) /\ {"again", "look"} \subseteq Steps(q)
    BY <2>4 DEF Part, Ahead, Shape, UpdateSteps, UpsertSteps, SettleSteps, LockedReadSteps, ReadSteps
  <2> QED BY <2>3, <2>5
<1>7. CASE first = Locked(<<"remember">>)
  <2> DEFINE rest2 == {"write"} \cup rest1
             G == {"lockLifecycle", "lockRegistry"} \cup {"remember"} \cup {"unlock"}
  <2>1. Part("save", <<"remember">>, "remember", {"remember"}, "unlock", {"unlock"} \cup rest2)
    <3>1. Fits("save", "remember", "unlock", {"unlock"} \cup rest2)
      BY DEF Fits, Anyhow, Early, Changing, Inner, Reads
    <3>2. "remember" \in StepNames
      BY DEF StepNames
    <3> HIDE DEF rest2
    <3> QED BY <3>1, <3>2, RunOne
  <2>2. Fits("save", "unlock", "write", rest2)
    BY DEF Fits, Anyhow, Early, Changing, Inner, Reads
  <2>3. Fits("save", "lockRegistry", "remember", {"remember"} \cup ({"unlock"} \cup rest2))
    BY DEF Fits, Anyhow, Early, Changing, Inner, Reads
  <2>4. Fits("save", "lockLifecycle", "lockRegistry", {"lockRegistry"} \cup ({"remember"} \cup ({"unlock"} \cup rest2)))
    BY DEF Fits, Anyhow, Early, Changing, Inner, Reads
  <2>5. Part("save", Locked(<<"remember">>), "lockLifecycle", G, "write", rest2)
    <3> HIDE DEF rest2
    <3> QED BY <2>1, <2>2, <2>3, <2>4, RunLocked
  <2> HIDE DEF G
  <2>6. Part("save", Locked(<<"remember">>) \o <<"write">>, "lockLifecycle", G \cup {"write"}, "lockRegistry", rest1)
    <3> HIDE DEF rest1
    <3> QED BY <1>4, <2>5, Join
  <2>7. Part("save", Locked(<<"remember">>) \o <<"write">> \o Upsert, "lockLifecycle",
             G \cup {"write"} \cup UpsertSteps, "lockLifecycle", SettleSteps)
    BY <1>4, <2>6, Join
  <2>8. Part("save", Locked(<<"remember">>) \o <<"write">> \o Upsert \o Settle, "lockLifecycle",
             G \cup {"write"} \cup UpsertSteps \cup SettleSteps, "end", {})
    BY <1>1, <1>5, <2>7, Join
  <2>9. PICK q : q = first \o <<"write">> \o Upsert \o Settle
    OBVIOUS
  <2>10. PICK S : S = G \cup {"write"} \cup UpsertSteps \cup SettleSteps
    OBVIOUS
  <2>11. Part("save", q, "lockLifecycle", S, "end", {})
    BY <1>7, <2>8, <2>9, <2>10
  <2>12. /\ S \cap {"promote", "unarchive", "archive", "succeed", "replace"} = {}
         /\ {"write", "again", "look"} \subseteq S /\ "mark" \notin S
    BY <2>10 DEF G, UpsertSteps, SettleSteps, LockedReadSteps, ReadSteps
  <2>13. Ahead(q) /\ {"again", "look"} \subseteq Steps(q)
    BY <2>11, <2>12 DEF Part, Ahead, Shape
  <2> QED BY <2>9, <2>13
<1> QED BY <1>6, <1>7

(* A draft is written, a new one or one that was there.                    *)
LEMMA DraftAhead ==
  /\ Ahead(<<"write">> \o Upsert \o <<"conclude">> \o Settle)
  /\ Ahead(<<"write">> \o Upsert \o <<"conclude">>)
<1>0. "conclude" \in StepNames
  BY DEF StepNames
<1>1. Ahead(<<"write">> \o Upsert \o <<"conclude">> \o Settle)
  <2> DEFINE rest == {"conclude"} \cup SettleSteps
  <2>1. Part("save", Settle, "lockLifecycle", SettleSteps, "end", {}) /\ SettleSteps \cup {} = SettleSteps
    BY RunSettle
  <2>2. Part("save", <<"conclude">>, "conclude", {"conclude"}, "lockLifecycle", SettleSteps)
    <3>1. Fits("save", "conclude", "lockLifecycle", SettleSteps)
      BY DEF Fits, Anyhow, Early, Changing, Inner, Reads, SettleSteps, LockedReadSteps
    <3> QED BY <1>0, <3>1, RunOne
  <2>3. /\ Early \cap rest = {} /\ {"choose", "mark", "succeed", "remember"} \cap rest = {}
        /\ Fits("save", "unlock", "conclude", rest)
    BY DEF Fits, Anyhow, Early, Changing, Inner, Reads, SettleSteps, LockedReadSteps, ReadSteps
  <2>4. Part("save", <<"write">> \o Upsert, "write", UpdateSteps, "conclude", rest)
    <3> HIDE DEF rest
    <3> QED BY <2>3, RunUpdate
  <2>5. Part("save", <<"write">> \o Upsert \o <<"conclude">>, "write", UpdateSteps \cup {"conclude"},
             "lockLifecycle", SettleSteps)
    BY <2>2, <2>4, Join
  <2>6. Part("save", <<"write">> \o Upsert \o <<"conclude">> \o Settle, "write",
             UpdateSteps \cup {"conclude"} \cup SettleSteps, "end", {})
    BY <2>1, <2>5, Join
  <2>7. PICK S : S = UpdateSteps \cup {"conclude"} \cup SettleSteps
    OBVIOUS
  <2>8. S \cap {"promote", "unarchive", "archive", "succeed", "replace", "mark"} = {} /\ "write" \in S
    BY <2>7 DEF UpdateSteps, UpsertSteps, SettleSteps, LockedReadSteps, ReadSteps
  <2> QED BY <2>6, <2>7, <2>8 DEF Part, Ahead, Shape
<1>2. Ahead(<<"write">> \o Upsert \o <<"conclude">>)
  <2>2. Part("save", <<"conclude">>, "conclude", {"conclude"}, "end", {})
    <3>1. Fits("save", "conclude", "end", {})
      BY DEF Fits, Anyhow, Early, Changing, Inner, Reads
    <3> QED BY <1>0, <3>1, RunOne
  <2>3. /\ Early \cap {"conclude"} = {} /\ {"choose", "mark", "succeed", "remember"} \cap {"conclude"} = {}
        /\ Fits("save", "unlock", "conclude", {"conclude"}) /\ {"conclude"} \cup {} = {"conclude"}
    BY DEF Fits, Anyhow, Early, Changing, Inner, Reads
  <2>4. Part("save", <<"write">> \o Upsert, "write", UpdateSteps, "conclude", {"conclude"})
    BY <2>3, RunUpdate
  <2>5. Part("save", <<"write">> \o Upsert \o <<"conclude">>, "write", UpdateSteps \cup {"conclude"}, "end", {})
    BY <2>2, <2>3, <2>4, Join
  <2>7. PICK S : S = UpdateSteps \cup {"conclude"}
    OBVIOUS
  <2>8. S \cap {"promote", "unarchive", "archive", "succeed", "replace", "mark"} = {} /\ "write" \in S
    BY <2>7 DEF UpdateSteps, UpsertSteps
  <2> QED BY <2>5, <2>7, <2>8 DEF Part, Ahead, Shape
<1> QED BY <1>1, <1>2

(* A new plan is written, which becomes the active one or does not.        *)
LEMMA NewAhead ==
  /\ Ahead(<<"write">> \o Locked(SetActive)) /\ "enter" \notin Steps(<<"write">> \o Locked(SetActive))
  /\ Ahead(<<"write">> \o Upsert)
<1>1. Ahead(<<"write">> \o Upsert)
  <2>1. Fits("save", "unlock", "end", {})
    BY DEF Fits, Anyhow, Early, Changing, Inner, Reads
  <2>2. Part("save", <<"write">> \o Upsert, "write", UpdateSteps, "end", {})
    BY <2>1, RunUpdate
  <2> QED BY <2>2 DEF Part, Ahead, Shape, UpdateSteps, UpsertSteps
<1>2. Ahead(<<"write">> \o Locked(SetActive)) /\ "enter" \notin Steps(<<"write">> \o Locked(SetActive))
  <2> DEFINE G == {"lockLifecycle", "lockRegistry"} \cup SetSteps \cup {"unlock"}
  <2>1. Part("save", SetActive, "content", SetSteps, "unlock", {"unlock"} \cup {})
    <3>1. PICK R : R = {"unlock"} \cup {}
      OBVIOUS
    <3>2. "unlock" \in R /\ Early \cap R = {} /\ {"choose", "succeed"} \cap R = {}
      BY <3>1 DEF Early
    <3> QED BY <3>1, <3>2, RunSet
  <2>2. Fits("save", "unlock", "end", {})
    BY DEF Fits, Anyhow, Early, Changing, Inner, Reads
  <2>3. Fits("save", "lockRegistry", "content", SetSteps \cup ({"unlock"} \cup {}))
    BY DEF Fits, Anyhow, Early, Changing, Inner, Reads, SetSteps
  <2>4. Fits("save", "lockLifecycle", "lockRegistry", {"lockRegistry"} \cup (SetSteps \cup ({"unlock"} \cup {})))
    BY DEF Fits, Anyhow, Early, Changing, Inner, Reads
  <2>5. Part("save", Locked(SetActive), "lockLifecycle", G, "end", {})
    BY <2>1, <2>2, <2>3, <2>4, RunLocked
  <2>6. Part("save", <<"write">>, "write", {"write"}, "lockLifecycle", G \cup {})
    <3>1. PICK R : R = G \cup {}
      OBVIOUS
    <3>2. Fits("save", "write", "lockLifecycle", R)
      BY <3>1 DEF Fits, Anyhow, Early, Changing, Inner, Reads
    <3>3. "write" \in StepNames
      BY DEF StepNames
    <3> HIDE DEF G
    <3> QED BY <3>1, <3>2, <3>3, RunOne
  <2> HIDE DEF G
  <2>7. Part("save", <<"write">> \o Locked(SetActive), "write", {"write"} \cup G, "end", {})
    BY <2>5, <2>6, Join
  <2>8. G \cap {"promote", "unarchive", "archive", "succeed", "replace", "enter"} = {} /\ "content" \in G
    BY DEF G, SetSteps
  <2> QED BY <2>7, <2>8 DEF Part, Ahead, Shape
<1> QED BY <1>1, <1>2

-----------------------------------------------------------------------------
(* What a step leaves of the order of the calls and of the locks.          *)

(* A call of which something is left.                                      *)
LEMMA Going ==
  ASSUME Typed, Ordered, NEW s \in Sessions, act[s].todo # <<>>
  PROVE  /\ act[s] \in CallRecords /\ act[s].op \in OpNames
         /\ Now(s) = Head(act[s].todo) /\ Now(s) \in StepNames
         /\ Tail(act[s].todo) \in Seq(StepNames)
         /\ Left(s) = {Now(s)} \cup Steps(Tail(act[s].todo))
         /\ Shape(Kind(act[s].op), Tail(act[s].todo))
         /\ Fits(Kind(act[s].op), Now(s), First(Tail(act[s].todo)), Steps(Tail(act[s].todo)))
         /\ Belongs(act[s], Left(s)) /\ Holds(s, act[s], lifecycleLock, registryLock)
<1>1. act[s] \in CallRecords /\ Fitting(s, act[s], lifecycleLock, registryLock)
  BY DEF Typed, Ordered
<1>2. PICK q : q = act[s].todo
  OBVIOUS
<1>3. q \in Seq(StepNames) /\ q # <<>> /\ act[s].op \in OpNames /\ Shape(Kind(act[s].op), q)
  BY <1>1, <1>2 DEF CallRecords, Fitting
<1>4. /\ First(q) = Head(q) /\ First(q) \in StepNames
      /\ Tail(q) \in Seq(StepNames)
      /\ Steps(q) = {First(q)} \cup Steps(Tail(q))
  BY <1>3, FirstOfAll
<1>5. Shape(Kind(act[s].op), Tail(q)) /\ Fits(Kind(act[s].op), First(q), First(Tail(q)), Steps(Tail(q)))
  BY <1>3, ShapeTail
<1>6. Belongs(act[s], Steps(q)) /\ Holds(s, act[s], lifecycleLock, registryLock)
  BY <1>1, <1>2 DEF Fitting
<1> QED BY <1>1, <1>2, <1>3, <1>4, <1>5, <1>6 DEF Now, Left

(* Nothing is left of a call that has ended.                               *)
LEMMA Ended == First(<<>>) = "end" /\ Steps(<<>>) = {} /\ Idle.todo = <<>> /\ Idle.op = "none"
BY DEF First, Steps, Idle

(* A session without a call fits whoever holds the locks.                  *)
LEMMA IdleCall == Idle \in CallRecords /\ \A s, l, r : Fitting(s, Idle, l, r)
<1>1. Idle \in CallRecords
  BY DEF Idle, CallRecords, Absent, Lifecycle, Confirmed, StepNames
<1>2. Kind("none") = "whole"
  BY DEF Kind, Saves
<1>3. Shape("whole", <<>>)
  BY DEF Shape, Run
<1>4. Belongs(Idle, {})
  BY DEF Belongs, Idle
<1>5. \A s, l, r : Holds(s, Idle, l, r)
  BY <1>2, Ended DEF Holds, HoldsAt
<1> QED BY <1>1, <1>2, <1>3, <1>4, <1>5, Ended DEF Fitting

(* Session s goes on with call y.                                          *)
Turned(s, y) ==
  /\ act' \in [Sessions -> CallRecords] /\ Ordered'
  /\ \A t \in Sessions \ {s} : act'[t] = act[t]
  /\ act'[s] = y \/ (y.todo = <<>> /\ act'[s] = Idle)
  /\ First(act'[s].todo) = First(y.todo) /\ Steps(act'[s].todo) = Steps(y.todo)

(* No session but s is deprived of a lock.                                 *)
Untaken(s) ==
  /\ lifecycleLock' = lifecycleLock \/ lifecycleLock \notin Sessions \ {s}
  /\ registryLock' = registryLock \/ registryLock \notin Sessions \ {s}

(* A session holds what it held if nobody takes its locks.                 *)
LEMMA StillHolds ==
  ASSUME NEW t, NEW k, NEW n, NEW left, NEW l, NEW r, NEW l2, NEW r2,
         HoldsAt(t, k, n, left, l, r), l2 = l \/ l # t, r2 = r \/ r # t
  PROVE  HoldsAt(t, k, n, left, l2, r2)
BY DEF HoldsAt

(* A call that fits goes on, and the others are where they were.           *)
LEMMA Turns ==
  ASSUME Typed, Ordered, NEW s \in Sessions, NEW y \in CallRecords, GoOn(s, y),
         y.op \in OpNames, Shape(Kind(y.op), y.todo), Belongs(y, Steps(y.todo)),
         Holds(s, y, lifecycleLock', registryLock'), Untaken(s)
  PROVE  Turned(s, y)
<1>1. PICK z : z = IF y.todo = <<>> THEN Idle ELSE y
  OBVIOUS
<1>2. act' = [act EXCEPT ![s] = z] /\ act \in [Sessions -> CallRecords]
  BY <1>1 DEF GoOn, Typed
<1>3. z \in CallRecords
  BY <1>1, IdleCall
<1>4. act' \in [Sessions -> CallRecords] /\ act'[s] = z /\ \A t \in Sessions \ {s} : act'[t] = act[t]
  BY <1>2, <1>3
<1>5. Fitting(s, z, lifecycleLock', registryLock')
  <2>1. CASE y.todo = <<>>
    BY <1>1, <2>1, IdleCall
  <2>2. CASE y.todo # <<>>
    <3>1. y.op # "none"
      BY DEF OpNames, Saves
    <3> QED BY <1>1, <2>2, <3>1 DEF Fitting
  <2> QED BY <2>1, <2>2
<1>6. ASSUME NEW t \in Sessions, t # s PROVE Fitting(t, act[t], lifecycleLock', registryLock')
  <2>1. Fitting(t, act[t], lifecycleLock, registryLock)
    BY DEF Ordered
  <2>2. Holds(t, act[t], lifecycleLock', registryLock')
    BY <1>6, <2>1, StillHolds DEF Untaken, Fitting, Holds
  <2> QED BY <2>1, <2>2 DEF Fitting
<1>7. Ordered'
  BY <1>4, <1>5, <1>6 DEF Ordered
<1>8. First(z.todo) = First(y.todo) /\ Steps(z.todo) = Steps(y.todo)
  BY <1>1, Ended
<1> QED BY <1>1, <1>4, <1>7, <1>8 DEF Turned

(* Whoever needs a lock for the next step has it.                          *)
LEMMA HoldsOn ==
  ASSUME NEW s, NEW k \in {"whole", "list", "save"}, NEW n, NEW m, NEW rest, NEW l, NEW r, NEW l2, NEW r2,
         Fits(k, n, m, rest), HoldsAt(s, k, n, {n} \cup rest, l, r),
         n = "lockLifecycle" => l2 = s, n = "lockRegistry" => r2 = s,
         n \notin {"lockLifecycle", "unlock"} => l2 = l, n \notin {"lockRegistry", "unlock"} => r2 = r
  PROVE  HoldsAt(s, k, m, rest, l2, r2)
<1>1. CASE k = "list"
  BY <1>1 DEF HoldsAt
<1>2. CASE k = "whole"
  <2>1. m \in Anyhow(n) /\ (n = "unlock" <=> m = "end")
    BY <1>2 DEF Fits
  <2>2. CASE n = "lockLifecycle"
    <3>1. m = "lockRegistry"
      BY <2>1, <2>2 DEF Anyhow
    <3> QED BY <1>2, <2>2, <3>1 DEF HoldsAt
  <2>3. CASE n = "unlock"
    BY <1>2, <2>1, <2>3 DEF HoldsAt
  <2>4. CASE n \notin {"lockLifecycle", "unlock"}
    <3>1. n # "end"
      BY <2>1 DEF Anyhow
    <3>2. l = s
      BY <1>2, <2>4, <3>1 DEF HoldsAt
    <3>3. n # "lockRegistry" => r = s
      BY <1>2, <2>4, <3>1 DEF HoldsAt
    <3> QED BY <1>2, <2>4, <3>2, <3>3 DEF HoldsAt
  <2> QED BY <2>2, <2>3, <2>4
<1>3. CASE k = "save"
  <2>1. /\ m \in Anyhow(n) /\ (m = "end" <=> rest = {}) /\ (m # "end" => m \in rest)
        /\ n \in Inner \cup {"enter", "again"} => "enter" \notin rest
        /\ n = "unlock" /\ m = "load" => "choose" \in rest
        /\ n = "sync" => IF "choose" \in rest THEN m = "choose" ELSE m \in {"enter", "check"}
        /\ n = "write" /\ m = "lockRegistry" => "enter" \in rest /\ "remember" \notin rest
        /\ n = "confirm" => m = "unlock"
        /\ n = "conclude" => m \in {"end", "lockLifecycle"}
    BY <1>3 DEF Fits, Early
  <2> SUFFICES ASSUME m \notin Outside, ~(m \in {"load", "sync"} /\ "choose" \in rest)
               PROVE  /\ m # "lockRegistry" => r2 = s
                      /\ "remember" \in rest \/ "enter" \notin rest => l2 = s
    BY <1>3 DEF HoldsAt
  <2>2. CASE n \in {"lockLifecycle"}
    <3>1. m = "lockRegistry"
      BY <2>1, <2>2 DEF Anyhow
    <3> QED BY <2>2, <3>1
  <2>3. CASE n \in {"unlock", "write", "conclude", "choose", "again", "confirm", "enter", "remember", "unarchive"}
    BY <2>1, <2>3 DEF Anyhow, Outside
  <2>4. CASE n = "lockRegistry"
    <3>1. n \notin Outside /\ n \notin {"load", "sync"}
      BY <2>4 DEF Outside
    <3>2. "remember" \in {n} \cup rest \/ "enter" \notin {n} \cup rest => l = s
      BY <1>3, <3>1 DEF HoldsAt
    <3> QED BY <2>4, <3>2
  <2>5. CASE n \in {"load", "sync"}
    <3>1. "choose" \notin rest
      BY <2>1, <2>5 DEF Anyhow, Outside
    <3>2. n \notin Outside /\ "choose" \notin {n} \cup rest
      BY <2>5, <3>1 DEF Outside
    <3>3. r = s /\ ("remember" \in {n} \cup rest \/ "enter" \notin {n} \cup rest => l = s)
      BY <1>3, <2>5, <3>2 DEF HoldsAt
    <3> QED BY <2>5, <3>3
  <2>6. CASE n \notin Outside \cup {"lockRegistry", "load", "sync", "enter", "remember"}
    <3>1. r = s /\ ("remember" \in {n} \cup rest \/ "enter" \notin {n} \cup rest => l = s)
      BY <1>3, <2>6 DEF HoldsAt
    <3>2. l2 = l /\ r2 = r
      BY <2>6 DEF Outside
    <3> QED BY <2>6, <3>1, <3>2
  <2>7. n # "end"
    BY <2>1 DEF Anyhow
  <2> QED BY <2>2, <2>3, <2>4, <2>5, <2>6, <2>7 DEF Outside
<1> QED BY <1>1, <1>2, <1>3

(* The locks as a step of session s leaves them.                           *)
LocksMove(s) ==
  /\ Now(s) = "lockLifecycle" => lifecycleLock = "free" /\ lifecycleLock' = s
  /\ Now(s) = "lockRegistry" => registryLock = "free" /\ registryLock' = s
  /\ Now(s) \notin {"lockLifecycle", "unlock"} => lifecycleLock' = lifecycleLock
  /\ Now(s) \notin {"lockRegistry", "unlock"} => registryLock' = registryLock
  /\ Now(s) = "unlock" => /\ lifecycleLock' = IF lifecycleLock = s THEN "free" ELSE lifecycleLock
                          /\ registryLock' = IF registryLock = s THEN "free" ELSE registryLock

(* A session that moves on takes no lock of another one.                   *)
LEMMA MoveUntaken ==
  ASSUME NEW s \in Sessions, LocksMove(s)
  PROVE  Untaken(s)
<1>1. "free" \notin Sessions
  BY PlansAssumption
<1> QED BY <1>1 DEF LocksMove, Untaken

(* A step is done and the call goes on with the next one.                  *)
LEMMA Dones ==
  ASSUME Typed, Ordered, NEW s \in Sessions, act[s].todo # <<>>, NEW y \in CallRecords, GoOn(s, y),
         y.op = act[s].op, y.plan = act[s].plan, y.target = act[s].target, y.life = act[s].life,
         y.todo = Tail(act[s].todo), LocksMove(s)
  PROVE  Turned(s, y)
<1>1. PICK q : q = Tail(act[s].todo)
  OBVIOUS
<1>2. PICK k : k = Kind(act[s].op)
  OBVIOUS
<1>3. /\ act[s].op \in OpNames /\ q \in Seq(StepNames) /\ Left(s) = {Now(s)} \cup Steps(q)
      /\ Shape(k, q) /\ Fits(k, Now(s), First(q), Steps(q))
      /\ Belongs(act[s], Left(s)) /\ Holds(s, act[s], lifecycleLock, registryLock)
  BY <1>1, <1>2, Going
<1>4. k \in {"whole", "list", "save"}
  BY <1>2 DEF Kind
<1>5. HoldsAt(s, k, Now(s), {Now(s)} \cup Steps(q), lifecycleLock, registryLock)
  BY <1>2, <1>3 DEF Holds, Now, Left
<1>6. HoldsAt(s, k, First(q), Steps(q), lifecycleLock', registryLock')
  BY <1>3, <1>4, <1>5, HoldsOn DEF LocksMove
<1>7. Belongs(y, Steps(q))
  <2>1. "enter" \in Steps(q) => Now(s) \notin {"again", "look"}
    BY <1>3 DEF Fits, Inner, Reads, Early
  <2>2. Belongs(act[s], {Now(s)} \cup Steps(q))
    BY <1>3
  <2> QED BY <2>1, <2>2 DEF Belongs
<1>8. Holds(s, y, lifecycleLock', registryLock')
  BY <1>1, <1>2, <1>6 DEF Holds
<1>9. Untaken(s)
  BY MoveUntaken
<1> QED BY <1>1, <1>2, <1>3, <1>7, <1>8, <1>9, Turns

(* An exception ends the call with the release of the locks.               *)
LEMMA Throws ==
  ASSUME Typed, Ordered, NEW s \in Sessions, act[s].todo # <<>>, Throw(s), Now(s) \notin {"load", "sync"},
         UNCHANGED <<lifecycleLock, registryLock>>
  PROVE  /\ [act[s] EXCEPT !.todo = <<"unlock">>] \in CallRecords
         /\ Turned(s, [act[s] EXCEPT !.todo = <<"unlock">>])
         /\ First(<<"unlock">>) = "unlock" /\ Steps(<<"unlock">>) = {"unlock"}
<1>1. PICK y : y = [act[s] EXCEPT !.todo = <<"unlock">>]
  OBVIOUS
<1>2. PICK k : k = Kind(act[s].op)
  OBVIOUS
<1>3. /\ act[s] \in CallRecords /\ act[s].op \in OpNames
      /\ Fits(k, Now(s), First(Tail(act[s].todo)), Steps(Tail(act[s].todo)))
      /\ Belongs(act[s], Left(s))
  BY <1>2, Going
<1>4. k \in {"whole", "save"}
  <2>1. k # "list"
    BY <1>3 DEF Fits
  <2> QED BY <1>2, <2>1 DEF Kind
<1>5. Part(k, <<"unlock">>, "unlock", {"unlock"}, "end", {})
  <2>1. Fits(k, "unlock", "end", {})
    BY <1>4 DEF Fits, Anyhow, Changing, Inner, Reads
  <2>2. "unlock" \in StepNames
    BY DEF StepNames
  <2> QED BY <2>1, <2>2, RunOne
<1>6. Shape(k, <<"unlock">>) /\ First(<<"unlock">>) = "unlock" /\ Steps(<<"unlock">>) = {"unlock"}
  BY <1>5 DEF Part, Shape
<1>7. <<"unlock">> \in Seq(StepNames)
  BY <1>6 DEF Shape, Run
<1>8. y \in CallRecords /\ y.todo = <<"unlock">> /\ y.op = act[s].op /\ y.life = act[s].life
  BY <1>1, <1>3, <1>7 DEF CallRecords
<1>9. Belongs(y, {"unlock"})
  BY <1>3, <1>8 DEF Belongs, Naming, Targeting
<1>10. Holds(s, y, lifecycleLock', registryLock')
  BY <1>6, <1>8 DEF Holds, HoldsAt, Outside
<1>11. GoOn(s, y) /\ Untaken(s)
  BY <1>1 DEF Throw, My, Untaken
<1>12. Turned(s, y)
  BY <1>2, <1>3, <1>6, <1>8, <1>9, <1>10, <1>11, Turns
<1> QED BY <1>1, <1>6, <1>8, <1>12

-----------------------------------------------------------------------------
(* What a step leaves of what the calls know.                              *)

(* A session without a call speaks of no plan.                             *)
LEMMA IdleUnaware == \A p \in Plans : Unaware(Idle, p)
BY Ended, PlansAssumption DEF Unaware, Idle, Absent, None

(* Plans that were not written yet stay unknown.                           *)
LEMMA BornKept ==
  ASSUME Born, NEW s \in Sessions, NEW y \in CallRecords, Turned(s, y),
         \A p \in Plans : files'[p] = "future" =>
           files[p] = "future" /\ registry'[p] = "absent" /\ active' # p /\ Unaware(y, p)
  PROVE  Born'
<1> SUFFICES ASSUME NEW p \in Plans, files'[p] = "future", NEW t \in Sessions
             PROVE  Unaware(act'[t], p)
  BY DEF Born, Unborn
<1>1. CASE t # s
  BY <1>1 DEF Turned, Born, Unborn
<1>2. CASE t = s
  BY <1>2, IdleUnaware DEF Turned
<1> QED BY <1>1, <1>2

(* The next step speaks of no plan that the call did not speak of.         *)
LEMMA UnawareNext ==
  ASSUME NEW x, NEW y, NEW p, NEW n, Unaware(x, p), Steps(x.todo) = {n} \cup Steps(y.todo),
         n \notin {"content", "write", "resolve"},
         y.reg[p] \in {x.reg[p], "absent"}, y.seen[p] \in {x.seen[p], "absent"}, y.cur \in {x.cur, None}, p # None,
         y.target = x.target, y.plan = x.plan
  PROVE  Unaware(y, p)
BY DEF Unaware

(* Two sessions are not both past the lock of the registry.                *)
Holding == Inner \cup {"check", "promote", "archive", "unarchive", "enter", "succeed"}

(* Whoever relies on what it has read of the registry holds its lock.      *)
LEMMA HolderHolds ==
  ASSUME Typed, Ordered, NEW s \in Sessions, Now(s) \in Holding
  PROVE  registryLock = s
<1>1. act[s].todo # <<>>
  <2>1. Now(s) # "end"
    BY DEF Holding, Inner, Reads
  <2> QED BY <2>1 DEF Now, First
<1>2. PICK k : k = Kind(act[s].op)
  OBVIOUS
<1>3. PICK n : n = Now(s)
  OBVIOUS
<1>4. PICK left : left = Left(s)
  OBVIOUS
<1>5. Fits(k, n, First(Tail(act[s].todo)), Steps(Tail(act[s].todo))) /\ HoldsAt(s, k, n, left, lifecycleLock, registryLock)
  BY <1>1, <1>2, <1>3, <1>4, Going DEF Holds, Now, Left
<1>6. n \notin {"end", "lockLifecycle", "lockRegistry", "unlock", "load", "sync"} \cup Outside
  BY <1>3 DEF Holding, Inner, Reads, Outside
<1>7. k # "list"
  BY <1>5, <1>6 DEF Fits
<1>8. k \in {"whole", "save"}
  BY <1>2, <1>7 DEF Kind
<1> QED BY <1>5, <1>6, <1>8 DEF HoldsAt

(* Only one session does.                                                  *)
LEMMA Alone ==
  ASSUME Typed, Ordered, NEW s \in Sessions, Now(s) \in Holding, NEW t \in Sessions, t # s
  PROVE  Now(t) \notin Holding
BY HolderHolds

(* A session outside of these steps knows nothing that could be wrong.     *)
LEMMA KnowsNothing ==
  ASSUME NEW x, NEW now, NEW there, NEW a, First(x.todo) \notin Holding
  PROVE  Knows(x, now, there, a) <=> "replace" \notin Steps(x.todo)
BY DEF Knows, Holding, Inner, Reads, Leaving

(* What is known survives a sync of the registry.                          *)
Syncs == files' = files /\ active' = active /\ registry' \in {registry, Synced(registry)}

(* A sync keeps every entry that is settled and every one of a plan that   *)
(* is there, and none is made for a file that is not.                      *)
LEMMA SyncKeeps ==
  ASSUME Typed, Syncs
  PROVE  /\ Written' = Written /\ registry' \in [Plans -> Lifecycle]
         /\ \A p \in Plans : registry'[p] \in Settled => registry[p] = registry'[p]
         /\ \A p \in Written : registry'[p] = registry[p] \/ {registry'[p], registry[p]} \subseteq {"absent", "inactive"}
         /\ \A p \in Written : registry[p] # "absent" => registry'[p] = registry[p]
         /\ \A p \in Plans : files[p] = "future" /\ registry[p] = "absent" => registry'[p] = "absent"
<1>1. Written' = Written
  BY DEF Written, There, Syncs
<1>2. CASE registry' = registry
  BY <1>1, <1>2 DEF Typed, TypedDisk, Written
<1>3. CASE registry' = Synced(registry)
  <2>1. registry \in [Plans -> Lifecycle]
    BY DEF Typed, TypedDisk
  <2>2. \A p \in Plans : registry'[p] = IF p \notin Written THEN "absent"
                                        ELSE IF registry[p] = "absent" THEN "inactive" ELSE registry[p]
    BY <1>3 DEF Synced, Written
  <2>3. \A p \in Plans : registry'[p] \in Lifecycle
    BY <2>1, <2>2 DEF Lifecycle
  <2>4. registry' \in [Plans -> Lifecycle]
    BY <1>3, <2>3 DEF Synced
  <2>5. \A p \in Written : p \in Plans
    BY DEF Written
  <2>6. \A p \in Plans : files[p] = "future" => p \notin Written
    BY DEF Written, There
  <2>7. \A p \in Plans : registry'[p] \in Settled => registry[p] = registry'[p]
    BY <2>2 DEF Settled
  <2>8. \A p \in Written : registry[p] # "absent" => registry'[p] = registry[p]
    BY <2>2, <2>5
  <2>9. \A p \in Written : registry[p] = "absent" => registry'[p] = "inactive"
    BY <2>2, <2>5
  <2>10. \A p \in Plans : files[p] = "future" => registry'[p] = "absent"
    BY <2>2, <2>6
  <2> QED BY <1>1, <2>4, <2>7, <2>8, <2>9, <2>10
<1> QED BY <1>2, <1>3 DEF Syncs

(* What is known survives a sync of the registry.                          *)
LEMMA KnowsSynced ==
  ASSUME Typed, Syncs, NEW x, Knows(x, registry, Written, active)
  PROVE  Knows(x, registry', Written', active')
<1>1. /\ Written' = Written /\ active' = active
      /\ \A p \in Plans : registry'[p] \in Settled => registry[p] = registry'[p]
      /\ \A p \in Written : registry'[p] = registry[p] \/ {registry'[p], registry[p]} \subseteq {"absent", "inactive"}
      /\ \A p \in Written : registry[p] # "absent" => registry'[p] = registry[p]
  BY SyncKeeps DEF Syncs
<1>2. \A p \in Written : p \in Plans
  BY DEF Written
<1>3. \A r : Keeps(r, registry) => Keeps(r, registry')
  BY <1>1 DEF Keeps
<1>4. \A r : Close(r, registry, Written) => Close(r, registry', Written')
  <2> TAKE r
  <2> SUFFICES ASSUME Close(r, registry, Written), NEW p \in Written
               PROVE  r[p] = registry'[p] \/ {r[p], registry'[p]} \subseteq {"absent", "inactive"}
    BY <1>1, <1>3 DEF Close
  <2>1. r[p] = registry[p] \/ {r[p], registry[p]} \subseteq {"absent", "inactive"}
    BY DEF Close
  <2> QED BY <1>1, <2>1
<1>5. \A r : Fresh(r, registry, Written, active) => Fresh(r, registry', Written', active')
  BY <1>1, <1>4 DEF Fresh
<1>6. First(x.todo) = "repair" /\ active \in Plans => registry'[active] \notin Settled
  BY <1>1 DEF Knows
<1> QED BY <1>1, <1>2, <1>3, <1>4, <1>5, <1>6 DEF Knows

(* What the call that s goes on with knows, all of them know.              *)
LEMMA SessionsKnow ==
  ASSUME NEW s \in Sessions, NEW y, Turned(s, y), NEW now, NEW there, NEW a,
         Knows(y, now, there, a),
         \A t \in Sessions \ {s} : Knows(act[t], now, there, a)
  PROVE  \A t \in Sessions : Knows(act'[t], now, there, a)
<1> TAKE t \in Sessions
<1>1. CASE t # s
  BY <1>1 DEF Turned
<1>2. CASE t = s
  <2>1. CASE act'[s] = y
    BY <1>2, <2>1
  <2>2. CASE act'[s] = Idle
    <3>1. First(Idle.todo) \notin Holding /\ "replace" \notin Steps(Idle.todo)
      BY Ended DEF Holding, Inner, Reads
    <3> QED BY <1>2, <2>2, <3>1, KnowsNothing
  <2> QED BY <2>1, <2>2 DEF Turned
<1> QED BY <1>1, <1>2

(* The reasons why the active plan may stand as something else, and why    *)
(* another one may stand as active.                                        *)
LEMMA ReasonsStay ==
  ASSUME NEW s \in Sessions, NEW y, Turned(s, y), NEW t \in Sessions
  PROVE  /\ t # s => act'[t] = act[t] /\ Now(t)' = Now(t)
         /\ Now(s)' = First(y.todo)
         /\ Owing(y) => Owing(act'[s])
         /\ Leaving(y) => Leaving(act'[s]) /\ act'[s].plan = y.plan
<1>1. t # s => act'[t] = act[t] /\ Now(t)' = Now(t)
  BY DEF Turned, Now
<1>2. Now(s)' = First(y.todo)
  BY DEF Turned, Now
<1>3. Owing(y) => Owing(act'[s])
  BY DEF Turned, Owing
<1>4. Leaving(y) => y.todo # <<>>
  BY Ended DEF Leaving
<1>5. Leaving(y) => Leaving(act'[s]) /\ act'[s].plan = y.plan
  BY <1>4 DEF Turned
<1> QED BY <1>1, <1>2, <1>3, <1>5

(* A step that leaves the registry and the active plan as they are.        *)
LEMMA QuietKeeps ==
  ASSUME Typed, Data, NEW s \in Sessions, NEW y, Turned(s, y), Syncs,
         overwritten => overwritten', registryLock = "left" => registryLock' = "left",
         Now(s) \notin {"mark", "repair"},
         ~overwritten' /\ Owing(act[s]) => Owing(y),
         Leaving(act[s]) => Leaving(y) /\ y.plan = act[s].plan,
         Sound /\ ~overwritten' => Knows(y, registry', Written', active')
  PROVE  Data'
<1> SUFFICES ASSUME ~overwritten', registryLock' # "left"
             PROVE  Sound'
  BY DEF Data
<1>1. Sound
  BY DEF Data
<1>2. /\ Written' = Written /\ active' = active
      /\ \A p \in Written : registry'[p] = registry[p] \/ {registry'[p], registry[p]} \subseteq {"absent", "inactive"}
      /\ \A p \in Written : registry[p] # "absent" => registry'[p] = registry[p]
  BY SyncKeeps DEF Syncs
<1>3. \A t \in Sessions : Knows(act'[t], registry', Written', active')
  <2>1. \A t \in Sessions \ {s} : Knows(act[t], registry', Written', active')
    BY <1>1, KnowsSynced DEF Sound
  <2> QED BY <1>1, <2>1, SessionsKnow
<1>4. \A t \in Sessions : Now(t) \in {"mark", "repair"} => Now(t)' = Now(t)
  BY ReasonsStay
<1>5. Half'
  <2> SUFFICES ASSUME NEW p \in Written, registry'[p] = "active"
               PROVE  p = active \/ \E t \in Sessions : Now(t)' = "mark"
    BY <1>2 DEF Half
  <2>1. registry[p] = "active"
    BY <1>2
  <2> QED BY <1>1, <1>4, <2>1 DEF Sound, Half
<1>6. Rest'
  <2> SUFFICES ASSUME active \in Written
               PROVE  \/ registry'[active] = "active"
                      \/ registry'[active] = "inactive" /\ \E t \in Sessions : Owing(act'[t])
                      \/ \E t \in Sessions : Now(t)' \in {"repair", "mark"}
                      \/ registry'[active] = "archived" /\ \E t \in Sessions : Leaving(act'[t]) /\ act'[t].plan = active
    BY <1>2 DEF Rest
  <2>1. CASE registry[active] = "active"
    BY <1>2, <2>1
  <2>2. ASSUME registry[active] = "inactive", NEW t \in Sessions, Owing(act[t])
        PROVE  registry'[active] = "inactive" /\ Owing(act'[t])
    <3>1. registry'[active] = "inactive"
      BY <1>2, <2>2
    <3>2. CASE t = s
      BY <2>2, <3>1, <3>2, ReasonsStay
    <3>3. CASE t # s
      BY <2>2, <3>1, <3>3, ReasonsStay
    <3> QED BY <3>2, <3>3
  <2>3. ASSUME NEW t \in Sessions, Now(t) \in {"repair", "mark"}
        PROVE  Now(t)' \in {"repair", "mark"}
    BY <1>4, <2>3
  <2>4. ASSUME registry[active] = "archived", NEW t \in Sessions, Leaving(act[t]), act[t].plan = active
        PROVE  registry'[active] = "archived" /\ Leaving(act'[t]) /\ act'[t].plan = active
    <3>1. registry'[active] = "archived"
      BY <1>2, <2>4
    <3>2. CASE t = s
      BY <2>4, <3>1, <3>2, ReasonsStay
    <3>3. CASE t # s
      BY <2>4, <3>1, <3>3, ReasonsStay
    <3> QED BY <3>2, <3>3
  <2> QED BY <1>1, <2>1, <2>2, <2>3, <2>4 DEF Sound, Rest
<1> QED BY <1>3, <1>5, <1>6 DEF Sound

(* A step that changes neither which plan is active nor, but for a sync,   *)
(* the registry.                                                           *)
LEMMA Quiet ==
  ASSUME Inv, NEW s \in Sessions, NEW y \in CallRecords, Turned(s, y), Syncs, TypedDisk', TypedRest',
         overwritten => overwritten', registryLock = "left" => registryLock' = "left",
         Now(s) \notin {"mark", "repair"},
         \A p \in Plans : Unborn(p) => Unaware(y, p),
         ~overwritten' /\ Owing(act[s]) => Owing(y),
         Leaving(act[s]) => Leaving(y) /\ y.plan = act[s].plan,
         Sound /\ ~overwritten' => Knows(y, registry', Written', active')
  PROVE  Inv'
<1>1. Typed /\ Ordered /\ Born /\ Data
  BY DEF Inv
<1>2. Typed' /\ Ordered'
  BY DEF Typed, Turned
<1>3. Born'
  <2>1. \A p \in Plans : files[p] = "future" => registry[p] = "absent" /\ active # p
    BY <1>1 DEF Born, Unborn
  <2>2. files' = files /\ active' = active
    BY DEF Syncs
  <2>3. \A p \in Plans : files[p] = "future" /\ registry[p] = "absent" => registry'[p] = "absent"
    BY <1>1, SyncKeeps
  <2> QED BY <1>1, <2>1, <2>2, <2>3, BornKept DEF Unborn
<1>4. Data'
  BY <1>1, QuietKeeps
<1> QED BY <1>2, <1>3, <1>4 DEF Inv

(* What a save owes, it owes until it looks or is through.                 *)
LEMMA OwingDone ==
  ASSUME NEW x, NEW y, NEW n, First(x.todo) = n, Steps(x.todo) = {n} \cup Steps(y.todo),
         n \notin {"look", "repair", "again"}, Owing(x)
  PROVE  Owing(y)
BY DEF Owing

(* The simple steps: nothing but the place in the call moves on.           *)
Simple == {"lockLifecycle", "lockRegistry", "unlock", "check", "confirm", "succeed", "conclude", "again"}

(* A step after which nothing but the place in the call has changed keeps  *)
(* the invariant.                                                          *)
LEMMA Moved ==
  ASSUME Inv, NEW s \in Sessions, act[s].todo # <<>>, GoOn(s, Done(s)), LocksMove(s),
         Now(s) \in Simple \cup {"content", "resolve"},
         registry' = registry, files' = files, active' = active, TypedDisk', TypedRest',
         overwritten => overwritten', registryLock = "left" => registryLock' = "left",
         Now(s) = "again" /\ ~overwritten' => ~Owing(act[s]),
         Now(s) = "check" => act[s].reg[act[s].target] \notin Settled,
         Now(s) = "content" => ~Unborn(act[s].target),
         Now(s) = "resolve" => ~Unborn(act[s].plan)
  PROVE  Inv'
<1> DEFINE y == Done(s)
<1>1. Typed /\ Ordered /\ Born
  BY DEF Inv
<1>2. PICK x : x = act[s]
  OBVIOUS
<1>3. PICK q : q = Tail(x.todo)
  OBVIOUS
<1>4. PICK n : n = Now(s)
  OBVIOUS
<1>5. PICK k : k = Kind(x.op)
  OBVIOUS
<1>6. /\ x \in CallRecords /\ First(x.todo) = n /\ n \in StepNames /\ q \in Seq(StepNames)
      /\ Steps(x.todo) = {n} \cup Steps(q) /\ Fits(k, n, First(q), Steps(q))
  BY <1>1, <1>2, <1>3, <1>4, <1>5, Going DEF Now, Left
<1>7. PICK z : z = y
  OBVIOUS
<1>8. z = [x EXCEPT !.todo = q]
  BY <1>2, <1>3, <1>7 DEF Done, My
<1>9. /\ z \in CallRecords /\ z.todo = q /\ z.op = x.op /\ z.plan = x.plan /\ z.target = x.target
      /\ z.reg = x.reg /\ z.seen = x.seen /\ z.cur = x.cur /\ z.life = x.life
  BY <1>6, <1>8 DEF CallRecords
<1>10. GoOn(s, z)
  BY <1>7
<1>11. Turned(s, z)
  BY <1>1, <1>2, <1>3, <1>9, <1>10, Dones
<1>12. Syncs
  BY DEF Syncs
<1>13. \A p \in Plans : Unborn(p) => Unaware(z, p)
  <2> TAKE p \in Plans
  <2> SUFFICES ASSUME Unborn(p) PROVE Unaware(z, p)
    OBVIOUS
  <2>1. Unaware(x, p)
    BY <1>1, <1>2 DEF Born
  <2>2. p # None
    BY PlansAssumption DEF None
  <2>3. n # "write"
    BY <1>4 DEF Simple
  <2>4. CASE n \notin {"content", "resolve"}
    BY <1>6, <1>9, <2>1, <2>2, <2>3, <2>4, UnawareNext
  <2>5. CASE n = "content"
    <3>1. x.target # p
      BY <1>2, <1>4, <2>5
    <3>2. "resolve" \in Steps(x.todo) => "resolve" \in Steps(z.todo)
      BY <1>6, <1>9, <2>5
    <3>3. "succeed" \in Steps(z.todo) => "succeed" \in Steps(x.todo)
      BY <1>6, <1>9
    <3> QED BY <1>9, <2>1, <3>1, <3>2, <3>3 DEF Unaware
  <2>6. CASE n = "resolve"
    <3>1. x.plan # p
      BY <1>2, <1>4, <2>6
    <3>2. /\ "content" \in Steps(x.todo) <=> "content" \in Steps(z.todo)
          /\ "write" \in Steps(x.todo) <=> "write" \in Steps(z.todo)
          /\ "mark" \in Steps(x.todo) <=> "mark" \in Steps(z.todo)
          /\ "enter" \in Steps(x.todo) <=> "enter" \in Steps(z.todo)
      BY <1>6, <1>9, <2>6
    <3> QED BY <1>9, <2>1, <3>1, <3>2 DEF Unaware
  <2> QED BY <2>4, <2>5, <2>6
<1>14. ~overwritten' /\ Owing(x) => Owing(z)
  <2>1. n \notin {"look", "repair"}
    BY <1>4 DEF Simple
  <2>2. CASE n = "again"
    BY <1>2, <1>4, <2>2
  <2>3. CASE n # "again"
    BY <1>6, <1>9, <2>1, <2>3, OwingDone
  <2> QED BY <2>2, <2>3
<1>15. ~Leaving(x)
  BY <1>4, <1>6 DEF Leaving, Simple
<1>16. ASSUME Sound PROVE Knows(z, registry', Written', active')
  <2>1. Knows(x, registry, Written, active)
    BY <1>2, <1>16 DEF Sound
  <2>2. "replace" \notin Steps(q)
    BY <1>6, <2>1 DEF Knows
  <2>3. CASE First(q) \notin Holding
    BY <1>9, <2>2, <2>3, KnowsNothing
  <2>4. CASE First(q) \in Holding
    <3>1. n \in {"lockRegistry", "check"}
      BY <1>4, <1>6, <2>4 DEF Fits, Anyhow, Simple, Holding, Inner, Reads
    <3>2. First(q) = "loadSeen"
      BY <1>6, <2>4, <3>1 DEF Fits, Anyhow, Holding, Inner, Reads
    <3>3. CASE n = "lockRegistry"
      <4>1. "mark" \notin Steps(q) /\ "succeed" \notin Steps(q)
        BY <1>6, <3>2, <3>3 DEF Fits
      <4> QED BY <1>9, <2>2, <3>2, <4>1 DEF Knows, Leaving
    <3>4. CASE n = "check"
      <4>1. "succeed" \notin Steps(q)
        BY <1>6, <3>4 DEF Fits
      <4>2. Keeps(x.reg, registry)
        BY <1>6, <2>1, <3>4 DEF Knows, Fresh, Close
      <4>3. x.reg[x.target] \notin Settled
        BY <1>2, <1>4, <3>4
      <4> QED BY <1>9, <2>2, <3>2, <4>1, <4>2, <4>3 DEF Knows, Leaving
    <3> QED BY <3>1, <3>3, <3>4
  <2> QED BY <2>3, <2>4
<1>17. Now(s) \notin {"mark", "repair"}
  BY DEF Simple
<1> QED BY <1>2, <1>9, <1>11, <1>12, <1>13, <1>14, <1>15, <1>16, <1>17, Quiet

(* An exception: what the call knew does not matter any more.              *)
LEMMA Thrown ==
  ASSUME Inv, NEW s \in Sessions, act[s].todo # <<>>, Throw(s), UNCHANGED <<disk, locks, bounds>>,
         Now(s) \in Changing \cup {"lockLifecycle", "lockRegistry", "confirm", "conclude"},
         overwritten => overwritten', ~overwritten' => ~Owing(act[s])
  PROVE  Inv'
<1>1. Typed /\ Ordered /\ Born
  BY DEF Inv
<1>2. PICK x : x = act[s]
  OBVIOUS
<1>3. PICK y : y = [x EXCEPT !.todo = <<"unlock">>]
  OBVIOUS
<1>4. Now(s) \notin {"load", "sync", "mark", "repair"}
  BY DEF Changing
<1>5. UNCHANGED <<lifecycleLock, registryLock>>
  BY DEF locks
<1>6. y \in CallRecords /\ Turned(s, y) /\ First(<<"unlock">>) = "unlock" /\ Steps(<<"unlock">>) = {"unlock"}
  BY <1>1, <1>2, <1>3, <1>4, <1>5, Throws
<1>7. x \in CallRecords
  BY <1>1, <1>2, Going
<1>8. y.todo = <<"unlock">> /\ y.reg = x.reg /\ y.seen = x.seen /\ y.cur = x.cur
  BY <1>3, <1>7 DEF CallRecords
<1>9. Syncs
  BY DEF Syncs, disk
<1>10. \A p \in Plans : Unborn(p) => Unaware(y, p)
  <2>1. \A p \in Plans : Unborn(p) => Unaware(x, p)
    BY <1>1, <1>2 DEF Born
  <2> QED BY <1>6, <1>8, <2>1 DEF Unaware
<1>11. ~Leaving(act[s])
  BY DEF Leaving, Now, Changing
<1>12. Knows(y, registry', Written', active')
  <2>1. First(y.todo) \notin Holding /\ "replace" \notin Steps(y.todo)
    BY <1>6, <1>8 DEF Holding, Inner, Reads
  <2> QED BY <2>1, KnowsNothing
<1>13. TypedDisk' /\ TypedRest'
  BY <1>1 DEF Typed, TypedDisk, TypedRest, disk, locks, bounds
<1> QED BY <1>2, <1>4, <1>5, <1>6, <1>9, <1>10, <1>11, <1>12, <1>13, Quiet

(* A step that means to change what is active owes nothing, nor does the   *)
(* last one of a save.                                                     *)
LEMMA OwesNothing ==
  ASSUME Typed, Ordered, NEW s \in Sessions, Now(s) \in Changing \cup {"again", "choose"}
  PROVE  ~Owing(act[s])
<1>1. act[s].todo # <<>>
  BY DEF Now, First, Changing
<1>2. PICK q : q = Tail(act[s].todo)
  OBVIOUS
<1>3. PICK k : k = Kind(act[s].op)
  OBVIOUS
<1>4. Left(s) = {Now(s)} \cup Steps(q) /\ Fits(k, Now(s), First(q), Steps(q))
  BY <1>1, <1>2, <1>3, Going
<1>5. CASE Now(s) \in {"again", "choose"}
  <2>1. First(q) = "end" /\ Steps(q) = {}
    BY <1>4, <1>5 DEF Fits, Anyhow
  <2> QED BY <1>4, <1>5, <2>1 DEF Owing, Left, Now
<1>6. CASE Now(s) \in Changing
  <2>1. "again" \notin Steps(q)
    BY <1>4, <1>6 DEF Fits
  <2> QED BY <1>4, <1>6, <2>1 DEF Owing, Left, Changing
<1> QED BY <1>5, <1>6

(* Where a session is.                                                     *)
LEMMA AtNow ==
  ASSUME NEW s, NEW n, At(s, n)
  PROVE  Now(s) = n /\ act[s].todo # <<>>
BY DEF At, Now, First, My

(* The locks are taken when they are free.                                 *)
LEMMA LockLifecycleKeeps ==
  ASSUME Inv, NEW s \in Sessions, LockLifecycle(s)
  PROVE  Inv'
<1>1. Now(s) = "lockLifecycle" /\ act[s].todo # <<>>
  BY AtNow DEF LockLifecycle
<1>2. LocksMove(s)
  BY <1>1 DEF LockLifecycle, LocksMove
<1>3. TypedDisk' /\ TypedRest'
  BY DEF LockLifecycle, Inv, Typed, TypedDisk, TypedRest, disk, bounds, Holders
<1>4. registry' = registry /\ files' = files /\ active' = active /\ registryLock' = registryLock /\ overwritten' = overwritten
  BY DEF LockLifecycle, disk
<1>5. GoOn(s, Done(s))
  BY DEF LockLifecycle
<1> QED BY <1>1, <1>2, <1>3, <1>4, <1>5, Moved DEF Simple

(* Taking the lock of the registry.                                        *)
LEMMA LockRegistryKeeps ==
  ASSUME Inv, NEW s \in Sessions, LockRegistry(s)
  PROVE  Inv'
<1>1. Now(s) = "lockRegistry" /\ act[s].todo # <<>>
  BY AtNow DEF LockRegistry
<1>2. LocksMove(s)
  BY <1>1 DEF LockRegistry, LocksMove
<1>3. TypedDisk' /\ TypedRest'
  BY DEF LockRegistry, Inv, Typed, TypedDisk, TypedRest, disk, bounds, Holders
<1>4. registry' = registry /\ files' = files /\ active' = active /\ registryLock # "left" /\ overwritten' = overwritten
  BY DEF LockRegistry, disk
<1>5. GoOn(s, Done(s))
  BY DEF LockRegistry
<1> QED BY <1>1, <1>2, <1>3, <1>4, <1>5, Moved DEF Simple

(* They are released by whoever has them.                                  *)
LEMMA UnlockKeeps ==
  ASSUME Inv, NEW s \in Sessions, Unlock(s)
  PROVE  Inv'
<1>1. Now(s) = "unlock" /\ act[s].todo # <<>>
  BY AtNow DEF Unlock
<1>2. LocksMove(s)
  BY <1>1 DEF Unlock, LocksMove
<1>3. TypedDisk' /\ TypedRest'
  BY DEF Unlock, Inv, Typed, TypedDisk, TypedRest, disk, bounds, Holders
<1>4. registry' = registry /\ files' = files /\ active' = active /\ overwritten' = overwritten
  BY DEF Unlock, disk
<1>5. registryLock = "left" => registryLock' = "left"
  BY PlansAssumption DEF Unlock
<1>6. GoOn(s, Done(s))
  BY DEF Unlock
<1> QED BY <1>1, <1>2, <1>3, <1>4, <1>5, <1>6, Moved DEF Simple

(* A save that gives up while it owes a look has left something behind.    *)
LEMMA PendingLeft ==
  ASSUME NEW s, NEW n
  PROVE  Pending(s, n) <=> n \in Left(s)
BY DEF Pending, Left, Steps, My

(* Giving up on a lock: a save that owes a look says so.                   *)
LEMMA GiveUpKeeps ==
  ASSUME Inv, NEW s \in Sessions, GiveUp(s)
  PROVE  Inv'
<1>1. Now(s) \in {"lockLifecycle", "lockRegistry", "confirm", "conclude"} /\ act[s].todo # <<>>
  BY AtNow DEF GiveUp
<1>2. Owing(act[s]) => Unsettled(s)
  BY PendingLeft DEF Owing, Unsettled, Left
<1>3. ~overwritten' => ~Owing(act[s])
  BY <1>2 DEF GiveUp
<1>4. Throw(s) /\ UNCHANGED <<disk, locks, bounds>> /\ (overwritten => overwritten')
  BY DEF GiveUp
<1> QED BY <1>1, <1>3, <1>4, Thrown

(* A context is written: neither the registry nor the active plan changes. *)
LEMMA ConfirmKeeps ==
  ASSUME Inv, NEW s \in Sessions, Confirm(s) \/ Conclude(s)
  PROVE  Inv'
<1>1. Now(s) \in {"confirm", "conclude"} /\ act[s].todo # <<>>
  BY AtNow DEF Confirm, Conclude
<1>2. UNCHANGED <<locks, overwritten, bounds>> /\ GoOn(s, Done(s))
  BY DEF Confirm, Conclude
<1>3. LocksMove(s)
  BY <1>1, <1>2 DEF LocksMove, locks
<1>4. UNCHANGED <<files, registry, active>>
  BY DEF Confirm, Conclude, WriteContext
<1>5. TypedRest'
  BY <1>2 DEF Inv, Typed, TypedRest, locks, bounds
<1>6. confirmed' \in [Plans -> Confirmed]
  <2>1. confirmed \in [Plans -> Confirmed] /\ act[s].was \in Confirmed
    BY DEF Inv, Typed, TypedDisk, CallRecords
  <2>2. \A p, v : v \in Confirmed => [confirmed EXCEPT ![p] = v] \in [Plans -> Confirmed]
    BY <2>1
  <2>3. "yes" \in Confirmed
    BY DEF Confirmed
  <2> QED BY <2>1, <2>2, <2>3 DEF Confirm, Conclude, WriteContext, My
<1>7. TypedDisk'
  BY <1>4, <1>6 DEF Inv, Typed, TypedDisk
<1>8. registryLock' = registryLock
  BY <1>2 DEF locks
<1> QED BY <1>1, <1>2, <1>3, <1>4, <1>5, <1>7, <1>8, Moved DEF Simple

(* Nothing on the disk, no lock and no bound changes, and the call goes on *)
(* with its next step or throws.                                           *)
LEMMA StillThere ==
  ASSUME Inv, NEW s \in Sessions, UNCHANGED <<disk, locks, overwritten, bounds>>,
         Now(s) \notin {"lockLifecycle", "lockRegistry", "unlock"}
  PROVE  /\ TypedDisk' /\ TypedRest' /\ LocksMove(s) /\ Syncs
         /\ registry' = registry /\ files' = files /\ active' = active
         /\ registryLock' = registryLock /\ overwritten' = overwritten
BY DEF Inv, Typed, TypedDisk, TypedRest, LocksMove, Syncs, disk, locks, bounds

(* The plan file is read, or found missing.                                *)
LEMMA ContentKeeps ==
  ASSUME Inv, NEW s \in Sessions, Content(s)
  PROVE  Inv'
<1>1. Now(s) = "content" /\ act[s].todo # <<>>
  BY AtNow DEF Content
<1>2. UNCHANGED <<disk, locks, overwritten, bounds>>
  BY DEF Content
<1>3. CASE There(My(s).target)
  <2>1. GoOn(s, Done(s)) /\ ~Unborn(act[s].target)
    BY <1>3 DEF Content, There, Unborn, My
  <2> QED BY <1>1, <1>2, <2>1, StillThere, Moved
<1>4. CASE ~There(My(s).target)
  <2>1. Throw(s)
    BY <1>4 DEF Content
  <2>2. ~Owing(act[s])
    BY <1>1, OwesNothing DEF Inv, Changing
  <2> QED BY <1>1, <1>2, <2>1, <2>2, Thrown DEF Changing
<1> QED BY <1>3, <1>4

(* Finding the file of the plan the call is about.                         *)
LEMMA ResolveKeeps ==
  ASSUME Inv, NEW s \in Sessions, Resolve(s)
  PROVE  Inv'
<1>1. Now(s) = "resolve" /\ act[s].todo # <<>>
  BY AtNow DEF Resolve
<1>2. UNCHANGED <<disk, locks, overwritten, bounds>>
  BY DEF Resolve
<1>3. CASE There(My(s).plan)
  <2>1. GoOn(s, Done(s)) /\ ~Unborn(act[s].plan)
    BY <1>3 DEF Resolve, There, Unborn, My
  <2> QED BY <1>1, <1>2, <2>1, StillThere, Moved
<1>4. CASE ~There(My(s).plan)
  <2>1. Throw(s)
    BY <1>4 DEF Resolve
  <2>2. ~Owing(act[s])
    BY <1>1, OwesNothing DEF Inv, Changing
  <2> QED BY <1>1, <1>2, <2>1, <2>2, Thrown DEF Changing
<1> QED BY <1>3, <1>4

(* Archived plans and drafts are not made the active plan.                 *)
LEMMA CheckKeeps ==
  ASSUME Inv, NEW s \in Sessions, Check(s)
  PROVE  Inv'
<1>1. Now(s) = "check" /\ act[s].todo # <<>>
  BY AtNow DEF Check
<1>2. UNCHANGED <<disk, locks, overwritten, bounds>>
  BY DEF Check
<1>3. CASE act[s].reg[act[s].target] \in Settled
  <2>1. Throw(s)
    BY <1>3 DEF Check, My, Settled
  <2>2. ~Owing(act[s])
    BY <1>1, OwesNothing DEF Inv, Changing
  <2> QED BY <1>1, <1>2, <2>1, <2>2, Thrown DEF Changing
<1>4. CASE act[s].reg[act[s].target] \notin Settled
  <2>1. GoOn(s, Done(s))
    BY <1>4 DEF Check, My, Settled
  <2> QED BY <1>1, <1>2, <1>4, <2>1, StillThere, Moved DEF Simple
<1> QED BY <1>3, <1>4

(* A call is in none of the steps, and its registers are empty.            *)
LEMMA FreshCall ==
  ASSUME NEW x \in CallRecords, NEW p \in Plans, x.reg = Absent, x.seen = Absent, x.cur # p,
         NEW q, NEW op \in OpNames, Begun(op, q), x.todo = q
  PROVE  Unaware(x, p)
BY DEF Unaware, Absent, Begun

(* One less of the calls, crashes or edits still to come.                  *)
LEMMA CountDown ==
  ASSUME NEW m \in Nat, NEW n \in 0..m, n > 0
  PROVE  n - 1 \in 0..m
OBVIOUS

(* A call begins.                                                          *)
LEMMA BeginKeeps ==
  ASSUME Inv, NEW s \in Sessions, NEW op \in Ops, NEW p \in Plans \cup {None}, Begin(s, op, p)
  PROVE  Inv'
<1>1. Typed /\ Ordered /\ Born
  BY DEF Inv
<1>2. op \in OpNames
  BY PlansAssumption
<1>3. PICK q : q = Program(op)
  OBVIOUS
<1>4. Begun(op, q)
  BY <1>2, <1>3, ProgramBegun
<1>5. PICK y : y = [Idle EXCEPT !.op = op, !.plan = p, !.target = p, !.todo = q]
  OBVIOUS
<1>6. q \in Seq(StepNames) /\ q # <<>>
  BY <1>4 DEF Begun, Shape, Run
<1>7. /\ y \in CallRecords /\ y.op = op /\ y.plan = p /\ y.target = p /\ y.todo = q /\ y.life = "inactive"
      /\ y.reg = Absent /\ y.seen = Absent /\ y.cur = None
  <2>1. Idle \in CallRecords
    BY IdleCall
  <2>2. y \in CallRecords
    BY <1>2, <1>5, <1>6, <2>1 DEF CallRecords
  <2> QED BY <1>5, <2>2 DEF Idle
<1>8. GoOn(s, y)
  BY <1>3, <1>5, <1>6, <1>7 DEF Begin, GoOn
<1>9. Belongs(y, Steps(q))
  <2>1. op \notin {"read", "list"} \cup Saves => p \in Plans
    BY DEF Begin
  <2> QED BY <1>4, <1>7, <2>1 DEF Begun, Belongs
<1>10. Holds(s, y, lifecycleLock', registryLock')
  <2>1. Kind("list") = "list"
    BY DEF Kind
  <2>2. First(q) = "lockLifecycle" \/ op = "list"
    BY <1>4 DEF Begun
  <2> QED BY <1>7, <2>1, <2>2 DEF Holds, HoldsAt, Outside
<1>11. UNCHANGED <<disk, locks, overwritten>>
  BY DEF Begin
<1>12. Untaken(s)
  BY <1>11 DEF Untaken, locks
<1>13. Turned(s, y)
  <2>1. Shape(Kind(y.op), y.todo)
    BY <1>4, <1>7 DEF Begun
  <2> QED BY <1>1, <1>2, <1>7, <1>8, <1>9, <1>10, <1>12, <2>1, Turns
<1>14. \A r \in Plans : Unborn(r) => Unaware(y, r)
  <2>1. \A r \in Plans : r # None
    BY PlansAssumption DEF None
  <2> QED BY <1>2, <1>4, <1>7, <2>1, FreshCall
<1>15. First(act[s].todo) = "end" /\ Steps(act[s].todo) = {}
  BY Ended DEF Begin
<1>16. ~Owing(act[s]) /\ ~Leaving(act[s]) /\ Now(s) \notin {"mark", "repair"}
  BY <1>15 DEF Owing, Leaving, Now
<1>17. Knows(y, registry', Written', active')
  <2>1. First(q) \notin Holding /\ "replace" \notin Steps(q)
    BY <1>4 DEF Begun, Holding, Inner, Reads
  <2> QED BY <1>7, <2>1, KnowsNothing
<1>18. TypedDisk' /\ TypedRest'
  <2>1. calls' \in 0..MaxCalls
    BY <1>1, CountDown, PlansAssumption DEF Begin, Typed, TypedRest
  <2>2. crashes' = crashes /\ edits' = edits
    BY DEF Begin
  <2> QED BY <1>1, <1>11, <2>1, <2>2 DEF Typed, TypedDisk, TypedRest, disk, locks
<1>19. Syncs /\ registryLock' = registryLock
  BY <1>11 DEF Syncs, disk, locks
<1> QED BY <1>7, <1>11, <1>13, <1>14, <1>16, <1>17, <1>18, <1>19, Quiet

(* A context is written by a call of its own.                              *)
LEMMA NothingTurns ==
  ASSUME Inv, NEW s \in Sessions, act[s] = Idle, UNCHANGED <<act, lifecycleLock, registryLock>>
  PROVE  Turned(s, Idle)
BY IdleCall, Ended DEF Inv, Typed, Ordered, Turned

(* A context that is written between calls.                                *)
LEMMA PlanContextKeeps ==
  ASSUME Inv, NEW s \in Sessions, NEW p \in Plans, NEW v \in {"yes", "no"}, PlanContext(s, p, v)
  PROVE  Inv'
<1>1. /\ act[s] = Idle /\ UNCHANGED <<files, registry, active, act, locks, overwritten, crashes, edits>>
      /\ calls > 0 /\ calls' = calls - 1
  BY DEF PlanContext, WriteContext
<1>2. Turned(s, Idle)
  BY <1>1, NothingTurns DEF locks
<1>3. confirmed' \in [Plans -> Confirmed]
  <2>1. confirmed \in [Plans -> Confirmed] /\ v \in Confirmed
    BY DEF Inv, Typed, TypedDisk, Confirmed
  <2> QED BY <2>1 DEF PlanContext, WriteContext
<1>4. TypedDisk' /\ TypedRest'
  <2>1. calls' \in 0..MaxCalls
    BY <1>1, CountDown, PlansAssumption DEF Inv, Typed, TypedRest
  <2> QED BY <1>1, <1>3, <2>1 DEF Inv, Typed, TypedDisk, TypedRest, locks
<1>5. First(Idle.todo) = "end" /\ Steps(Idle.todo) = {}
  BY Ended
<1>6. ~Owing(act[s]) /\ ~Leaving(act[s]) /\ Now(s) \notin {"mark", "repair"}
  BY <1>1, <1>5 DEF Owing, Leaving, Now
<1>7. Knows(Idle, registry', Written', active')
  BY <1>5, KnowsNothing DEF Holding, Inner, Reads
<1>8. Syncs /\ registryLock' = registryLock /\ overwritten' = overwritten
  BY <1>1 DEF Syncs, locks
<1> QED BY <1>2, <1>4, <1>6, <1>7, <1>8, IdleCall, IdleUnaware, Quiet

(* What is left of a call after its step.                                  *)
Onward(s, x, z, n, k) ==
  /\ x = act[s] /\ x \in CallRecords /\ x.op \in OpNames /\ n = Now(s) /\ n = First(x.todo) /\ n \in StepNames
  /\ k = Kind(x.op) /\ k \in {"whole", "list", "save"}
  /\ z \in CallRecords /\ z.todo = Tail(x.todo) /\ z.op = x.op /\ z.plan = x.plan /\ z.target = x.target
  /\ z.reg = x.reg /\ z.seen = x.seen /\ z.cur = x.cur /\ z.life = x.life
  /\ Steps(x.todo) = {n} \cup Steps(z.todo)
  /\ Fits(k, n, First(z.todo), Steps(z.todo)) /\ Shape(k, z.todo)

(* The next step of a call under way.                                      *)
LEMMA DoneOnward ==
  ASSUME Typed, Ordered, NEW s \in Sessions, act[s].todo # <<>>
  PROVE  Onward(s, act[s], Done(s), Now(s), Kind(act[s].op))
<1>1. PICK x : x = act[s]
  OBVIOUS
<1>2. PICK q : q = Tail(x.todo)
  OBVIOUS
<1>3. PICK z : z = [x EXCEPT !.todo = q]
  OBVIOUS
<1>4. PICK k : k = Kind(x.op)
  OBVIOUS
<1>5. PICK n : n = Now(s)
  OBVIOUS
<1>6. z = Done(s)
  BY <1>1, <1>2, <1>3 DEF Done, My
<1>7. /\ x \in CallRecords /\ x.op \in OpNames /\ First(x.todo) = n /\ n \in StepNames /\ q \in Seq(StepNames)
      /\ Steps(x.todo) = {n} \cup Steps(q) /\ Fits(k, n, First(q), Steps(q)) /\ Shape(k, q)
  BY <1>1, <1>2, <1>4, <1>5, Going DEF Now, Left
<1>8. /\ z \in CallRecords /\ z.todo = q /\ z.op = x.op /\ z.plan = x.plan /\ z.target = x.target
      /\ z.reg = x.reg /\ z.seen = x.seen /\ z.cur = x.cur /\ z.life = x.life
  BY <1>3, <1>7 DEF CallRecords
<1>9. k \in {"whole", "list", "save"}
  BY <1>4 DEF Kind
<1>10. Onward(s, x, z, n, k)
  BY <1>1, <1>2, <1>4, <1>5, <1>7, <1>8, <1>9 DEF Onward
<1> QED BY <1>1, <1>4, <1>5, <1>6, <1>10

(* A call goes on with a copy of the registry.                             *)
LEMMA Copies ==
  ASSUME Typed, Ordered, NEW s \in Sessions, act[s].todo # <<>>, NEW r \in [Plans -> Lifecycle], NEW y,
         GoOn(s, y), LocksMove(s),
         \/ y = [Done(s) EXCEPT !.reg = r]
         \/ y = [Done(s) EXCEPT !.seen = r]
  PROVE  /\ y \in CallRecords /\ Turned(s, y)
         /\ y.todo = Tail(act[s].todo) /\ y.target = act[s].target /\ y.plan = act[s].plan /\ y.cur = act[s].cur
         /\ y = [Done(s) EXCEPT !.reg = r] => y.reg = r /\ y.seen = act[s].seen
         /\ y = [Done(s) EXCEPT !.seen = r] => y.seen = r /\ y.reg = act[s].reg
<1>1. PICK x : x = act[s]
  OBVIOUS
<1>2. PICK z : z = Done(s)
  OBVIOUS
<1>3. Onward(s, x, z, Now(s), Kind(x.op))
  BY <1>1, <1>2, DoneOnward
<1>4. z \in CallRecords
  BY <1>3 DEF Onward
<1>5. CASE y = [z EXCEPT !.reg = r]
  <2>1. /\ y \in CallRecords /\ y.todo = z.todo /\ y.op = z.op /\ y.plan = z.plan /\ y.target = z.target
        /\ y.reg = r /\ y.seen = z.seen /\ y.cur = z.cur /\ y.life = z.life
    BY <1>4, <1>5 DEF CallRecords
  <2>2. y.todo = Tail(x.todo) /\ y.op = x.op /\ y.plan = x.plan /\ y.life = x.life /\ y.target = x.target
        /\ y.seen = x.seen /\ y.cur = x.cur
    BY <1>3, <2>1 DEF Onward
  <2>3. Turned(s, y)
    BY <1>1, <2>1, <2>2, Dones
  <2>4. y = [z EXCEPT !.seen = r] => y.seen = r /\ y.reg = z.reg
    BY <1>4 DEF CallRecords
  <2>5. z.reg = x.reg
    BY <1>3 DEF Onward
  <2> QED BY <1>1, <1>2, <2>1, <2>2, <2>3, <2>4, <2>5
<1>6. CASE y = [z EXCEPT !.seen = r]
  <2>1. /\ y \in CallRecords /\ y.todo = z.todo /\ y.op = z.op /\ y.plan = z.plan /\ y.target = z.target
        /\ y.seen = r /\ y.reg = z.reg /\ y.cur = z.cur /\ y.life = z.life
    BY <1>4, <1>6 DEF CallRecords
  <2>2. y.todo = Tail(x.todo) /\ y.op = x.op /\ y.plan = x.plan /\ y.life = x.life /\ y.target = x.target
        /\ y.reg = x.reg /\ y.cur = x.cur
    BY <1>3, <2>1 DEF Onward
  <2>3. Turned(s, y)
    BY <1>1, <2>1, <2>2, Dones
  <2>4. y = [z EXCEPT !.reg = r] => y.reg = r /\ y.seen = z.seen
    BY <1>4 DEF CallRecords
  <2>5. z.seen = x.seen
    BY <1>3 DEF Onward
  <2> QED BY <1>1, <1>2, <2>1, <2>2, <2>3, <2>4, <2>5
<1> QED BY <1>2, <1>5, <1>6

(* The registry is read.                                                   *)
LEMMA LoadKeeps ==
  ASSUME Inv, NEW s \in Sessions, Load(s)
  PROVE  Inv'
<1>1. Now(s) \in {"load", "loadSeen"} /\ act[s].todo # <<>>
  BY AtNow DEF Load
<1>2. UNCHANGED <<disk, locks, overwritten, bounds>>
  BY DEF Load
<1>3. Typed /\ Ordered /\ Born /\ registry \in [Plans -> Lifecycle]
  BY DEF Inv, Typed, TypedDisk
<1>4. LocksMove(s) /\ Syncs /\ TypedDisk' /\ TypedRest'
  BY <1>1, <1>2, StillThere
<1>5. UNCHANGED <<registry, files, active, registryLock, overwritten>>
  BY <1>2 DEF disk, locks
<1>6. PICK y : /\ GoOn(s, y)
               /\ \/ Now(s) = "load" /\ y = [Done(s) EXCEPT !.reg = registry]
                  \/ Now(s) = "loadSeen" /\ y = [Done(s) EXCEPT !.seen = registry]
  BY AtNow DEF Load
<1>7. PICK x : x = act[s]
  OBVIOUS
<1>8. PICK n : n = Now(s)
  OBVIOUS
<1>9. /\ y \in CallRecords /\ Turned(s, y)
      /\ y.todo = Tail(x.todo) /\ y.target = x.target /\ y.plan = x.plan /\ y.cur = x.cur
      /\ n = "load" => y.reg = registry /\ y.seen = x.seen
      /\ n = "loadSeen" => y.seen = registry /\ y.reg = x.reg
  BY <1>1, <1>3, <1>4, <1>6, <1>7, <1>8, Copies
<1>10. PICK z : z = Done(s)
  OBVIOUS
<1>11. Onward(s, x, z, n, Kind(x.op))
  BY <1>1, <1>3, <1>7, <1>8, <1>10, DoneOnward
<1>12. /\ n = First(x.todo) /\ Steps(x.todo) = {n} \cup Steps(y.todo)
       /\ First(y.todo) = IF n = "load" THEN "sync" ELSE "syncSeen"
  BY <1>1, <1>8, <1>9, <1>11 DEF Onward, Fits, Anyhow
<1>13. ASSUME NEW p \in Plans, Unborn(p) PROVE Unaware(y, p)
  <2>1. Unaware(x, p) /\ registry[p] = "absent"
    BY <1>3, <1>7, <1>13 DEF Born
  <2>2. p # None
    BY PlansAssumption DEF None
  <2>3. y.reg[p] \in {x.reg[p], "absent"} /\ y.seen[p] \in {x.seen[p], "absent"}
    BY <1>1, <1>8, <1>9, <2>1
  <2> QED BY <1>1, <1>8, <1>9, <1>12, <2>1, <2>2, <2>3, UnawareNext
<1>14. Owing(x) => Owing(y)
  BY <1>1, <1>8, <1>12, OwingDone
<1>15. Leaving(x) => Leaving(y)
  BY <1>1, <1>8, <1>12 DEF Leaving
<1>16. ASSUME Knows(x, registry, Written, active) PROVE Knows(y, registry, Written, active)
  <2>1. "replace" \notin Steps(y.todo)
    BY <1>12, <1>16 DEF Knows
  <2>2. CASE n = "load"
    BY <1>12, <2>1, <2>2, KnowsNothing DEF Holding, Inner, Reads
  <2>3. CASE n = "loadSeen"
    <3>1. "mark" \in Steps(y.todo) => Keeps(x.reg, registry) /\ x.reg[x.target] \notin Settled
      BY <1>12, <1>16, <2>3 DEF Knows, Inner, Reads
    <3>2. Leaving(y) /\ y.plan \in Written => registry[y.plan] = "archived"
      BY <1>9, <1>12, <1>16, <2>3 DEF Knows, Leaving
    <3> QED BY <1>9, <1>12, <2>1, <2>3, <3>1, <3>2 DEF Knows
  <2> QED BY <1>1, <1>8, <2>2, <2>3
<1>17. Sound => Knows(y, registry', Written', active')
  <2>1. Sound => Knows(x, registry, Written, active)
    BY <1>7 DEF Sound
  <2>2. Written' = Written
    BY <1>5 DEF Written, There
  <2> QED BY <1>5, <1>16, <2>1, <2>2
<1> QED BY <1>1, <1>4, <1>5, <1>7, <1>8, <1>9, <1>13, <1>14, <1>15, <1>17, Quiet

(* A registry that is just synced is fresh.                                *)
LEMMA SyncedFresh ==
  ASSUME NEW r \in [Plans -> Lifecycle], NEW a
  PROVE  /\ Synced(r) \in [Plans -> Lifecycle]
         /\ Fresh(Synced(r), Synced(r), Written, a)
         /\ \A p \in Plans : Unborn(p) => Synced(r)[p] = "absent"
<1>1. PICK u : u = Synced(r)
  OBVIOUS
<1>2. \A p \in Plans : u[p] = IF ~There(p) THEN "absent" ELSE IF r[p] = "absent" THEN "inactive" ELSE r[p]
  BY <1>1 DEF Synced
<1>3. \A p \in Plans : u[p] \in Lifecycle
  BY <1>2 DEF Lifecycle
<1>4. Synced(r) \in [Plans -> Lifecycle]
  BY <1>1, <1>3 DEF Synced
<1>5. \A p \in Plans : Unborn(p) => u[p] = "absent"
  BY <1>2 DEF Unborn, There
<1>6. \A p \in Written : u[p] # "absent"
  BY <1>2 DEF Written
<1>7. Fresh(u, u, Written, a)
  BY <1>6 DEF Fresh, Close, Keeps
<1> QED BY <1>1, <1>4, <1>5, <1>7

(* The registry is synced, from a copy that may be stale by then.          *)
LEMMA SyncRegistryKeeps ==
  ASSUME Inv, NEW s \in Sessions, SyncRegistry(s)
  PROVE  Inv'
<1>1. Now(s) \in {"sync", "syncSeen"} /\ act[s].todo # <<>>
  BY AtNow DEF SyncRegistry
<1>2. UNCHANGED <<files, active, confirmed, locks, bounds>>
  BY DEF SyncRegistry, WriteRegistry
<1>3. Typed /\ Ordered /\ Born
  BY DEF Inv
<1>4. PICK x : x = act[s]
  OBVIOUS
<1>5. PICK n : n = Now(s)
  OBVIOUS
<1>6. PICK r : r = IF n = "sync" THEN x.reg ELSE x.seen
  OBVIOUS
<1>7. /\ registry' = Synced(r)
      /\ overwritten' = (overwritten \/ r # registry)
  BY <1>4, <1>5, <1>6, AtNow DEF SyncRegistry, WriteRegistry, My
<1>8. PICK y : /\ GoOn(s, y)
               /\ \/ n = "sync" /\ y = [Done(s) EXCEPT !.reg = registry']
                  \/ n = "syncSeen" /\ y = [Done(s) EXCEPT !.seen = registry']
  BY <1>5, AtNow DEF SyncRegistry
<1>9. PICK z : z = Done(s)
  OBVIOUS
<1>10. Onward(s, x, z, n, Kind(x.op))
  BY <1>1, <1>3, <1>4, <1>5, <1>9, DoneOnward
<1>11. x \in CallRecords /\ r \in [Plans -> Lifecycle]
  BY <1>6, <1>10 DEF Onward, CallRecords
<1>12. PICK u : u = Synced(r)
  OBVIOUS
<1>13. /\ u \in [Plans -> Lifecycle] /\ registry' = u
       /\ Fresh(u, u, Written, active) /\ \A p \in Plans : Unborn(p) => u[p] = "absent"
  BY <1>7, <1>11, <1>12, SyncedFresh
<1>14. LocksMove(s) /\ TypedDisk' /\ TypedRest'
  BY <1>1, <1>2, <1>3, <1>13 DEF LocksMove, locks, bounds, Typed, TypedDisk, TypedRest
<1>15. /\ y \in CallRecords /\ Turned(s, y)
       /\ y.todo = Tail(x.todo) /\ y.target = x.target /\ y.plan = x.plan /\ y.cur = x.cur
       /\ n = "sync" => y.reg = u /\ y.seen = x.seen
       /\ n = "syncSeen" => y.seen = u /\ y.reg = x.reg
  BY <1>1, <1>3, <1>4, <1>5, <1>8, <1>13, <1>14, Copies
<1>16. /\ n = First(x.todo) /\ Steps(x.todo) = {n} \cup Steps(y.todo)
       /\ First(y.todo) \in Anyhow(n) /\ (First(y.todo) # "end" => First(y.todo) \in Steps(y.todo))
  BY <1>1, <1>5, <1>15, <1>10 DEF Onward, Fits
<1>17. \A p \in Plans : Unborn(p) => Unaware(y, p)
  <2> SUFFICES ASSUME NEW p \in Plans, Unborn(p) PROVE Unaware(y, p)
    OBVIOUS
  <2>1. Unaware(x, p) /\ u[p] = "absent"
    BY <1>3, <1>4, <1>13 DEF Born
  <2>2. p # None
    BY PlansAssumption DEF None
  <2>3. y.reg[p] \in {x.reg[p], "absent"} /\ y.seen[p] \in {x.seen[p], "absent"}
    BY <1>1, <1>5, <1>15, <2>1
  <2> QED BY <1>1, <1>5, <1>15, <1>16, <2>1, <2>2, <2>3, UnawareNext
<1>18. CASE r # registry
  <2>1. Data'
    BY <1>7, <1>18 DEF Data
  <2>2. Typed' /\ Ordered'
    BY <1>14, <1>15 DEF Typed, Turned
  <2>3. \A p \in Plans : files'[p] = "future" =>
          files[p] = "future" /\ registry'[p] = "absent" /\ active' # p /\ Unaware(y, p)
    BY <1>2, <1>3, <1>13, <1>17 DEF Born, Unborn
  <2>4. Born'
    BY <1>3, <1>15, <2>3, BornKept
  <2> QED BY <2>1, <2>2, <2>4 DEF Inv
<1>19. CASE r = registry
  <2>5. registry' = Synced(registry)
    BY <1>7, <1>19
  <2>6. overwritten => overwritten'
    BY <1>7
  <2>7. files' = files /\ active' = active /\ registryLock' = registryLock
    BY <1>2 DEF locks
  <2>8. Syncs
    BY <2>5, <2>7 DEF Syncs
  <2>1. Syncs /\ (overwritten => overwritten') /\ registryLock' = registryLock
    BY <2>6, <2>7, <2>8
  <2>2. Owing(x) => Owing(y)
    BY <1>1, <1>5, <1>16, OwingDone
  <2>3. Leaving(x) => Leaving(y)
    BY <1>1, <1>5, <1>16 DEF Leaving, Anyhow
  <2>4. ASSUME Sound PROVE Knows(y, registry', Written', active')
    <3>1. Knows(x, registry, Written, active)
      BY <1>4, <2>4 DEF Sound
    <3>2. Knows(x, registry', Written', active')
      BY <1>3, <2>1, <3>1, KnowsSynced
    <3>3. Written' = Written /\ active' = active
      BY <1>2 DEF Written, There
    <3>4. Knows(x, u, Written, active)
      BY <1>13, <3>2, <3>3
    <3>5. "replace" \notin Steps(y.todo) /\ First(y.todo) # "replace"
      BY <1>16, <3>4 DEF Knows
    <3>6. CASE n = "sync"
      <4>1. y.reg = u /\ First(y.todo) \notin Inner \cup {"succeed"} /\ ~Leaving(y)
        BY <1>15, <1>16, <3>5, <3>6 DEF Anyhow, Inner, Reads, Leaving
      <4>2. First(y.todo) \notin {"look", "repair", "mark"}
        BY <4>1 DEF Inner, Reads
      <4>3. Knows(y, u, Written, active)
        BY <1>13, <3>5, <4>1, <4>2 DEF Knows
      <4> QED BY <1>13, <3>3, <4>3
    <3>7. CASE n = "syncSeen"
      <4>1. First(y.todo) = "look"
        BY <1>16, <3>7 DEF Anyhow
      <4>2. "mark" \in Steps(y.todo) => Keeps(x.reg, u) /\ x.reg[x.target] \notin Settled
        BY <1>16, <3>4, <3>7 DEF Knows, Inner, Reads
      <4>3. Leaving(y) /\ y.plan \in Written => u[y.plan] = "archived"
        BY <1>15, <1>16, <3>4, <3>7 DEF Knows, Leaving
      <4>4. Knows(y, u, Written, active)
        BY <1>13, <1>15, <3>5, <3>7, <4>1, <4>2, <4>3 DEF Knows, Keeps
      <4> QED BY <1>13, <3>3, <4>4
    <3> QED BY <1>1, <1>5, <3>6, <3>7
  <2> QED BY <1>1, <1>4, <1>5, <1>14, <1>15, <1>17, <2>1, <2>2, <2>3, <2>4, Quiet
<1> QED BY <1>18, <1>19

(* A set of natural numbers that is not empty has a least element, and a   *)
(* greatest one if it is finite.                                           *)
LEMMA Least ==
  ASSUME NEW T \in SUBSET Nat, T # {}
  PROVE  \E n \in T : \A m \in T : n <= m
<1> DEFINE R == {w \in Nat \X Nat : w[1] < w[2]}
<1>1. IsWellFoundedOn(R, Nat)
  BY NatLessThanWellFounded DEF OpToRel
<1>2. PICK n \in T : \A m \in T : <<m, n>> \notin R
  <2> HIDE DEF R
  <2> QED BY <1>1, WFMin
<1>3. \A m \in T : <<m, n>> \notin R => n <= m
  OBVIOUS
<1> QED BY <1>2, <1>3

(* A finite set of numbers has a greatest one.                             *)
LEMMA Greatest ==
  ASSUME NEW S \in SUBSET Nat, IsFiniteSet(S), S # {}
  PROVE  \E p \in S : \A q \in S : q <= p
<1> DEFINE Above(q) == {r \in S : r > q}
           T == {Cardinality(Above(q)) : q \in S}
<1>1. \A q \in S : IsFiniteSet(Above(q)) /\ Cardinality(Above(q)) \in Nat
  BY FS_Subset, FS_CardinalityType
<1>2. PICK n \in T : \A m \in T : n <= m
  <2>1. T \in SUBSET Nat /\ T # {}
    BY <1>1
  <2> HIDE DEF T
  <2> QED BY <2>1, Least
<1>3. PICK p \in S : n = Cardinality(Above(p))
  OBVIOUS
<1>4. ASSUME NEW q \in S, ~(q <= p) PROVE FALSE
  <2>6. q \in Nat /\ p \in Nat /\ q > p
    BY <1>4
  <2>7. \A r \in S : r > q => r > p /\ r # q
    BY <2>6
  <2>1. q \in Above(p) /\ Above(q) \subseteq Above(p) \ {q}
    BY <2>6, <2>7
  <2>2. Cardinality(Above(p) \ {q}) = Cardinality(Above(p)) - 1 /\ IsFiniteSet(Above(p) \ {q})
    BY <1>1, <2>1, FS_RemoveElement
  <2>3. Cardinality(Above(q)) <= Cardinality(Above(p) \ {q})
    <3> HIDE DEF Above
    <3> QED BY <2>1, <2>2, FS_Subset
  <2>4. n <= Cardinality(Above(q))
    BY <1>2
  <2> HIDE DEF Above, T
  <2>5. Cardinality(Above(q)) \in Nat /\ n \in Nat
    BY <1>1, <1>3
  <2> QED BY <1>3, <2>2, <2>3, <2>4, <2>5
<1> QED BY <1>4

(* The newest of some plans is one of them.                                *)
LEMMA NewestIn ==
  ASSUME NEW S \in SUBSET Plans, S # {}
  PROVE  Newest(S) \in S
<1>1. IsFiniteSet(S) /\ S \in SUBSET Nat
  BY PlansAssumption, FS_Subset
<1>2. \E p \in S : \A q \in S : q <= p
  BY <1>1, Greatest
<1> QED BY <1>2 DEF Newest

(* A call goes on with other steps before the rest of it.                  *)
LEMMA RestPart ==
  ASSUME NEW k, NEW q, Shape(k, q), q # <<>>
  PROVE  Part(k, q, First(q), Steps(q), "end", {})
BY DEF Shape, Part

(* A part in front of the rest of a call makes a rest of a call.           *)
LEMMA MorePart ==
  ASSUME NEW k, NEW p, NEW q, NEW a, NEW S, Shape(k, q), q # <<>>, Part(k, p, a, S, First(q), Steps(q))
  PROVE  /\ Shape(k, p \o q) /\ p \o q # <<>> /\ p \o q \in Seq(StepNames)
         /\ First(p \o q) = a
         /\ \A x : x \in Steps(p \o q) <=> x \in S \/ x \in Steps(q)
<1>1. Part(k, q, First(q), Steps(q), "end", {})
  BY RestPart
<1>2. Steps(q) \cup {} = Steps(q)
  OBVIOUS
<1>3. Part(k, p, a, S, First(q), Steps(q) \cup {})
  BY <1>2
<1>4. Part(k, p \o q, a, S \cup Steps(q), "end", {})
  BY <1>1, <1>3, Join
<1> QED BY <1>4 DEF Part, Shape, Run

(* Whoever finds out which plan is active has both locks.                  *)
LEMMA BothHeld ==
  ASSUME Typed, Ordered, NEW s \in Sessions, Now(s) \in Inner \cup {"succeed", "replace"}
  PROVE  lifecycleLock = s /\ registryLock = s /\ "enter" \notin Left(s)
<1>1. act[s].todo # <<>>
  BY DEF Now, First, Inner, Reads
<1>2. PICK q : q = Tail(act[s].todo)
  OBVIOUS
<1>3. PICK k : k = Kind(act[s].op)
  OBVIOUS
<1>4. PICK n : n = Now(s)
  OBVIOUS
<1>5. /\ Left(s) = {n} \cup Steps(q) /\ Fits(k, n, First(q), Steps(q))
      /\ HoldsAt(s, k, n, Left(s), lifecycleLock, registryLock)
  BY <1>1, <1>2, <1>3, <1>4, Going DEF Holds, Now, Left
<1>6. n \notin {"enter", "load", "sync", "lockRegistry"} \cup Outside
  BY <1>4 DEF Inner, Reads, Outside
<1>7. "enter" \notin Left(s)
  BY <1>4, <1>5, <1>6 DEF Fits, Early
<1>8. k \in {"whole", "save"}
  <2>1. k # "list"
    BY <1>5, <1>6 DEF Fits
  <2> QED BY <1>3, <2>1 DEF Kind
<1>9. lifecycleLock = s /\ registryLock = s
  BY <1>5, <1>6, <1>7, <1>8 DEF HoldsAt, Outside
<1> QED BY <1>7, <1>9

(* A call with both locks takes some more steps.                           *)
LEMMA Detour ==
  ASSUME Typed, Ordered, NEW s \in Sessions, Now(s) \in Inner \cup {"succeed", "replace"},
         Tail(act[s].todo) # <<>>,
         NEW y \in CallRecords, GoOn(s, y), y.op = act[s].op, y.plan = act[s].plan, y.life = act[s].life,
         NEW p, NEW a, NEW S, y.todo = p \o Tail(act[s].todo),
         Part(Kind(act[s].op), p, a, S, First(Tail(act[s].todo)), Steps(Tail(act[s].todo))),
         S \cap (Naming \cup {"enter"}) = {},
         (y.target = act[s].target /\ S \cap Targeting = {}) \/ y.target \in Plans,
         UNCHANGED <<lifecycleLock, registryLock>>
  PROVE  /\ Turned(s, y) /\ First(y.todo) = a
         /\ \A e : e \in Steps(y.todo) <=> e \in S \/ e \in Steps(Tail(act[s].todo))
<1>1. act[s].todo # <<>>
  BY DEF Now, First, Inner, Reads
<1>2. PICK q : q = Tail(act[s].todo)
  OBVIOUS
<1>3. PICK k : k = Kind(act[s].op)
  OBVIOUS
<1>4. PICK n : n = Now(s)
  OBVIOUS
<1>5. /\ Left(s) = {n} \cup Steps(q) /\ Shape(k, q) /\ act[s].op \in OpNames /\ Belongs(act[s], Left(s))
  BY <1>1, <1>2, <1>3, <1>4, Going
<1>6. lifecycleLock = s /\ registryLock = s /\ "enter" \notin Left(s)
  BY BothHeld
<1>7. Part(k, p, a, S, First(q), Steps(q)) /\ q # <<>> /\ y.todo = p \o q
  BY <1>2, <1>3
<1>8. /\ Shape(k, p \o q) /\ First(p \o q) = a
      /\ \A e : e \in Steps(p \o q) <=> e \in S \/ e \in Steps(q)
  BY <1>5, <1>7, MorePart
<1>9. Shape(k, y.todo) /\ First(y.todo) = a /\ \A e : e \in Steps(y.todo) <=> e \in S \/ e \in Steps(q)
  BY <1>7, <1>8
<1>10. Belongs(y, Steps(y.todo))
  <2>1. Belongs(act[s], {n} \cup Steps(q)) /\ "enter" \notin Steps(q)
    BY <1>5, <1>6
  <2>2. "enter" \notin Steps(y.todo)
    BY <1>9, <2>1
  <2> QED BY <1>9, <2>1, <2>2 DEF Belongs, Naming
<1>11. Holds(s, y, lifecycleLock', registryLock')
  BY <1>6 DEF Holds, HoldsAt
<1>12. Untaken(s)
  BY DEF Untaken
<1>13. Kind(y.op) = k
  BY <1>3
<1>14. Turned(s, y)
  BY <1>5, <1>9, <1>10, <1>11, <1>12, <1>13, Turns
<1> QED BY <1>2, <1>9, <1>14

(* The archived plan is not found active any more: in a sound registry no  *)
(* successor is needed.                                                    *)
LEMMA SucceedKeeps ==
  ASSUME Inv, NEW s \in Sessions, Succeed(s)
  PROVE  Inv'
<1>1. Now(s) = "succeed" /\ act[s].todo # <<>>
  BY AtNow DEF Succeed
<1>2. UNCHANGED <<disk, locks, overwritten, bounds>>
  BY DEF Succeed
<1>3. Typed /\ Ordered /\ Born
  BY DEF Inv
<1>4. CASE act[s].cur # act[s].plan
  <2>1. GoOn(s, Done(s))
    BY <1>4 DEF Succeed, My
  <2> QED BY <1>1, <1>2, <2>1, StillThere, Moved DEF Simple
<1>5. CASE act[s].cur = act[s].plan
  <2>1. PICK x : x = act[s]
    OBVIOUS
  <2>2. PICK q : q = Tail(x.todo)
    OBVIOUS
  <2>3. PICK k : k = Kind(x.op)
    OBVIOUS
  <2>4. /\ x \in CallRecords /\ q \in Seq(StepNames) /\ Steps(x.todo) = {"succeed"} \cup Steps(q)
        /\ Fits(k, "succeed", First(q), Steps(q)) /\ Shape(k, q)
    BY <1>1, <1>3, <2>1, <2>2, <2>3, Going DEF Left
  <2>5. k = "whole"
    <3>1. k \in {"whole", "list", "save"}
      BY <2>3 DEF Kind
    <3> QED BY <2>4, <3>1 DEF Fits
  <2>6. /\ First(q) = "conclude" /\ First(q) \in Steps(q)
        /\ {"lockLifecycle", "lockRegistry", "enter", "succeed", "again"} \cap Steps(q) = {} /\ Early \cap Steps(q) = {}
    BY <2>4, <2>5 DEF Fits, Anyhow, Changing, Early
  <2>7. q # <<>>
    BY <2>6 DEF First
  <2>8. PICK p : p = Sync \o <<"replace">>
    OBVIOUS
  <2>9. PICK S : S = SyncSteps \cup {"replace"}
    OBVIOUS
  <2>10. Part("whole", p, "load", S, First(q), Steps(q))
    <3>1. Fits("whole", "replace", "conclude", Steps(q))
      BY <2>6 DEF Fits, Anyhow, Changing, Early, Inner, Reads
    <3>2. "replace" \in StepNames
      BY DEF StepNames
    <3>3. Part("whole", <<"replace">>, "replace", {"replace"}, First(q), Steps(q))
      BY <2>6, <3>1, <3>2, RunOne
    <3>4. PICK R : R = {"replace"} \cup Steps(q)
      OBVIOUS
    <3>5. /\ "replace" \in R /\ {"lockLifecycle", "lockRegistry", "enter"} \cap R = {} /\ R # {}
          /\ "replace" \in Anyhow("sync") /\ "replace" # "end"
      BY <2>6, <3>4 DEF Anyhow
    <3>6. Part("whole", Sync, "load", SyncSteps, "replace", R)
      BY <3>5, RunSync
    <3> QED BY <2>8, <2>9, <3>3, <3>4, <3>6, Join
  <2>11. p \o q \in Seq(StepNames)
    BY <2>4, <2>5, <2>7, <2>10, MorePart
  <2>12. PICK y : y = [x EXCEPT !.todo = p \o q]
    OBVIOUS
  <2>13. /\ y \in CallRecords /\ y.todo = p \o q /\ y.op = x.op /\ y.plan = x.plan /\ y.life = x.life
         /\ y.reg = x.reg /\ y.seen = x.seen /\ y.cur = x.cur /\ y.target = x.target
    BY <2>4, <2>11, <2>12 DEF CallRecords
  <2>14. GoOn(s, y)
    BY <1>5, <2>1, <2>2, <2>8, <2>12 DEF Succeed, My
  <2>15. UNCHANGED <<lifecycleLock, registryLock>>
    BY <1>2 DEF locks
  <2>16. S \cap {"promote", "unarchive", "archive", "succeed", "enter", "mark"} = {}
    BY <2>9 DEF SyncSteps
  <2>17. Turned(s, y) /\ First(y.todo) = "load" /\ \A e : e \in Steps(y.todo) <=> e \in S \/ e \in Steps(q)
    <3>1. Part(Kind(act[s].op), p, "load", S, First(Tail(act[s].todo)), Steps(Tail(act[s].todo)))
      BY <2>1, <2>2, <2>3, <2>5, <2>10
    <3>2. Tail(act[s].todo) # <<>> /\ y.todo = p \o Tail(act[s].todo)
      BY <2>1, <2>2, <2>7, <2>13
    <3>3. y.op = act[s].op /\ y.plan = act[s].plan /\ y.life = act[s].life
      BY <2>1, <2>13
    <3>4. Now(s) \in Inner \cup {"succeed", "replace"}
      BY <1>1
    <3>5. S \cap (Naming \cup {"enter"}) = {} /\ y.target = act[s].target /\ S \cap Targeting = {}
      BY <2>1, <2>9, <2>13 DEF Naming, Targeting, SyncSteps
    <3>6. y \in CallRecords
      BY <2>13
    <3>7. /\ Turned(s, y) /\ First(y.todo) = "load"
          /\ \A e : e \in Steps(y.todo) <=> e \in S \/ e \in Steps(Tail(act[s].todo))
      BY ONLY <1>3, <2>14, <2>15, <3>1, <3>2, <3>3, <3>4, <3>5, <3>6, s \in Sessions, Detour
    <3> QED BY <2>1, <2>2, <3>7
  <2>18. ASSUME NEW r \in Plans, Unborn(r) PROVE Unaware(y, r)
    <3>1. Unaware(x, r)
      BY <1>3, <2>1, <2>18 DEF Born
    <3>2. /\ "enter" \notin Steps(y.todo) /\ "succeed" \notin Steps(y.todo)
          /\ "mark" \in Steps(y.todo) => "mark" \in Steps(x.todo)
          /\ "content" \in Steps(x.todo) => "content" \in Steps(y.todo)
      BY <2>4, <2>6, <2>16, <2>17
    <3> QED BY <2>13, <3>1, <3>2 DEF Unaware
  <2>19. ~Owing(act[s])
    BY <1>1, <1>3, OwesNothing DEF Changing
  <2>20. ~Leaving(act[s])
    BY <1>1 DEF Leaving, Now
  <2>21. ~Sound
    BY <1>1, <1>5, <2>1, <2>4 DEF Sound, Knows, Now
  <2> QED BY <1>1, <1>2, <2>13, <2>17, <2>18, <2>19, <2>20, <2>21, StillThere, Quiet
<1> QED BY <1>4, <1>5

(* A successor is set active, or none is active any more.                  *)
LEMMA ReplaceKeeps ==
  ASSUME Inv, NEW s \in Sessions, Replace(s)
  PROVE  Inv'
<1>1. Now(s) = "replace" /\ act[s].todo # <<>>
  BY AtNow DEF Replace
<1>2. UNCHANGED <<files, registry, confirmed, locks, overwritten, bounds>>
  BY DEF Replace
<1>3. Typed /\ Ordered /\ Born
  BY DEF Inv
<1>4. PICK x : x = act[s]
  OBVIOUS
<1>5. PICK z : z = Done(s)
  OBVIOUS
<1>6. PICK k : k = Kind(x.op)
  OBVIOUS
<1>7. Onward(s, x, z, "replace", k)
  BY <1>1, <1>3, <1>4, <1>5, <1>6, DoneOnward
<1>8. PICK q : q = Tail(x.todo)
  OBVIOUS
<1>9. /\ x \in CallRecords /\ q \in Seq(StepNames) /\ Steps(x.todo) = {"replace"} \cup Steps(q)
      /\ Fits(k, "replace", First(q), Steps(q)) /\ Shape(k, q)
  BY <1>1, <1>3, <1>4, <1>6, <1>8, Going DEF Left
<1>10. k = "whole"
  BY <1>7, <1>9 DEF Fits, Onward
<1>11. /\ First(q) = "conclude" /\ First(q) \in Steps(q)
       /\ {"lockLifecycle", "lockRegistry", "enter", "succeed", "again"} \cap Steps(q) = {} /\ Early \cap Steps(q) = {}
  BY <1>9, <1>10 DEF Fits, Anyhow, Changing, Early
<1>12. q # <<>>
  BY <1>11 DEF First
<1>13. PICK next : next = Candidates(x.reg, x.plan)
  OBVIOUS
<1>14. UNCHANGED <<lifecycleLock, registryLock>> /\ LocksMove(s)
  BY <1>1, <1>2 DEF locks, LocksMove
<1>15. \E y \in CallRecords :
         /\ Turned(s, y) /\ \A p \in Plans : Unborn(p) => Unaware(y, p)
         /\ active' = active \/ active' = None
  <2>1. CASE next = {}
    <3>1. GoOn(s, z) /\ active' = None
      BY <1>4, <1>5, <1>13, <2>1 DEF Replace, My
    <3>2. z \in CallRecords /\ Turned(s, z)
      BY <1>1, <1>3, <1>4, <1>7, <1>14, <3>1, Dones DEF Onward
    <3>3. ASSUME NEW p \in Plans, Unborn(p) PROVE Unaware(z, p)
      <4>1. Unaware(x, p)
        BY <1>3, <1>4, <3>3 DEF Born
      <4>2. p # None
        BY PlansAssumption DEF None
      <4> QED BY <1>7, <4>1, <4>2, UnawareNext DEF Onward
    <3> QED BY <3>1, <3>2, <3>3
  <2>2. CASE next # {}
    <3>1. next \in SUBSET Plans
      BY <1>13 DEF Candidates
    <3>2. PICK t : t = Newest(next)
      OBVIOUS
    <3>3. t \in Plans
      BY <2>2, <3>1, <3>2, NewestIn
    <3>4. PICK p : p = SetActive
      OBVIOUS
    <3>5. Part("whole", p, "content", SetSteps, First(q), Steps(q))
      BY <1>11, <3>4, RunSet
    <3>6. p \o q \in Seq(StepNames)
      BY <1>9, <1>10, <1>12, <3>5, MorePart
    <3>7. PICK y : y = [x EXCEPT !.target = t, !.todo = p \o q]
      OBVIOUS
    <3>8. /\ y \in CallRecords /\ y.todo = p \o q /\ y.op = x.op /\ y.plan = x.plan /\ y.life = x.life
          /\ y.reg = x.reg /\ y.seen = x.seen /\ y.cur = x.cur /\ y.target = t
      BY <1>9, <3>3, <3>6, <3>7 DEF CallRecords
    <3>9. GoOn(s, y) /\ active' = active
      BY <1>4, <1>8, <1>13, <2>2, <3>2, <3>4, <3>7 DEF Replace, My
    <3>10. SetSteps \cap {"promote", "unarchive", "archive", "succeed", "enter"} = {} /\ "content" \in SetSteps
      BY DEF SetSteps
    <3>11. Turned(s, y) /\ \A e : e \in Steps(y.todo) <=> e \in SetSteps \/ e \in Steps(q)
      <4>1. Part(Kind(act[s].op), p, "content", SetSteps, First(Tail(act[s].todo)), Steps(Tail(act[s].todo)))
        BY <1>4, <1>6, <1>8, <1>10, <3>5
      <4>2. Tail(act[s].todo) # <<>> /\ y.todo = p \o Tail(act[s].todo)
        BY <1>4, <1>8, <1>12, <3>8
      <4>3. y.op = act[s].op /\ y.plan = act[s].plan /\ y.life = act[s].life
        BY <1>4, <3>8
      <4>4. Now(s) \in Inner \cup {"succeed", "replace"}
        BY <1>1
      <4>5. SetSteps \cap (Naming \cup {"enter"}) = {} /\ y.target \in Plans
        BY <3>3, <3>8 DEF SetSteps, Naming
      <4>6. y \in CallRecords /\ GoOn(s, y) /\ UNCHANGED <<lifecycleLock, registryLock>>
        BY <1>14, <3>8, <3>9
      <4>7. /\ Turned(s, y)
            /\ \A e : e \in Steps(y.todo) <=> e \in SetSteps \/ e \in Steps(Tail(act[s].todo))
        BY ONLY <1>3, <4>1, <4>2, <4>3, <4>4, <4>5, <4>6, s \in Sessions, Detour
      <4> QED BY <1>4, <1>8, <4>7
    <3>12. ASSUME NEW r \in Plans, Unborn(r) PROVE Unaware(y, r)
      <4>1. Unaware(x, r)
        BY <1>3, <1>4, <3>12 DEF Born
      <4>2. "enter" \notin Steps(y.todo) /\ "succeed" \notin Steps(y.todo) /\ "content" \in Steps(y.todo)
        BY <1>11, <3>10, <3>11
      <4> QED BY <3>8, <4>1, <4>2 DEF Unaware
    <3> QED BY <3>8, <3>9, <3>11, <3>12
  <2> QED BY <2>1, <2>2
<1>16. PICK y \in CallRecords : /\ Turned(s, y) /\ \A p \in Plans : Unborn(p) => Unaware(y, p)
                                /\ active' = active \/ active' = None
  BY <1>15
<1>17. Typed' /\ Ordered'
  BY <1>2, <1>3, <1>16 DEF Typed, TypedDisk, TypedRest, Turned, locks, bounds
<1>18. Born'
  <2>1. \A p \in Plans : p # None
    BY PlansAssumption DEF None
  <2>2. \A p \in Plans : files'[p] = "future" =>
          files[p] = "future" /\ registry'[p] = "absent" /\ active' # p /\ Unaware(y, p)
    BY <1>2, <1>3, <1>16, <2>1 DEF Born, Unborn
  <2> QED BY <1>3, <1>16, <2>2, BornKept
<1>19. Data'
  <2>1. ~Sound
    BY <1>4, <1>9 DEF Sound, Knows
  <2> QED BY <1>2, <2>1 DEF Inv, Data, locks
<1> QED BY <1>17, <1>18, <1>19 DEF Inv

(* A step that writes over something newer, or is the last of a session.   *)
LEMMA Broken ==
  ASSUME Inv, NEW s \in Sessions, NEW y \in CallRecords, Turned(s, y), TypedDisk', TypedRest',
         overwritten' \/ registryLock' = "left",
         \A p \in Plans : files'[p] = "future" =>
           files[p] = "future" /\ registry'[p] = "absent" /\ active' # p /\ Unaware(y, p)
  PROVE  Inv'
<1>1. Typed' /\ Ordered'
  BY DEF Typed, Turned
<1>2. Born'
  BY BornKept DEF Inv
<1>3. Data'
  BY DEF Data
<1> QED BY <1>1, <1>2, <1>3 DEF Inv

(* A save that has updated a plan enters the active one in the registry.   *)
LEMMA AgainKeeps ==
  ASSUME Inv, NEW s \in Sessions, Again(s)
  PROVE  Inv'
<1>1. Now(s) = "again" /\ act[s].todo # <<>>
  BY AtNow DEF Again
<1>2. UNCHANGED <<disk, locks, overwritten, bounds>>
  BY DEF Again
<1>3. Typed /\ Ordered /\ Born
  BY DEF Inv
<1>4. ~Owing(act[s]) /\ ~Leaving(act[s])
  BY <1>1, <1>3, OwesNothing DEF Leaving, Now
<1>5. CASE act[s].cur = None
  <2>1. GoOn(s, Done(s))
    BY <1>5 DEF Again, My
  <2> QED BY <1>1, <1>2, <1>4, <2>1, StillThere, Moved DEF Simple
<1>6. CASE act[s].cur # None
  <2>1. PICK x : x = act[s]
    OBVIOUS
  <2>2. PICK k : k = Kind(x.op)
    OBVIOUS
  <2>3. /\ x \in CallRecords /\ x.op \in OpNames /\ Fits(k, "again", First(Tail(x.todo)), Steps(Tail(x.todo)))
        /\ Left(s) = {"again"} \cup Steps(Tail(x.todo))
    BY <1>1, <1>3, <2>1, <2>2, Going
  <2>4. k = "save"
    <3>1. k \in {"whole", "list", "save"}
      BY <2>2 DEF Kind
    <3> QED BY <2>3, <3>1 DEF Fits, Anyhow
  <2>5. PICK q : q = Upsert
    OBVIOUS
  <2>6. Part("save", q, "lockRegistry", UpsertSteps, "end", {})
    <3>1. Fits("save", "unlock", "end", {})
      BY DEF Fits, Anyhow, Early, Changing, Inner, Reads
    <3> QED BY <2>5, <3>1, RunUpsert
  <2>7. Shape("save", q) /\ First(q) = "lockRegistry" /\ Steps(q) = UpsertSteps /\ q \in Seq(StepNames)
    BY <2>6 DEF Part, Shape, Run
  <2>8. x.cur \in Plans
    BY <1>6, <2>1, <2>3 DEF CallRecords
  <2>9. PICK y : y = [x EXCEPT !.target = x.cur, !.life = "active", !.todo = q]
    OBVIOUS
  <2>10. /\ y \in CallRecords /\ y.todo = q /\ y.op = x.op /\ y.plan = x.plan /\ y.life = "active" /\ y.target = x.cur
         /\ y.reg = x.reg /\ y.seen = x.seen /\ y.cur = x.cur
    BY <2>3, <2>7, <2>8, <2>9 DEF CallRecords, Lifecycle
  <2>11. GoOn(s, y)
    BY <1>6, <2>1, <2>5, <2>9 DEF Again, My
  <2>12. Belongs(y, Steps(y.todo))
    <3>1. UpsertSteps \cap Naming = {}
      BY DEF UpsertSteps, Naming
    <3>2. UpsertSteps \cap {"promote", "unarchive"} = {}
      BY DEF UpsertSteps
    <3> QED BY <2>7, <2>8, <2>10, <3>1, <3>2 DEF Belongs
  <2>13. Holds(s, y, lifecycleLock', registryLock')
    <3>1. "enter" \in UpsertSteps /\ "remember" \notin UpsertSteps
      BY DEF UpsertSteps
    <3> QED BY <2>2, <2>4, <2>7, <2>10, <3>1 DEF Holds, HoldsAt
  <2>14. Untaken(s)
    BY <1>2 DEF Untaken, locks
  <2>15. Turned(s, y)
    BY <1>3, <2>2, <2>3, <2>4, <2>7, <2>10, <2>11, <2>12, <2>13, <2>14, Turns
  <2>16. ASSUME NEW p \in Plans, Unborn(p) PROVE Unaware(y, p)
    <3>1. Unaware(x, p)
      BY <1>3, <2>1, <2>16 DEF Born
    <3>2. "mark" \notin Steps(y.todo) /\ "succeed" \notin Steps(y.todo)
      BY <2>7, <2>10 DEF UpsertSteps
    <3> QED BY <2>10, <3>1, <3>2 DEF Unaware
  <2>17. Knows(y, registry', Written', active')
    <3>1. First(y.todo) \notin Holding /\ "replace" \notin Steps(y.todo)
      BY <2>7, <2>10 DEF UpsertSteps, Holding, Inner, Reads
    <3> QED BY <3>1, KnowsNothing
  <2> QED BY <1>1, <1>2, <1>4, <2>10, <2>15, <2>16, <2>17, StillThere, Quiet
<1> QED BY <1>5, <1>6

(* The active plan is written back with its new session list.              *)
LEMMA RememberKeeps ==
  ASSUME Inv, NEW s \in Sessions, Remember(s)
  PROVE  Inv'
<1>1. Now(s) = "remember" /\ act[s].todo # <<>>
  BY AtNow DEF Remember
<1>2. /\ UNCHANGED <<files, registry, confirmed, locks, bounds>> /\ active' = act[s].cur
      /\ overwritten' = (overwritten \/ active # act[s].cur) /\ GoOn(s, Done(s))
  BY DEF Remember, My
<1>3. Typed /\ Ordered /\ Born
  BY DEF Inv
<1>4. PICK x : x = act[s]
  OBVIOUS
<1>5. PICK z : z = Done(s)
  OBVIOUS
<1>6. PICK k : k = Kind(x.op)
  OBVIOUS
<1>7. Onward(s, x, z, "remember", k)
  BY <1>1, <1>3, <1>4, <1>5, <1>6, DoneOnward
<1>8. LocksMove(s) /\ registryLock' = registryLock
  BY <1>1, <1>2 DEF LocksMove, locks
<1>9. z \in CallRecords /\ Turned(s, z)
  BY <1>1, <1>2, <1>3, <1>4, <1>5, <1>7, <1>8, Dones DEF Onward
<1>10. TypedDisk' /\ TypedRest'
  <2>1. active' \in Plans \cup {None}
    BY <1>2, <1>4, <1>7 DEF Onward, CallRecords
  <2> QED BY <1>2, <1>3, <2>1 DEF Typed, TypedDisk, TypedRest, locks, bounds
<1>11. \A p \in Plans : Unborn(p) => Unaware(x, p) /\ Unaware(z, p)
  <2> SUFFICES ASSUME NEW p \in Plans, Unborn(p) PROVE Unaware(x, p) /\ Unaware(z, p)
    OBVIOUS
  <2>1. Unaware(x, p)
    BY <1>3, <1>4 DEF Born
  <2>2. p # None
    BY PlansAssumption DEF None
  <2> QED BY <1>7, <2>1, <2>2, UnawareNext DEF Onward
<1>12. CASE active # x.cur
  <2>1. overwritten'
    BY <1>2, <1>4, <1>12
  <2>2. \A p \in Plans : files'[p] = "future" =>
          files[p] = "future" /\ registry'[p] = "absent" /\ active' # p /\ Unaware(z, p)
    BY <1>2, <1>3, <1>4, <1>11 DEF Born, Unborn, Unaware
  <2> QED BY <1>9, <1>10, <2>1, <2>2, Broken
<1>13. CASE active = x.cur
  <2>1. Syncs
    BY <1>2, <1>4, <1>13 DEF Syncs
  <2>2. overwritten => overwritten'
    BY <1>2
  <2>4. Owing(x) => Owing(z)
    BY <1>7, OwingDone DEF Onward
  <2>5. ~Leaving(x)
    BY <1>7 DEF Leaving, Onward
  <2>6. Sound => Knows(z, registry', Written', active')
    <3> SUFFICES ASSUME Sound PROVE Knows(z, registry', Written', active')
      OBVIOUS
    <3>1. "replace" \notin Steps(z.todo)
      BY <1>4, <1>7 DEF Sound, Knows, Onward
    <3>2. First(z.todo) \notin Holding
      BY <1>7 DEF Onward, Fits, Anyhow, Holding, Inner, Reads
    <3> QED BY <3>1, <3>2, KnowsNothing
  <2> QED BY <1>1, <1>4, <1>8, <1>9, <1>10, <1>11, <2>1, <2>2, <2>4, <2>5, <2>6, Quiet
<1> QED BY <1>12, <1>13

(* A call ends at once.                                                    *)
LEMMA EndTurns ==
  ASSUME Typed, Ordered, Born, NEW s \in Sessions, act[s].todo # <<>>, NEW y, y = [act[s] EXCEPT !.todo = <<>>],
         GoOn(s, y), Untaken(s)
  PROVE  /\ y \in CallRecords /\ Turned(s, y) /\ First(y.todo) = "end" /\ Steps(y.todo) = {}
         /\ \A p \in Plans : Unborn(p) => Unaware(y, p)
<1>1. PICK x : x = act[s]
  OBVIOUS
<1>2. x \in CallRecords /\ x.op \in OpNames /\ Belongs(x, Steps(x.todo))
  BY <1>1, Going DEF Left
<1>3. PICK q : q = <<>>
  OBVIOUS
<1>4. q \in Seq(StepNames) /\ First(q) = "end" /\ Steps(q) = {} /\ \A k : Shape(k, q)
  <2>1. \A k : Shape(k, q)
    BY <1>3 DEF Shape, Run
  <2> QED BY <1>3, <2>1, Ended
<1>5. y = [x EXCEPT !.todo = q]
  BY <1>1, <1>3
<1>6. /\ y \in CallRecords /\ y.todo = q /\ y.op = x.op /\ y.life = x.life
      /\ y.reg = x.reg /\ y.seen = x.seen /\ y.cur = x.cur
  BY <1>2, <1>4, <1>5 DEF CallRecords
<1>7. Belongs(y, Steps(y.todo)) /\ Holds(s, y, lifecycleLock', registryLock') /\ Shape(Kind(y.op), y.todo)
  <2>1. Belongs(y, Steps(y.todo))
    BY <1>2, <1>4, <1>6 DEF Belongs
  <2>2. Holds(s, y, lifecycleLock', registryLock')
    BY <1>4, <1>6 DEF Holds, HoldsAt, Outside
  <2> QED BY <1>4, <1>6, <2>1, <2>2
<1>8. Turned(s, y)
  BY <1>2, <1>6, <1>7, Turns
<1>9. ASSUME NEW p \in Plans, Unborn(p) PROVE Unaware(y, p)
  BY <1>1, <1>4, <1>6, <1>9 DEF Born, Unaware
<1> QED BY <1>4, <1>6, <1>8, <1>9

(* A save has chosen plan p.                                               *)
LEMMA SaveToKeeps ==
  ASSUME Inv, NEW s \in Sessions, Now(s) = "choose", act[s].todo # <<>>,
         UNCHANGED <<disk, locks, overwritten, bounds>>,
         NEW p \in Plans, NEW life \in {"inactive", "draft"}, NEW q, Ahead(q), act[s].op \in Saves,
         act[s].op = "saveActive" /\ "enter" \in Steps(q) => {"again", "look"} \subseteq Steps(q),
         SaveTo(s, p, life, q)
  PROVE  Inv'
<1>1. Typed /\ Ordered /\ Born
  BY DEF Inv
<1>2. PICK x : x = act[s]
  OBVIOUS
<1>3. x \in CallRecords /\ x.op \in OpNames
  BY <1>1, <1>2, Going
<1>4. q \in Seq(StepNames) /\ Shape("save", q)
  BY DEF Ahead, Shape, Run
<1>5. PICK y : y = [x EXCEPT !.plan = p, !.target = p, !.life = life, !.was = "no",
                             !.reg = Absent, !.seen = Absent, !.todo = q]
  OBVIOUS
<1>6. /\ y \in CallRecords /\ y.todo = q /\ y.op = x.op /\ y.plan = p /\ y.life = life /\ y.target = p
      /\ y.reg = Absent /\ y.seen = Absent /\ y.cur = x.cur
  <2>1. Absent \in [Plans -> Lifecycle] /\ life \in Lifecycle /\ "no" \in Confirmed
    BY DEF Absent, Lifecycle, Confirmed
  <2> QED BY <1>3, <1>4, <1>5, <2>1 DEF CallRecords
<1>7. GoOn(s, y)
  BY <1>2, <1>5 DEF SaveTo, My
<1>8. Kind(y.op) = "save"
  BY <1>2, <1>6 DEF Kind, Saves
<1>9. Belongs(y, Steps(q))
  BY <1>2, <1>6 DEF Belongs, Ahead
<1>10. Holds(s, y, lifecycleLock', registryLock')
  <2>1. First(y.todo) \in Outside
    BY <1>6 DEF Ahead, Outside
  <2> QED BY <1>8, <2>1 DEF Holds, HoldsAt
<1>11. Untaken(s)
  BY DEF Untaken, locks
<1>12. Turned(s, y)
  BY <1>1, <1>3, <1>4, <1>6, <1>7, <1>8, <1>9, <1>10, <1>11, Turns
<1>13. ASSUME NEW r \in Plans, Unborn(r) PROVE Unaware(y, r)
  <2>1. x.cur # r
    BY <1>1, <1>2, <1>13 DEF Born, Unaware
  <2> QED BY <1>6, <2>1 DEF Unaware, Absent, Ahead
<1>14. Knows(y, registry', Written', active')
  <2>1. First(y.todo) \notin Holding /\ "replace" \notin Steps(y.todo)
    BY <1>6 DEF Ahead, Holding, Inner, Reads
  <2> QED BY <2>1, KnowsNothing
<1>15. ~Owing(act[s]) /\ ~Leaving(act[s])
  BY <1>1, OwesNothing DEF Leaving, Now
<1> QED BY <1>6, <1>12, <1>13, <1>14, <1>15, StillThere, Quiet

(* A save chooses, or ends because the plan cannot be written.             *)
LEMMA ChooseKeeps ==
  ASSUME Inv, NEW s \in Sessions, Choose(s)
  PROVE  Inv'
<1>1. Now(s) = "choose" /\ act[s].todo # <<>>
  BY AtNow DEF Choose
<1>2. UNCHANGED <<disk, locks, overwritten, bounds>>
  BY DEF Choose
<1>3. Typed /\ Ordered /\ Born
  BY DEF Inv
<1>4. PICK x : x = act[s]
  OBVIOUS
<1>5. x \in CallRecords /\ x.op \in OpNames
  BY <1>1, <1>3, <1>4, Going
<1>6. CASE /\ x.op = "saveActive" /\ x.cur # None
           /\ \E first \in {<<>>, Locked(<<"remember">>)} :
                SaveTo(s, x.cur, "inactive", first \o <<"write">> \o Upsert \o Settle)
  <2>1. PICK first \in {<<>>, Locked(<<"remember">>)} :
          SaveTo(s, x.cur, "inactive", first \o <<"write">> \o Upsert \o Settle)
    BY <1>6
  <2>2. PICK q : q = first \o <<"write">> \o Upsert \o Settle
    OBVIOUS
  <2>3. Ahead(q) /\ {"again", "look"} \subseteq Steps(q)
    BY <2>2, UpdateAhead
  <2>4. x.cur \in Plans /\ x.op \in Saves
    BY <1>5, <1>6 DEF CallRecords, Saves
  <2>5. SaveTo(s, x.cur, "inactive", q)
    BY <2>1, <2>2
  <2> QED BY <1>1, <1>2, <1>4, <2>3, <2>4, <2>5, SaveToKeeps
<1>8. ASSUME NEW p \in Plans, NEW q \in {<<"write">> \o Upsert \o <<"conclude">> \o Settle, <<"write">> \o Upsert \o <<"conclude">>},
             x.op = "saveDraft", SaveTo(s, p, "draft", q)
      PROVE  Inv'
  <2>1. Ahead(q)
    BY DraftAhead
  <2> QED BY <1>1, <1>2, <1>4, <1>8, <2>1, SaveToKeeps DEF Saves
<1>9. ASSUME NEW p \in Plans, SaveTo(s, p, "inactive", <<"write">> \o Upsert), x.op = "saveNew"
      PROVE  Inv'
  <2>1. PICK q : q = <<"write">> \o Upsert
    OBVIOUS
  <2>2. Ahead(q) /\ SaveTo(s, p, "inactive", q)
    BY <1>9, <2>1, NewAhead
  <2> QED BY <1>1, <1>2, <1>4, <1>9, <2>2, SaveToKeeps DEF Saves
<1>10. ASSUME NEW p \in Plans, SaveTo(s, p, "inactive", <<"write">> \o Locked(SetActive)), x.op \in {"saveNew", "saveActive"}
       PROVE  Inv'
  <2>1. PICK q : q = <<"write">> \o Locked(SetActive)
    OBVIOUS
  <2>2. Ahead(q) /\ "enter" \notin Steps(q) /\ SaveTo(s, p, "inactive", q)
    BY <1>10, <2>1, NewAhead
  <2> QED BY <1>1, <1>2, <1>4, <1>10, <2>2, SaveToKeeps DEF Saves
<1>11. CASE GoOn(s, [x EXCEPT !.todo = <<>>])
  <2>1. PICK y : y = [x EXCEPT !.todo = <<>>]
    OBVIOUS
  <2>2. GoOn(s, y) /\ Untaken(s)
    BY <1>2, <1>11, <2>1 DEF Untaken, locks
  <2>3. /\ y \in CallRecords /\ Turned(s, y) /\ First(y.todo) = "end" /\ Steps(y.todo) = {}
        /\ \A p \in Plans : Unborn(p) => Unaware(y, p)
    BY <1>1, <1>3, <1>4, <2>1, <2>2, EndTurns
  <2>4. Knows(y, registry', Written', active')
    BY <2>3, KnowsNothing DEF Holding, Inner, Reads
  <2>5. ~Owing(act[s]) /\ ~Leaving(act[s])
    BY <1>1, <1>3, OwesNothing DEF Leaving, Now
  <2> QED BY <1>1, <1>2, <2>3, <2>4, <2>5, StillThere, Quiet
<1> QED BY <1>4, <1>6, <1>8, <1>9, <1>10, <1>11 DEF Choose, My

(* A session dies: it holds no lock of the registry, or nobody gets past   *)
(* the one that it leaves.                                                 *)
LEMMA CrashKeeps ==
  ASSUME Inv, NEW s \in Sessions, Crash(s)
  PROVE  Inv'
<1>1. Typed /\ Ordered /\ Born
  BY DEF Inv
<1>2. PICK x : x = act[s]
  OBVIOUS
<1>3. act[s].todo # <<>>
  BY <1>1 DEF Ordered, Fitting, Crash
<1>4. PICK y : y = [x EXCEPT !.todo = <<>>]
  OBVIOUS
<1>5. GoOn(s, y)
  <2>1. x \in CallRecords /\ <<>> \in Seq(StepNames)
    BY <1>1, <1>2, <1>3, Going
  <2>2. y.todo = <<>>
    BY <1>4, <2>1 DEF CallRecords
  <2> QED BY <2>2 DEF GoOn, Crash
<1>6. Untaken(s)
  BY DEF Crash, Untaken
<1>7. /\ y \in CallRecords /\ Turned(s, y) /\ First(y.todo) = "end" /\ Steps(y.todo) = {}
      /\ \A p \in Plans : Unborn(p) => Unaware(y, p)
  BY <1>1, <1>2, <1>3, <1>4, <1>5, <1>6, EndTurns
<1>8. UNCHANGED <<disk, calls, edits>>
  BY DEF Crash
<1>9. TypedDisk'
  BY <1>1, <1>8 DEF Typed, TypedDisk, disk
<1>10. TypedRest'
  <2>1. crashes' \in 0..MaxCrashes
    BY <1>1, CountDown, PlansAssumption DEF Crash, Typed, TypedRest
  <2>2. lifecycleLock' \in Holders /\ registryLock' \in Holders
    BY <1>1 DEF Crash, Typed, TypedRest, Holders
  <2>3. At(s, "confirm") => act[s].target \in Plans
    <3> SUFFICES ASSUME At(s, "confirm") PROVE act[s].target \in Plans
      OBVIOUS
    <3>1. "confirm" \in Left(s) /\ Belongs(act[s], Left(s))
      BY <1>1, <1>3, AtNow, Going
    <3> QED BY <3>1 DEF Belongs, Targeting
  <2>4. At(s, "conclude") => act[s].plan \in Plans
    <3> SUFFICES ASSUME At(s, "conclude") PROVE act[s].plan \in Plans
      OBVIOUS
    <3>1. "conclude" \in Left(s) /\ Belongs(act[s], Left(s))
      BY <1>1, <1>3, AtNow, Going
    <3> QED BY <3>1 DEF Belongs, Naming
  <2>5. contextLeft \subseteq Plans
    BY <1>1 DEF Typed, TypedRest
  <2>6. contextLeft' \subseteq Plans
    BY <2>3, <2>4, <2>5 DEF Crash, My
  <2> QED BY <1>1, <1>8, <2>1, <2>2, <2>6 DEF Typed, TypedRest
<1>11. CASE registryLock = s
  <2>1. registryLock' = "left"
    BY <1>11 DEF Crash
  <2>2. \A p \in Plans : files'[p] = "future" =>
          files[p] = "future" /\ registry'[p] = "absent" /\ active' # p /\ Unaware(y, p)
    BY <1>1, <1>7, <1>8 DEF Born, Unborn, disk
  <2> QED BY <1>7, <1>9, <1>10, <2>1, <2>2, Broken
<1>12. CASE registryLock # s
  <2>1. Now(s) \notin Holding
    BY <1>1, <1>12, HolderHolds
  <2>2. Now(s) \notin {"mark", "repair"} /\ ~Leaving(act[s])
    BY <2>1 DEF Leaving, Now, Holding, Inner, Reads
  <2>3. ~overwritten' => ~Owing(act[s])
    <3>1. Owing(act[s]) => Unsettled(s)
      BY PendingLeft DEF Owing, Unsettled, Left
    <3> QED BY <3>1 DEF Crash
  <2>4. Knows(y, registry', Written', active')
    BY <1>7, KnowsNothing DEF Holding, Inner, Reads
  <2>5. Syncs
    BY <1>8 DEF Syncs, disk
  <2>6. (overwritten => overwritten') /\ (registryLock = "left" => registryLock' = "left")
    BY <1>12 DEF Crash
  <2> QED BY <1>7, <1>9, <1>10, <2>2, <2>3, <2>4, <2>5, <2>6, Quiet
<1> QED BY <1>11, <1>12

-----------------------------------------------------------------------------
(* The steps of whoever holds the lock of the registry.                    *)

(* Only this session can be the reason for what does not agree, but for    *)
(* the look that other saves owe.                                          *)
OtherOwes(s) == \E t \in Sessions \ {s} : Owing(act[t])

(* Why the two files may differ, as the holder of the registry sees it.    *)
LEMMA Reasons ==
  ASSUME Typed, Ordered, Sound, NEW s \in Sessions, Now(s) \in Holding
  PROVE  /\ \A p \in Written : registry[p] = "active" => p = active \/ Now(s) = "mark"
         /\ active \in Written =>
              \/ registry[active] = "active"
              \/ registry[active] = "inactive" /\ (OtherOwes(s) \/ Owing(act[s]))
              \/ Now(s) \in {"repair", "mark"}
              \/ registry[active] = "archived" /\ Leaving(act[s]) /\ act[s].plan = active
<1>1. \A t \in Sessions : t # s => Now(t) \notin Holding
  BY Alone
<1>2. {"mark", "repair"} \subseteq Holding /\ \A x : Leaving(x) => First(x.todo) \in Holding
  BY DEF Holding, Inner, Reads, Leaving
<1>3. \A t \in Sessions : Now(t) \in {"mark", "repair"} => t = s
  BY <1>1, <1>2
<1>4. \A t \in Sessions : Leaving(act[t]) => t = s
  BY <1>1, <1>2 DEF Now
<1>5. \A p \in Written : registry[p] = "active" => p = active \/ Now(s) = "mark"
  BY <1>3 DEF Sound, Half
<1>6. active \in Written =>
              \/ registry[active] = "active"
              \/ registry[active] = "inactive" /\ \E t \in Sessions : Owing(act[t])
              \/ \E t \in Sessions : Now(t) \in {"repair", "mark"}
              \/ registry[active] = "archived" /\ \E t \in Sessions : Leaving(act[t]) /\ act[t].plan = active
  BY DEF Sound, Rest
<1>7. (\E t \in Sessions : Owing(act[t])) => OtherOwes(s) \/ Owing(act[s])
  BY DEF OtherOwes
<1>8. (\E t \in Sessions : Leaving(act[t]) /\ act[t].plan = active) => Leaving(act[s]) /\ act[s].plan = active
  BY <1>4
<1>9. (\E t \in Sessions : Now(t) \in {"repair", "mark"}) => Now(s) \in {"repair", "mark"}
  BY <1>3
<1> QED BY <1>5, <1>6, <1>7, <1>8, <1>9

(* What such a step has to leave behind.                                   *)
Agree(s, y, now, a) ==
  /\ \A p \in Written : now[p] = "active" => p = a \/ First(y.todo) = "mark"
  /\ a \in Written =>
       \/ now[a] = "active"
       \/ now[a] = "inactive" /\ (OtherOwes(s) \/ Owing(y))
       \/ First(y.todo) \in {"repair", "mark"}
       \/ now[a] = "archived" /\ Leaving(y) /\ y.plan = a
  /\ Knows(y, now, Written, a)

(* A step of the holder of the registry that leaves what agrees with its   *)
(* place in the call keeps the invariant.                                  *)
LEMMA Loud ==
  ASSUME Inv, NEW s \in Sessions, Now(s) \in Holding, NEW y \in CallRecords, Turned(s, y), TypedDisk', TypedRest',
         files' = files, overwritten => overwritten', registryLock' = registryLock,
         \A p \in Plans : Unborn(p) => registry'[p] = "absent" /\ active' # p /\ Unaware(y, p),
         NEW now, NEW a, now = registry', a = active',
         Sound /\ ~overwritten' => Agree(s, y, now, a)
  PROVE  Inv'
<1>1. Typed /\ Ordered /\ Born /\ Data
  BY DEF Inv
<1>2. Typed' /\ Ordered'
  BY DEF Typed, Turned
<1>3. Born'
  BY <1>1, BornKept DEF Unborn
<1>4. Data'
  <2> SUFFICES ASSUME ~overwritten', registryLock' # "left"
               PROVE  Sound'
    BY DEF Data
  <2>1. Sound
    BY <1>1 DEF Data
  <2>2. Agree(s, y, now, a)
    BY <2>1
  <2>3. Written' = Written
    BY DEF Written, There
  <2>4. \A t \in Sessions : Knows(act'[t], now, Written, a)
    <3>1. \A t \in Sessions \ {s} : Knows(act[t], now, Written, a)
      <4> TAKE t \in Sessions \ {s}
      <4>1. Now(t) \notin Holding
        BY <1>1, Alone
      <4>2. Knows(act[t], registry, Written, active)
        BY <2>1 DEF Sound
      <4>3. "replace" \notin Steps(act[t].todo)
        BY <4>2 DEF Knows
      <4> QED BY <4>1, <4>3, KnowsNothing DEF Now
    <3> QED BY <2>2, <3>1, SessionsKnow DEF Agree
  <2>5. Now(s)' = First(y.todo) /\ (Owing(y) => Owing(act'[s])) /\ (Leaving(y) => Leaving(act'[s]) /\ act'[s].plan = y.plan)
    BY ReasonsStay
  <2>6. Half'
    BY <2>2, <2>3, <2>5 DEF Half, Agree
  <2>7. OtherOwes(s) => \E t \in Sessions : Owing(act'[t])
    BY DEF OtherOwes, Turned
  <2>8. Rest'
    <3> SUFFICES ASSUME a \in Written
                 PROVE  \/ now[a] = "active"
                        \/ now[a] = "inactive" /\ \E t \in Sessions : Owing(act'[t])
                        \/ \E t \in Sessions : Now(t)' \in {"repair", "mark"}
                        \/ now[a] = "archived" /\ \E t \in Sessions : Leaving(act'[t]) /\ act'[t].plan = a
      BY <2>3 DEF Rest
    <3>1. \/ now[a] = "active"
          \/ now[a] = "inactive" /\ (OtherOwes(s) \/ Owing(y))
          \/ First(y.todo) \in {"repair", "mark"}
          \/ now[a] = "archived" /\ Leaving(y) /\ y.plan = a
      BY <2>2 DEF Agree
    <3>2. CASE now[a] = "active"
      BY <3>2
    <3>3. CASE now[a] = "inactive" /\ (OtherOwes(s) \/ Owing(y))
      BY <2>5, <2>7, <3>3
    <3>4. CASE First(y.todo) \in {"repair", "mark"}
      BY <2>5, <3>4
    <3>5. CASE now[a] = "archived" /\ Leaving(y) /\ y.plan = a
      BY <2>5, <3>5
    <3> QED BY <3>1, <3>2, <3>3, <3>4, <3>5
  <2> QED BY <2>3, <2>4, <2>6, <2>8 DEF Sound
<1> QED BY <1>2, <1>3, <1>4 DEF Inv

(* The plan file names the plan; its entry follows.                        *)
LEMMA PointKeeps ==
  ASSUME Inv, NEW s \in Sessions, Point(s)
  PROVE  Inv'
<1>1. Now(s) = "point" /\ act[s].todo # <<>>
  BY AtNow DEF Point
<1>2. /\ UNCHANGED <<files, registry, confirmed, locks, overwritten, bounds>> /\ active' = act[s].target
      /\ GoOn(s, Done(s))
  BY DEF Point, My
<1>3. Typed /\ Ordered /\ Born
  BY DEF Inv
<1>4. PICK x : x = act[s]
  OBVIOUS
<1>5. PICK z : z = Done(s)
  OBVIOUS
<1>6. PICK k : k = Kind(x.op)
  OBVIOUS
<1>7. Onward(s, x, z, "point", k)
  BY <1>1, <1>3, <1>4, <1>5, <1>6, DoneOnward
<1>8. LocksMove(s) /\ registryLock' = registryLock
  BY <1>1, <1>2 DEF LocksMove, locks
<1>9. z \in CallRecords /\ Turned(s, z)
  BY <1>1, <1>2, <1>3, <1>4, <1>5, <1>7, <1>8, Dones DEF Onward
<1>10. TypedDisk' /\ TypedRest'
  <2>1. active' \in Plans \cup {None}
    BY <1>2, <1>4, <1>7 DEF Onward, CallRecords
  <2> QED BY <1>2, <1>3, <2>1 DEF Typed, TypedDisk, TypedRest, locks, bounds
<1>11. /\ First(z.todo) = "mark" /\ "mark" \in Steps(z.todo) /\ "mark" \in Steps(x.todo)
       /\ "content" \notin Steps(x.todo)
  BY <1>7 DEF Onward, Fits, Anyhow, Early, Inner
<1>12. \A p \in Plans : Unborn(p) => registry'[p] = "absent" /\ active' # p /\ Unaware(z, p)
  <2> SUFFICES ASSUME NEW p \in Plans, Unborn(p) PROVE registry'[p] = "absent" /\ active' # p /\ Unaware(z, p)
    OBVIOUS
  <2>1. Unaware(x, p) /\ registry[p] = "absent"
    BY <1>3, <1>4 DEF Born
  <2>2. p # None
    BY PlansAssumption DEF None
  <2>3. x.target # p
    BY <1>11, <2>1 DEF Unaware
  <2>4. Unaware(z, p)
    BY <1>7, <2>1, <2>2, UnawareNext DEF Onward
  <2> QED BY <1>2, <1>4, <2>1, <2>3, <2>4
<1>13. ASSUME Sound PROVE Agree(s, z, registry', active')
  <2>1. Knows(x, registry, Written, active)
    BY <1>4, <1>13 DEF Sound
  <2>2. Keeps(x.reg, registry) /\ x.reg[x.target] \notin Settled /\ "replace" \notin Steps(x.todo)
    BY <1>7, <1>11, <2>1 DEF Knows, Onward, Inner
  <2>3. "replace" \notin Steps(z.todo)
    BY <1>7, <2>2 DEF Onward
  <2>4. z.reg = x.reg /\ z.target = x.target
    BY <1>7 DEF Onward
  <2>5. Knows(z, registry, Written, x.target)
    BY <1>11, <2>2, <2>3, <2>4 DEF Knows, Leaving
  <2>6. Agree(s, z, registry, x.target)
    BY <1>11, <2>5 DEF Agree
  <2> QED BY <1>2, <1>4, <2>6
<1>14. Now(s) \in Holding
  BY <1>1 DEF Holding, Inner
<1> QED BY <1>2, <1>8, <1>9, <1>10, <1>12, <1>13, <1>14, Loud

(* The registry is written: what does not depend on how.                   *)
LEMMA Rewritten ==
  ASSUME Inv, NEW s \in Sessions, act[s].todo # <<>>, Now(s) \in Holding,
         UNCHANGED <<files, active, confirmed, locks, bounds>>, overwritten => overwritten',
         NEW r, r \in [Plans -> Lifecycle], registry' = r, GoOn(s, Done(s)),
         \A p \in Plans : Unborn(p) => r[p] = "absent",
         Sound /\ ~overwritten' => Agree(s, Done(s), r, active)
  PROVE  Inv'
<1>1. Typed /\ Ordered /\ Born
  BY DEF Inv
<1>2. PICK x : x = act[s]
  OBVIOUS
<1>3. PICK n : n = Now(s)
  OBVIOUS
<1>4. PICK z : z = Done(s)
  OBVIOUS
<1>5. Onward(s, x, z, n, Kind(x.op))
  BY <1>1, <1>2, <1>3, <1>4, DoneOnward
<1>6. n \notin {"lockLifecycle", "lockRegistry", "unlock", "content", "write", "resolve"}
  BY <1>3 DEF Holding, Inner, Reads
<1>7. LocksMove(s) /\ registryLock' = registryLock /\ files' = files /\ active' = active
  BY <1>3, <1>6 DEF LocksMove, locks
<1>8. z \in CallRecords /\ Turned(s, z)
  BY <1>1, <1>2, <1>4, <1>5, <1>7, Dones DEF Onward
<1>9. TypedDisk' /\ TypedRest'
  BY <1>1 DEF Typed, TypedDisk, TypedRest, locks, bounds
<1>10. \A p \in Plans : Unborn(p) => registry'[p] = "absent" /\ active' # p /\ Unaware(z, p)
  <2> SUFFICES ASSUME NEW p \in Plans, Unborn(p) PROVE registry'[p] = "absent" /\ active' # p /\ Unaware(z, p)
    OBVIOUS
  <2>1. Unaware(x, p) /\ active # p
    BY <1>1, <1>2 DEF Born
  <2>2. p # None
    BY PlansAssumption DEF None
  <2>3. Unaware(z, p)
    BY <1>5, <1>6, <2>1, <2>2, UnawareNext DEF Onward
  <2> QED BY <1>7, <2>1, <2>3
<1>11. registry' = r /\ active' = active
  BY <1>7
<1>12. Sound /\ ~overwritten' => Agree(s, z, r, active)
  BY <1>4
<1> QED BY <1>7, <1>8, <1>9, <1>10, <1>11, <1>12, Loud

(* The entries follow the active plan: no other is active.                 *)
LEMMA MarkKeeps ==
  ASSUME Inv, NEW s \in Sessions, Mark(s)
  PROVE  Inv'
<1>1. Now(s) = "mark" /\ act[s].todo # <<>>
  BY AtNow DEF Mark
<1>2. UNCHANGED <<files, active, confirmed, locks, overwritten, bounds>> /\ GoOn(s, Done(s))
  BY DEF Mark, WriteRegistry
<1>3. Typed /\ Ordered /\ Born
  BY DEF Inv
<1>4. PICK x : x = act[s]
  OBVIOUS
<1>5. PICK z : z = Done(s)
  OBVIOUS
<1>6. Onward(s, x, z, "mark", Kind(x.op))
  BY <1>1, <1>3, <1>4, <1>5, DoneOnward
<1>7. PICK t : t = x.target
  OBVIOUS
<1>8. PICK old : old = x.reg
  OBVIOUS
<1>9. PICK r : r = Activated(old, t)
  OBVIOUS
<1>10. registry' = r
  BY <1>4, <1>7, <1>8, <1>9 DEF Mark, WriteRegistry, My
<1>11. old \in [Plans -> Lifecycle] /\ t \in Plans
  <2>1. "mark" \in Steps(x.todo) /\ Belongs(x, Steps(x.todo))
    BY <1>1, <1>3, <1>4, Going DEF Left
  <2>2. t \in Plans
    BY <1>7, <2>1 DEF Belongs, Targeting
  <2> QED BY <1>6, <1>8, <2>2 DEF Onward, CallRecords
<1>12. \A p \in Plans : r[p] = IF p = t THEN "active"
                               ELSE IF old[p] \in {"absent", "archived", "draft"} THEN old[p] ELSE "inactive"
  BY <1>9 DEF Activated
<1>13. r \in [Plans -> Lifecycle]
  <2>1. \A p \in Plans : r[p] \in Lifecycle
    BY <1>12 DEF Lifecycle
  <2> QED BY <1>9, <2>1 DEF Activated
<1>14. "content" \notin Steps(x.todo) /\ "mark" \in Steps(x.todo)
  BY <1>6 DEF Onward, Fits, Early, Inner
<1>15. ASSUME NEW p \in Plans, Unborn(p) PROVE r[p] = "absent"
  <2>1. old[p] = "absent" /\ t # p
    BY <1>3, <1>4, <1>7, <1>8, <1>14, <1>15 DEF Born, Unaware
  <2> QED BY <1>12, <2>1
<1>16. ASSUME Sound PROVE Agree(s, z, r, active)
  <2>1. Knows(x, registry, Written, active)
    BY <1>4, <1>16 DEF Sound
  <2>2. t = active /\ "replace" \notin Steps(z.todo)
    BY <1>6, <1>7, <2>1 DEF Knows, Onward
  <2>3. First(z.todo) = "confirm"
    BY <1>6 DEF Onward, Fits, Anyhow
  <2>4. Knows(z, r, Written, active)
    BY <2>2, <2>3, KnowsNothing DEF Holding, Inner, Reads
  <2>5. \A p \in Written : p \in Plans
    BY DEF Written
  <2>6. \A p \in Plans : r[p] = "active" <=> p = t
    BY <1>12
  <2> QED BY <1>11, <2>2, <2>4, <2>5, <2>6 DEF Agree
<1>17. Now(s) \in Holding
  BY <1>1 DEF Holding, Inner
<1> QED BY <1>1, <1>2, <1>5, <1>10, <1>13, <1>15, <1>16, <1>17, Rewritten

(* The entry of the plan that was found active says so.                    *)
LEMMA RepairKeeps ==
  ASSUME Inv, NEW s \in Sessions, Repair(s)
  PROVE  Inv'
<1>1. Now(s) = "repair" /\ act[s].todo # <<>>
  BY AtNow DEF Repair
<1>2. UNCHANGED <<files, active, confirmed, locks, overwritten, bounds>> /\ GoOn(s, Done(s))
  BY DEF Repair, WriteRegistry
<1>3. Typed /\ Ordered /\ Born
  BY DEF Inv
<1>4. PICK x : x = act[s]
  OBVIOUS
<1>5. PICK z : z = Done(s)
  OBVIOUS
<1>6. Onward(s, x, z, "repair", Kind(x.op))
  BY <1>1, <1>3, <1>4, <1>5, DoneOnward
<1>7. PICK c : c = x.cur
  OBVIOUS
<1>8. PICK old : old = x.seen
  OBVIOUS
<1>9. PICK r : r = [old EXCEPT ![c] = "active"]
  OBVIOUS
<1>10. registry' = r
  BY <1>4, <1>7, <1>8, <1>9 DEF Repair, WriteRegistry, My
<1>11. old \in [Plans -> Lifecycle]
  BY <1>6, <1>8 DEF Onward, CallRecords
<1>12. r \in [Plans -> Lifecycle] /\ \A p \in Plans : r[p] = IF p = c THEN "active" ELSE old[p]
  BY <1>9, <1>11 DEF Lifecycle
<1>13. ASSUME NEW p \in Plans, Unborn(p) PROVE r[p] = "absent"
  <2>1. old[p] = "absent" /\ c # p
    BY <1>3, <1>4, <1>7, <1>8, <1>13 DEF Born, Unaware
  <2> QED BY <1>12, <2>1
<1>14. ASSUME Sound PROVE Agree(s, z, r, active)
  <2>1. Knows(x, registry, Written, active)
    BY <1>4, <1>14 DEF Sound
  <2>2. c = active /\ "replace" \notin Steps(z.todo) /\ \A p \in Written : old[p] = "active" => p = active
    BY <1>6, <1>7, <1>8, <2>1 DEF Knows, Onward
  <2>3. First(z.todo) \in {"unlock", "point", "succeed"}
    BY <1>6 DEF Onward, Fits, Anyhow
  <2>4. "mark" \in Steps(z.todo) => Keeps(x.reg, r) /\ x.reg[x.target] \notin Settled
    <3> SUFFICES ASSUME "mark" \in Steps(z.todo) PROVE Keeps(x.reg, r) /\ x.reg[x.target] \notin Settled
      OBVIOUS
    <3>1. "mark" \in Steps(x.todo)
      BY <1>6 DEF Onward
    <3>2. x.reg[x.target] \notin Settled /\ \A p \in Plans : old[p] \in Settled => x.reg[p] = old[p]
      BY <1>6, <1>8, <2>1, <3>1 DEF Knows, Onward, Inner, Reads
    <3>3. Keeps(x.reg, r)
      BY <1>12, <3>2 DEF Keeps, Settled
    <3> QED BY <3>2, <3>3
  <2>5. "succeed" \in Steps(z.todo) => x.cur # x.plan
    BY <1>6, <2>1 DEF Knows, Onward
  <2>6. z.reg = x.reg /\ z.target = x.target /\ z.cur = x.cur /\ z.plan = x.plan
    BY <1>6 DEF Onward
  <2>7. Knows(z, r, Written, active)
    BY <2>2, <2>3, <2>4, <2>5, <2>6 DEF Knows, Leaving
  <2>8. \A p \in Written : p \in Plans
    BY DEF Written
  <2> QED BY <1>12, <2>2, <2>7, <2>8 DEF Agree
<1>15. Now(s) \in Holding
  BY <1>1 DEF Holding, Inner, Reads
<1> QED BY <1>1, <1>2, <1>5, <1>10, <1>12, <1>13, <1>14, <1>15, Rewritten

(* What the copy says, that a call is about to write back with one entry   *)
(* changed: nobody else is active, and the active plan stands as that, or  *)
(* a save still owes it a look.                                            *)
LEMMA CopyAgrees ==
  ASSUME Typed, Ordered, Sound, NEW s \in Sessions, Now(s) \in {"promote", "archive", "unarchive", "enter"}
  PROVE  /\ \A p \in Written : act[s].reg[p] = "active" => p = active
         /\ active \in Written => act[s].reg[active] = "active" \/ (act[s].reg[active] = "inactive" /\ OtherOwes(s))
<1>1. PICK r : r = act[s].reg
  OBVIOUS
<1>2. Now(s) \in Holding /\ Now(s) \notin {"repair", "mark"}
  BY DEF Holding
<1>3. Fresh(r, registry, Written, active)
  BY <1>1 DEF Sound, Knows, Now
<1>4. ~Leaving(act[s])
  BY DEF Leaving, Now
<1>5. ~Owing(act[s])
  <2>1. CASE Now(s) = "enter"
    <3>1. Now(s) # "end" /\ act[s].todo # <<>>
      BY <2>1 DEF Now, First
    <3>2. "enter" \in Left(s)
      BY <2>1, <3>1, Going
    <3> QED BY <3>2 DEF Owing, Left
  <2>2. CASE Now(s) # "enter"
    BY <2>2, OwesNothing DEF Changing
  <2> QED BY <2>1, <2>2
<1>6. /\ \A p \in Written : registry[p] = "active" => p = active
      /\ active \in Written => registry[active] = "active" \/ (registry[active] = "inactive" /\ OtherOwes(s))
  BY <1>2, <1>4, <1>5, Reasons
<1>7. \A p \in Written : r[p] = registry[p] \/ {r[p], registry[p]} \subseteq {"absent", "inactive"}
  BY <1>3 DEF Fresh, Close
<1>8. active \in Written => r[active] # "absent"
  BY <1>3 DEF Fresh
<1>9. \A p \in Written : r[p] = "active" => p = active
  BY <1>6, <1>7
<1>10. ASSUME active \in Written PROVE r[active] = "active" \/ (r[active] = "inactive" /\ OtherOwes(s))
  <2>1. r[active] = registry[active] \/ {r[active], registry[active]} \subseteq {"absent", "inactive"}
    BY <1>7, <1>10
  <2>2. r[active] # "absent"
    BY <1>8, <1>10
  <2>3. CASE registry[active] = "active"
    BY <2>1, <2>3
  <2>4. CASE registry[active] = "inactive" /\ OtherOwes(s)
    BY <2>1, <2>2, <2>4
  <2> QED BY <1>6, <1>10, <2>3, <2>4
<1> QED BY <1>1, <1>9, <1>10

(* A copy with one entry changed.                                          *)
LEMMA OneChanged ==
  ASSUME NEW old \in [Plans -> Lifecycle], NEW p \in Plans, NEW v \in Lifecycle, NEW r, r = [old EXCEPT ![p] = v]
  PROVE  r \in [Plans -> Lifecycle] /\ r[p] = v /\ \A q \in Plans : q # p => r[q] = old[q]
OBVIOUS

(* A draft that is promoted: it was not the active plan.                   *)
LEMMA PromoteKeeps ==
  ASSUME Inv, NEW s \in Sessions, Promote(s)
  PROVE  Inv'
<1>1. Now(s) = "promote" /\ act[s].todo # <<>>
  BY AtNow DEF Promote
<1>2. UNCHANGED <<locks, overwritten, bounds>>
  BY DEF Promote
<1>3. Typed /\ Ordered /\ Born
  BY DEF Inv
<1>4. PICK x : x = act[s]
  OBVIOUS
<1>5. PICK z : z = Done(s)
  OBVIOUS
<1>6. Onward(s, x, z, "promote", Kind(x.op))
  BY <1>1, <1>3, <1>4, <1>5, DoneOnward
<1>7. PICK old : old = x.reg
  OBVIOUS
<1>8. PICK p : p = x.plan
  OBVIOUS
<1>9. old \in [Plans -> Lifecycle] /\ p \in Plans
  <2>1. "promote" \in Steps(x.todo) /\ Belongs(x, Steps(x.todo))
    BY <1>1, <1>3, <1>4, Going DEF Left
  <2>2. p \in Plans
    BY <1>8, <2>1 DEF Belongs, Naming
  <2> QED BY <1>6, <1>7, <2>2 DEF Onward, CallRecords
<1>10. First(z.todo) = "confirm"
  BY <1>6 DEF Onward, Fits, Anyhow
<1>11. Now(s) \in Holding
  BY <1>1 DEF Holding
<1>12. CASE old[p] \in {"absent", "archived"}
  <2>1. Throw(s) /\ UNCHANGED disk
    BY <1>4, <1>7, <1>8, <1>12 DEF Promote, My
  <2>2. ~Owing(act[s])
    BY <1>1, <1>3, OwesNothing DEF Changing
  <2> QED BY <1>1, <1>2, <2>1, <2>2, Thrown DEF Changing
<1>13. CASE old[p] \notin {"absent", "archived", "draft"}
  <2>1. GoOn(s, z) /\ UNCHANGED disk
    BY <1>4, <1>5, <1>7, <1>8, <1>13 DEF Promote, My
  <2>2. registry \in [Plans -> Lifecycle] /\ \A q \in Plans : Unborn(q) => registry[q] = "absent"
    BY <1>3 DEF Typed, TypedDisk, Born
  <2>3. ASSUME Sound PROVE Agree(s, z, registry, active)
    <3>1. "replace" \notin Steps(z.todo)
      BY <1>4, <1>6, <2>3 DEF Sound, Knows, Onward
    <3>2. Knows(z, registry, Written, active)
      BY <1>10, <3>1, KnowsNothing DEF Holding, Inner, Reads
    <3>3. ~Leaving(act[s]) /\ ~Owing(act[s])
      BY <1>1, <1>3, OwesNothing DEF Changing, Leaving, Now
    <3>4. /\ \A q \in Written : registry[q] = "active" => q = active
          /\ active \in Written => registry[active] = "active" \/ (registry[active] = "inactive" /\ OtherOwes(s))
      BY <1>1, <1>3, <1>11, <2>3, <3>3, Reasons
    <3> QED BY <3>2, <3>4 DEF Agree
  <2>4. UNCHANGED <<files, active, confirmed>> /\ registry' = registry
    BY <2>1 DEF disk
  <2> QED BY <1>1, <1>2, <1>5, <1>11, <2>1, <2>2, <2>3, <2>4, Rewritten
<1>14. CASE old[p] = "draft"
  <2>1. PICK r : r = [old EXCEPT ![p] = "inactive"]
    OBVIOUS
  <2>2. GoOn(s, z) /\ UNCHANGED <<files, active, confirmed>> /\ registry' = r
    BY <1>4, <1>5, <1>7, <1>8, <1>14, <2>1 DEF Promote, WriteRegistry, My
  <2>3. r \in [Plans -> Lifecycle] /\ r[p] = "inactive" /\ \A q \in Plans : q # p => r[q] = old[q]
    <3>1. "inactive" \in Lifecycle
      BY DEF Lifecycle
    <3> QED BY <1>9, <2>1, <3>1, OneChanged
  <2>4. ASSUME NEW q \in Plans, Unborn(q) PROVE r[q] = "absent"
    <3>1. old[q] = "absent"
      BY <1>3, <1>4, <1>7, <2>4 DEF Born, Unaware
    <3> QED BY <1>14, <2>3, <3>1
  <2>5. ASSUME Sound PROVE Agree(s, z, r, active)
    <3>1. "replace" \notin Steps(z.todo)
      BY <1>4, <1>6, <2>5 DEF Sound, Knows, Onward
    <3>2. Knows(z, r, Written, active)
      BY <1>10, <3>1, KnowsNothing DEF Holding, Inner, Reads
    <3>3. /\ \A q \in Written : old[q] = "active" => q = active
          /\ active \in Written => old[active] = "active" \/ (old[active] = "inactive" /\ OtherOwes(s))
      BY <1>1, <1>3, <1>4, <1>7, <2>5, CopyAgrees
    <3>4. \A q \in Written : q \in Plans
      BY DEF Written
    <3>5. active \in Written => active # p
      BY <1>14, <3>3
    <3> QED BY <2>3, <3>2, <3>3, <3>4, <3>5 DEF Agree
  <2> QED BY <1>1, <1>2, <1>5, <1>11, <2>2, <2>3, <2>4, <2>5, Rewritten
<1> QED BY <1>12, <1>13, <1>14

(* The plan that is archived is still the active one, until the successor  *)
(* is found.                                                               *)
LEMMA ArchiveKeeps ==
  ASSUME Inv, NEW s \in Sessions, Archive(s)
  PROVE  Inv'
<1>1. Now(s) = "archive" /\ act[s].todo # <<>>
  BY AtNow DEF Archive
<1>2. UNCHANGED <<locks, overwritten, bounds>>
  BY DEF Archive
<1>3. Typed /\ Ordered /\ Born
  BY DEF Inv
<1>4. PICK x : x = act[s]
  OBVIOUS
<1>5. PICK z : z = Done(s)
  OBVIOUS
<1>6. Onward(s, x, z, "archive", Kind(x.op))
  BY <1>1, <1>3, <1>4, <1>5, DoneOnward
<1>7. PICK old : old = x.reg
  OBVIOUS
<1>8. PICK p : p = x.plan
  OBVIOUS
<1>9. old \in [Plans -> Lifecycle] /\ p \in Plans
  <2>1. "archive" \in Steps(x.todo) /\ Belongs(x, Steps(x.todo))
    BY <1>1, <1>3, <1>4, Going DEF Left
  <2>2. p \in Plans
    BY <1>8, <2>1 DEF Belongs, Naming
  <2> QED BY <1>6, <1>7, <2>2 DEF Onward, CallRecords
<1>10. Now(s) \in Holding
  BY <1>1 DEF Holding
<1>11. CASE old[p] = "absent"
  <2>1. Throw(s) /\ UNCHANGED disk
    BY <1>4, <1>7, <1>8, <1>11 DEF Archive, My
  <2>2. ~Owing(act[s])
    BY <1>1, <1>3, OwesNothing DEF Changing
  <2> QED BY <1>1, <1>2, <2>1, <2>2, Thrown DEF Changing
<1>12. CASE old[p] # "absent"
  <2>1. PICK r : r = [old EXCEPT ![p] = "archived"]
    OBVIOUS
  <2>2. PICK was \in Confirmed : GoOn(s, [z EXCEPT !.was = was])
    <3>1. confirmed[p] \in Confirmed /\ {"no", "yes"} \subseteq Confirmed
      BY <1>3, <1>9 DEF Typed, TypedDisk, Confirmed
    <3>2. PICK w : w = IF confirmed[p] # "unknown" THEN confirmed[p]
                       ELSE IF old[p] = "draft" THEN "no" ELSE "yes"
      OBVIOUS
    <3>3. w \in Confirmed
      BY <3>1, <3>2
    <3>4. GoOn(s, [z EXCEPT !.was = w])
      BY <1>4, <1>5, <1>7, <1>8, <1>12, <3>2 DEF Archive, My
    <3> QED BY <3>3, <3>4
  <2>3. UNCHANGED <<files, active, confirmed>> /\ registry' = r
    BY <1>4, <1>7, <1>8, <1>12, <2>1 DEF Archive, WriteRegistry, My
  <2>4. r \in [Plans -> Lifecycle] /\ r[p] = "archived" /\ \A q \in Plans : q # p => r[q] = old[q]
    <3>1. "archived" \in Lifecycle
      BY DEF Lifecycle
    <3> QED BY <1>9, <2>1, <3>1, OneChanged
  <2>5. PICK y : y = [z EXCEPT !.was = was]
    OBVIOUS
  <2>6. z \in CallRecords
    BY <1>6 DEF Onward
  <2>7. /\ y \in CallRecords /\ y.todo = z.todo /\ y.op = z.op /\ y.plan = z.plan /\ y.target = z.target
        /\ y.reg = z.reg /\ y.seen = z.seen /\ y.cur = z.cur /\ y.life = z.life
    BY <2>2, <2>5, <2>6 DEF CallRecords
  <2>8. /\ y.todo = Tail(x.todo) /\ y.op = x.op /\ y.plan = x.plan /\ y.target = x.target
        /\ y.reg = x.reg /\ y.seen = x.seen /\ y.cur = x.cur /\ y.life = x.life
        /\ Steps(x.todo) = {"archive"} \cup Steps(y.todo)
        /\ First(y.todo) = "loadSeen" /\ "mark" \notin Steps(y.todo) /\ "succeed" \in Steps(y.todo)
    BY <1>6, <2>7 DEF Onward, Fits, Anyhow
  <2>9. LocksMove(s) /\ registryLock' = registryLock
    BY <1>1, <1>2 DEF LocksMove, locks
  <2>10. Turned(s, y)
    BY <1>1, <1>3, <1>4, <2>2, <2>5, <2>7, <2>8, <2>9, Dones
  <2>11. TypedDisk' /\ TypedRest'
    BY <1>2, <1>3, <2>3, <2>4 DEF Typed, TypedDisk, TypedRest, locks, bounds
  <2>12. \A q \in Plans : Unborn(q) => registry'[q] = "absent" /\ active' # q /\ Unaware(y, q)
    <3> SUFFICES ASSUME NEW q \in Plans, Unborn(q) PROVE registry'[q] = "absent" /\ active' # q /\ Unaware(y, q)
      OBVIOUS
    <3>1. Unaware(x, q) /\ active # q
      BY <1>3, <1>4 DEF Born
    <3>2. q # None
      BY PlansAssumption DEF None
    <3>3. Unaware(y, q)
      BY <2>8, <3>1, <3>2, UnawareNext
    <3>4. old[q] = "absent"
      BY <1>7, <3>1 DEF Unaware
    <3>5. r[q] = "absent"
      BY <1>12, <2>4, <3>4
    <3> QED BY <2>3, <3>1, <3>3, <3>5
  <2>13. ASSUME Sound PROVE Agree(s, y, r, active)
    <3>1. "replace" \notin Steps(y.todo)
      BY <1>4, <2>8, <2>13 DEF Sound, Knows
    <3>2. Knows(y, r, Written, active)
      BY <1>8, <2>4, <2>8, <3>1 DEF Knows, Leaving
    <3>3. /\ \A q \in Written : old[q] = "active" => q = active
          /\ active \in Written => old[active] = "active" \/ (old[active] = "inactive" /\ OtherOwes(s))
      BY <1>1, <1>3, <1>4, <1>7, <2>13, CopyAgrees
    <3>4. \A q \in Written : q \in Plans
      BY DEF Written
    <3>5. Leaving(y) /\ y.plan = p
      BY <1>8, <2>8 DEF Leaving
    <3> QED BY <2>4, <3>2, <3>3, <3>4, <3>5 DEF Agree
  <2>14. files' = files /\ active' = active
    BY <2>3
  <2>15. overwritten => overwritten'
    BY <1>2
  <2> QED BY <1>10, <2>3, <2>7, <2>9, <2>10, <2>11, <2>12, <2>13, <2>14, <2>15, Loud
<1> QED BY <1>11, <1>12

(* Another first step.                                                     *)
LEMMA OtherFirst ==
  ASSUME NEW q \in Seq(StepNames), q # <<>>, NEW e \in StepNames
  PROVE  [q EXCEPT ![1] = e] = <<e>> \o Tail(q)
<1>1. PICK w : w = [q EXCEPT ![1] = e]
  OBVIOUS
<1>2. PICK p : p = <<e>>
  OBVIOUS
<1>3. PICK t : t = Tail(q)
  OBVIOUS
<1>4. p \in Seq(StepNames) /\ Len(p) = 1 /\ p[1] = e
  BY <1>2
<1>5. /\ t \in Seq(StepNames) /\ Len(t) = Len(q) - 1
      /\ \A i \in 1 .. Len(t) : t[i] = q[i + 1]
  BY <1>3, HeadTailProperties
<1>6. Len(q) \in Nat \ {0}
  BY EmptySeq, LenProperties
<1>7. w \in Seq(StepNames) /\ Len(w) = Len(q) /\ \A j \in 1 .. Len(q) : w[j] = IF j = 1 THEN e ELSE q[j]
  BY <1>1, <1>6, ExceptSeq
<1>8. PICK v : v = p \o t
  OBVIOUS
<1>9. /\ v \in Seq(StepNames) /\ Len(v) = Len(p) + Len(t)
      /\ \A i \in 1 .. Len(p) + Len(t) : v[i] = IF i <= Len(p) THEN p[i] ELSE t[i - Len(p)]
  BY <1>4, <1>5, <1>8, ConcatProperties
<1>10. Len(v) = Len(q) /\ \A j \in 1 .. Len(q) : v[j] = IF j <= 1 THEN p[j] ELSE t[j - 1]
  BY <1>4, <1>5, <1>6, <1>9
<1>11. ASSUME NEW j \in 1 .. Len(q) PROVE w[j] = v[j]
  <2>1. CASE j = 1
    BY <1>4, <1>7, <1>10, <2>1
  <2>2. CASE j # 1
    <3>1. j - 1 \in 1 .. Len(t) /\ (j - 1) + 1 = j /\ ~(j <= 1)
      BY <1>5, <1>6, <2>2
    <3>2. t[j - 1] = q[j]
      BY <1>5, <3>1
    <3> QED BY <1>7, <1>10, <2>2, <3>1, <3>2
  <2> QED BY <2>1, <2>2
<1>12. w = v
  BY <1>7, <1>9, <1>10, <1>11, SeqEqual
<1> QED BY <1>1, <1>2, <1>3, <1>8, <1>12

(* What an unarchived plan's context said is written back first.           *)
WrittenBack(x, v, w, y) == w = [x.todo EXCEPT ![1] = "conclude"] /\ y = [x EXCEPT !.was = v, !.todo = w]

(* The call that writes it back fits, and knows what it knew.              *)
LEMMA ConcludeFirst ==
  ASSUME Typed, Ordered, NEW s \in Sessions, Now(s) = "unarchive", act[s].todo # <<>>, NEW v \in Confirmed, NEW y,
         NEW w, WrittenBack(act[s], v, w, y), GoOn(s, y), UNCHANGED <<lifecycleLock, registryLock>>
  PROVE  /\ y \in CallRecords /\ Turned(s, y) /\ First(y.todo) = "conclude"
         /\ \A e : e \in Steps(y.todo) <=> e = "conclude" \/ e \in Steps(Tail(act[s].todo))
         /\ y.reg = act[s].reg /\ y.seen = act[s].seen /\ y.cur = act[s].cur
         /\ y.target = act[s].target /\ y.plan = act[s].plan
<1>1. PICK x : x = act[s]
  OBVIOUS
<1>2. PICK q : q = Tail(x.todo)
  OBVIOUS
<1>3. PICK k : k = Kind(x.op)
  OBVIOUS
<1>4. /\ x \in CallRecords /\ x.op \in OpNames /\ q \in Seq(StepNames) /\ Steps(x.todo) = {"unarchive"} \cup Steps(q)
      /\ Fits(k, "unarchive", First(q), Steps(q)) /\ Shape(k, q)
      /\ Belongs(x, Steps(x.todo)) /\ HoldsAt(s, k, "unarchive", Steps(x.todo), lifecycleLock, registryLock)
  BY <1>1, <1>2, <1>3, Going DEF Left, Holds, Now
<1>5. k = "whole"
  <2>1. k \in {"whole", "list", "save"}
    BY <1>3 DEF Kind
  <2> QED BY <1>4, <2>1 DEF Fits
<1>6. x.todo \in Seq(StepNames) /\ x.todo # <<>> /\ "conclude" \in StepNames
  BY <1>1, <1>4 DEF CallRecords, StepNames
<1>7. w = [x.todo EXCEPT ![1] = "conclude"]
  BY <1>1 DEF WrittenBack
<1>8. w = <<"conclude">> \o q
  BY <1>2, <1>6, <1>7, OtherFirst
<1>9. First(q) = "unlock" /\ "unlock" \in Steps(q) /\ q # <<>>
  BY <1>4 DEF Fits, Anyhow, First
<1>10. Part(k, <<"conclude">>, "conclude", {"conclude"}, First(q), Steps(q))
  <2>1. Fits(k, "conclude", First(q), Steps(q))
    BY <1>4, <1>5, <1>9 DEF Fits, Anyhow, Early, Changing, Inner, Reads
  <2> QED BY <1>6, <2>1, RunOne
<1>11. /\ Shape(k, w) /\ w \in Seq(StepNames) /\ First(w) = "conclude"
       /\ \A e : e \in Steps(w) <=> e \in {"conclude"} \/ e \in Steps(q)
  <2>1. PICK c : c = <<"conclude">>
    OBVIOUS
  <2>2. Shape(k, q) /\ q # <<>> /\ Part(k, c, "conclude", {"conclude"}, First(q), Steps(q))
    BY <1>4, <1>9, <1>10, <2>1
  <2>3. w = c \o q
    BY <1>8, <2>1
  <2> QED BY ONLY <2>2, <2>3, MorePart
<1>12. y = [x EXCEPT !.was = v, !.todo = w]
  BY <1>1 DEF WrittenBack
<1>13. /\ y \in CallRecords /\ y.todo = w /\ y.op = x.op /\ y.life = x.life
       /\ y.reg = x.reg /\ y.seen = x.seen /\ y.cur = x.cur /\ y.target = x.target /\ y.plan = x.plan
  BY <1>4, <1>11, <1>12 DEF CallRecords
<1>14. Belongs(y, Steps(y.todo))
  <2>1. x.plan \in Plans
    BY <1>4 DEF Belongs, Naming
  <2>2. \A e : e \in Steps(y.todo) => e = "conclude" \/ e \in Steps(x.todo)
    BY <1>4, <1>11, <1>13
  <2>3. "enter" \notin Steps(y.todo)
    BY <1>4, <1>5, <1>11, <1>13 DEF Fits
  <2>4. Belongs(x, Steps(x.todo))
    BY <1>4
  <2>5. "conclude" \notin Targeting
    BY DEF Targeting
  <2> QED BY <1>13, <2>1, <2>2, <2>3, <2>4, <2>5 DEF Belongs
<1>15. Holds(s, y, lifecycleLock', registryLock')
  <2>1. lifecycleLock = s /\ registryLock = s
    BY <1>4, <1>5 DEF HoldsAt
  <2> QED BY <2>1 DEF Holds, HoldsAt
<1>16. Untaken(s)
  BY DEF Untaken
<1>17. Kind(y.op) = k /\ Shape(Kind(y.op), y.todo)
  BY <1>3, <1>11, <1>13
<1>18. Turned(s, y)
  BY <1>4, <1>13, <1>14, <1>15, <1>16, <1>17, Turns
<1> QED BY <1>1, <1>2, <1>11, <1>13, <1>18

(* An archived plan was not the active one.                                *)
LEMMA UnarchiveKeeps ==
  ASSUME Inv, NEW s \in Sessions, Unarchive(s)
  PROVE  Inv'
<1>1. Now(s) = "unarchive" /\ act[s].todo # <<>>
  BY AtNow DEF Unarchive
<1>2. UNCHANGED <<locks, overwritten, bounds>>
  BY DEF Unarchive
<1>3. Typed /\ Ordered /\ Born
  BY DEF Inv
<1>4. PICK x : x = act[s]
  OBVIOUS
<1>5. PICK z : z = Done(s)
  OBVIOUS
<1>6. Onward(s, x, z, "unarchive", Kind(x.op))
  BY <1>1, <1>3, <1>4, <1>5, DoneOnward
<1>7. PICK old : old = x.reg
  OBVIOUS
<1>8. PICK p : p = x.plan
  OBVIOUS
<1>9. old \in [Plans -> Lifecycle] /\ p \in Plans
  <2>1. "unarchive" \in Steps(x.todo) /\ Belongs(x, Steps(x.todo))
    BY <1>1, <1>3, <1>4, Going DEF Left
  <2>2. p \in Plans
    BY <1>8, <2>1 DEF Belongs, Naming
  <2> QED BY <1>6, <1>7, <2>2 DEF Onward, CallRecords
<1>10. Now(s) \in Holding
  BY <1>1 DEF Holding
<1>11. First(z.todo) = "unlock"
  BY <1>6 DEF Onward, Fits, Anyhow
<1>12. CASE old[p] = "absent"
  <2>1. Throw(s) /\ UNCHANGED disk
    BY <1>4, <1>7, <1>8, <1>12 DEF Unarchive, My
  <2>2. ~Owing(act[s])
    BY <1>1, <1>3, OwesNothing DEF Changing
  <2> QED BY <1>1, <1>2, <2>1, <2>2, Thrown DEF Changing
<1>13. CASE old[p] \notin {"absent", "archived"}
  <2>1. GoOn(s, z) /\ UNCHANGED disk
    BY <1>4, <1>5, <1>7, <1>8, <1>13 DEF Unarchive, My
  <2>2. registry \in [Plans -> Lifecycle] /\ \A q \in Plans : Unborn(q) => registry[q] = "absent"
    BY <1>3 DEF Typed, TypedDisk, Born
  <2>3. ASSUME Sound PROVE Agree(s, z, registry, active)
    <3>1. "replace" \notin Steps(z.todo)
      BY <1>4, <1>6, <2>3 DEF Sound, Knows, Onward
    <3>2. Knows(z, registry, Written, active)
      BY <1>11, <3>1, KnowsNothing DEF Holding, Inner, Reads
    <3>3. ~Leaving(act[s]) /\ ~Owing(act[s])
      BY <1>1, <1>3, OwesNothing DEF Changing, Leaving, Now
    <3>4. /\ \A q \in Written : registry[q] = "active" => q = active
          /\ active \in Written => registry[active] = "active" \/ (registry[active] = "inactive" /\ OtherOwes(s))
      BY <1>1, <1>3, <1>10, <2>3, <3>3, Reasons
    <3> QED BY <3>2, <3>4 DEF Agree
  <2>4. UNCHANGED <<files, active, confirmed>> /\ registry' = registry
    BY <2>1 DEF disk
  <2> QED BY <1>1, <1>2, <1>5, <1>10, <2>1, <2>2, <2>3, <2>4, Rewritten
<1>14. CASE old[p] = "archived"
  <2>1. PICK v : v = IF confirmed[p] = "no" THEN "draft" ELSE "inactive"
    OBVIOUS
  <2>2. PICK r : r = [old EXCEPT ![p] = v]
    OBVIOUS
  <2>3. UNCHANGED <<files, active, confirmed>> /\ registry' = r
    BY <1>4, <1>7, <1>8, <1>14, <2>1, <2>2 DEF Unarchive, WriteRegistry, My
  <2>4. v \in {"draft", "inactive"} /\ r \in [Plans -> Lifecycle] /\ r[p] = v /\ \A q \in Plans : q # p => r[q] = old[q]
    <3>1. v \in {"draft", "inactive"} /\ v \in Lifecycle
      BY <2>1 DEF Lifecycle
    <3> QED BY <1>9, <2>2, <3>1, OneChanged
  <2>5. \A q \in Plans : Unborn(q) => r[q] = "absent"
    <3> SUFFICES ASSUME NEW q \in Plans, Unborn(q) PROVE r[q] = "absent"
      OBVIOUS
    <3>1. old[q] = "absent"
      BY <1>3, <1>4, <1>7 DEF Born, Unaware
    <3> QED BY <1>14, <2>4, <3>1
  <2>6. ASSUME NEW y, Knows(y, r, Written, active), Sound PROVE Agree(s, y, r, active)
    <3>1. /\ \A q \in Written : old[q] = "active" => q = active
          /\ active \in Written => old[active] = "active" \/ (old[active] = "inactive" /\ OtherOwes(s))
      BY <1>1, <1>3, <1>4, <1>7, <2>6, CopyAgrees
    <3>2. \A q \in Written : q \in Plans
      BY DEF Written
    <3>3. active \in Written => active # p
      BY <1>14, <3>1
    <3> QED BY <2>4, <2>6, <3>1, <3>2, <3>3 DEF Agree
  <2>7. ASSUME Sound PROVE "replace" \notin Steps(x.todo)
    BY <1>4, <2>7 DEF Sound, Knows
  <2>8. CASE confirmed[p] = "unknown"
    <3>1. GoOn(s, z)
      BY <1>4, <1>5, <1>7, <1>8, <1>14, <2>8 DEF Unarchive, My
    <3>2. ASSUME Sound PROVE Agree(s, z, r, active)
      <4>1. "replace" \notin Steps(z.todo)
        BY <1>6, <2>7, <3>2 DEF Onward
      <4>2. Knows(z, r, Written, active)
        BY <1>11, <4>1, KnowsNothing DEF Holding, Inner, Reads
      <4> QED BY <2>6, <3>2, <4>2
    <3> QED BY <1>1, <1>2, <1>5, <1>10, <2>3, <2>4, <2>5, <3>1, <3>2, Rewritten
  <2>9. CASE confirmed[p] # "unknown"
    <3>1. PICK y : y = [x EXCEPT !.was = confirmed[p], !.todo[1] = "conclude"]
      OBVIOUS
    <3>2. GoOn(s, y)
      BY <1>4, <1>7, <1>8, <1>14, <2>9, <3>1 DEF Unarchive, My
    <3>3. confirmed[p] \in Confirmed
      BY <1>3, <1>9 DEF Typed, TypedDisk
    <3>4. UNCHANGED <<lifecycleLock, registryLock>>
      BY <1>2 DEF locks
    <3>5. /\ y \in CallRecords /\ Turned(s, y) /\ First(y.todo) = "conclude"
          /\ \A e : e \in Steps(y.todo) <=> e = "conclude" \/ e \in Steps(z.todo)
          /\ y.reg = x.reg /\ y.seen = x.seen /\ y.cur = x.cur /\ y.target = x.target /\ y.plan = x.plan
      <4>1. PICK c : c = confirmed[p]
        OBVIOUS
      <4>0. PICK w : w = [act[s].todo EXCEPT ![1] = "conclude"]
        OBVIOUS
      <4>2. c \in Confirmed /\ WrittenBack(act[s], c, w, y)
        BY <1>4, <3>1, <3>3, <4>0, <4>1 DEF WrittenBack
      <4>3. UNCHANGED <<lifecycleLock, registryLock>>
        BY <3>4
      <4>4. Typed /\ Ordered
        BY <1>3
      <4>5. /\ y \in CallRecords /\ Turned(s, y) /\ First(y.todo) = "conclude"
            /\ \A e : e \in Steps(y.todo) <=> e = "conclude" \/ e \in Steps(Tail(act[s].todo))
            /\ y.reg = act[s].reg /\ y.seen = act[s].seen /\ y.cur = act[s].cur
            /\ y.target = act[s].target /\ y.plan = act[s].plan
        BY ONLY <1>1, <3>2, <4>2, <4>3, <4>4, s \in Sessions, ConcludeFirst
      <4>6. z.todo = Tail(act[s].todo)
        BY <1>4, <1>6 DEF Onward
      <4> QED BY <1>4, <4>5, <4>6
    <3>6. ASSUME Sound PROVE Agree(s, y, r, active)
      <4>1. "replace" \notin Steps(y.todo)
        BY <1>6, <2>7, <3>5, <3>6 DEF Onward
      <4>2. Knows(y, r, Written, active)
        BY <3>5, <4>1, KnowsNothing DEF Holding, Inner, Reads
      <4> QED BY <2>6, <3>6, <4>2
    <3>7. \A q \in Plans : Unborn(q) => registry'[q] = "absent" /\ active' # q /\ Unaware(y, q)
      <4> SUFFICES ASSUME NEW q \in Plans, Unborn(q) PROVE registry'[q] = "absent" /\ active' # q /\ Unaware(y, q)
        OBVIOUS
      <4>1. Unaware(x, q) /\ active # q /\ r[q] = "absent"
        BY <1>3, <1>4, <2>5 DEF Born
      <4>2. \A e \in {"mark", "content", "enter", "write", "succeed", "resolve"} : e \in Steps(y.todo) <=> e \in Steps(x.todo)
        BY <1>6, <3>5 DEF Onward
      <4>3. Unaware(y, q)
        BY <3>5, <4>1, <4>2 DEF Unaware
      <4> QED BY <2>3, <4>1, <4>3
    <3>8. TypedDisk' /\ TypedRest'
      BY <1>2, <1>3, <2>3, <2>4 DEF Typed, TypedDisk, TypedRest, locks, bounds
    <3>9. files' = files /\ active' = active /\ (overwritten => overwritten') /\ registryLock' = registryLock
      BY <1>2, <2>3, <3>4
    <3> QED BY <1>10, <2>3, <3>5, <3>6, <3>7, <3>8, <3>9, Loud
  <2> QED BY <2>8, <2>9
<1> QED BY <1>12, <1>13, <1>14

(* What a look leaves of the call: m is found active, and t is to be done. *)
Looked(x, m, t, y) == y = [x EXCEPT !.cur = m, !.todo = t]
ToDo(s, t, f) ==
  \/ t = Tail(act[s].todo) /\ f = First(Tail(act[s].todo))
  \/ t = <<"repair">> \o Tail(act[s].todo) /\ f = "repair"

(* A look goes on with the call, or with a repair before that; it finds a  *)
(* plan whose file was written, or none.                                   *)
LEMMA LookTurns ==
  ASSUME Typed, Ordered, Born, NEW s \in Sessions, Now(s) = "look", act[s].todo # <<>>,
         NEW m \in Plans \cup {None}, m \in Plans => ~Unborn(m), NEW y, NEW t, NEW f,
         ToDo(s, t, f),
         Looked(act[s], m, t, y), GoOn(s, y), UNCHANGED <<lifecycleLock, registryLock>>
  PROVE  /\ y \in CallRecords /\ Turned(s, y) /\ First(y.todo) = f
         /\ \A e : e \in Steps(Tail(act[s].todo)) => e \in Steps(y.todo)
         /\ \A e : e \in Steps(y.todo) => e = f \/ e \in Steps(Tail(act[s].todo))
         /\ y.reg = act[s].reg /\ y.seen = act[s].seen /\ y.cur = m
         /\ y.target = act[s].target /\ y.plan = act[s].plan
         /\ \A p \in Plans : Unborn(p) => Unaware(y, p)
<1>1. PICK x : x = act[s]
  OBVIOUS
<1>2. PICK q : q = Tail(x.todo)
  OBVIOUS
<1>3. PICK k : k = Kind(x.op)
  OBVIOUS
<1>4. /\ x \in CallRecords /\ x.op \in OpNames /\ q \in Seq(StepNames) /\ Steps(x.todo) = {"look"} \cup Steps(q)
      /\ Fits(k, "look", First(q), Steps(q)) /\ Shape(k, q)
  BY <1>1, <1>2, <1>3, Going DEF Left
<1>5. k \in {"whole", "save"}
  <2>1. k \in {"whole", "list", "save"}
    BY <1>3 DEF Kind
  <2> QED BY <1>4, <2>1 DEF Fits
<1>6. /\ First(q) \in {"unlock", "point", "succeed"} /\ First(q) \in Steps(q) /\ q # <<>>
      /\ Early \cap Steps(q) = {} /\ (k = "whole" => "lockRegistry" \notin Steps(q) /\ "lockLifecycle" \notin Steps(q))
  BY <1>4 DEF Fits, Anyhow, Inner, Reads, First
<1>7. Part(k, <<"repair">>, "repair", {"repair"}, First(q), Steps(q))
  <2>1. Fits(k, "repair", First(q), Steps(q))
    BY <1>4, <1>5, <1>6 DEF Fits, Anyhow, Early, Changing, Inner, Reads
  <2>2. "repair" \in StepNames
    BY DEF StepNames
  <2> QED BY <2>1, <2>2, RunOne
<1>8. t \in Seq(StepNames)
  <2>1. PICK c : c = <<"repair">>
    OBVIOUS
  <2>2. Shape(k, q) /\ q # <<>> /\ Part(k, c, "repair", {"repair"}, First(q), Steps(q))
    BY <1>4, <1>6, <1>7, <2>1
  <2>3. c \o q \in Seq(StepNames)
    BY ONLY <2>2, MorePart
  <2> QED BY <1>1, <1>2, <1>4, <2>1, <2>3 DEF ToDo
<1>9. /\ y \in CallRecords /\ y.todo = t /\ y.op = x.op /\ y.life = x.life
      /\ y.reg = x.reg /\ y.seen = x.seen /\ y.cur = m /\ y.target = x.target /\ y.plan = x.plan
  BY <1>1, <1>4, <1>8 DEF CallRecords, Looked
<1>10. LocksMove(s)
  BY DEF LocksMove
<1>11. /\ Turned(s, y) /\ First(y.todo) = f
       /\ \A e : e \in Steps(q) => e \in Steps(y.todo)
       /\ \A e : e \in Steps(y.todo) => e = f \/ e \in Steps(q)
  <2>1. CASE t = Tail(act[s].todo) /\ f = First(Tail(act[s].todo))
    <3>1. /\ y.op = act[s].op /\ y.plan = act[s].plan /\ y.target = act[s].target /\ y.life = act[s].life
          /\ y.todo = Tail(act[s].todo)
      BY <1>1, <1>9, <2>1
    <3>2. Turned(s, y)
      BY <1>9, <1>10, <3>1, Dones
    <3> QED BY <1>1, <1>2, <1>9, <2>1, <3>2
  <2>2. CASE t = <<"repair">> \o Tail(act[s].todo) /\ f = "repair"
    <3>1. PICK p : p = <<"repair">>
      OBVIOUS
    <3>2. PICK S : S = {"repair"}
      OBVIOUS
    <3>3. Part(Kind(act[s].op), p, f, S, First(Tail(act[s].todo)), Steps(Tail(act[s].todo)))
      BY <1>1, <1>2, <1>3, <1>7, <2>2, <3>1, <3>2
    <3>4. Tail(act[s].todo) # <<>> /\ y.todo = p \o Tail(act[s].todo)
      BY <1>1, <1>2, <1>6, <1>9, <2>2, <3>1
    <3>5. y.op = act[s].op /\ y.plan = act[s].plan /\ y.life = act[s].life
      BY <1>1, <1>9
    <3>6. Now(s) \in Inner \cup {"succeed", "replace"}
      BY DEF Inner, Reads
    <3>7. S \cap (Naming \cup {"enter"}) = {} /\ S \cap Targeting = {} /\ y.target = act[s].target
      BY <1>1, <1>9, <3>2 DEF Naming, Targeting
    <3>8. y \in CallRecords
      BY <1>9
    <3>9. /\ Turned(s, y) /\ First(y.todo) = f
          /\ \A e : e \in Steps(y.todo) <=> e \in S \/ e \in Steps(Tail(act[s].todo))
      <4>1. Typed /\ Ordered /\ GoOn(s, y) /\ UNCHANGED <<lifecycleLock, registryLock>>
        OBVIOUS
      <4> QED BY ONLY <3>3, <3>4, <3>5, <3>6, <3>7, <3>8, <4>1, s \in Sessions, Detour
    <3> QED BY <1>1, <1>2, <2>2, <3>2, <3>9
  <2> QED BY <2>1, <2>2 DEF ToDo
<1>12. ASSUME NEW p \in Plans, Unborn(p) PROVE Unaware(y, p)
  <2>1. Unaware(x, p) /\ p # m
    BY <1>1, <1>12 DEF Born
  <2>2. \A e \in {"mark", "content", "enter", "write", "succeed", "resolve"} : e \in Steps(y.todo) => e \in Steps(x.todo)
    <3>1. f = "repair" \/ f \in Steps(q)
      BY <1>1, <1>2, <1>6 DEF ToDo
    <3> QED BY <1>4, <1>11, <3>1
  <2>3. "content" \notin Steps(x.todo) /\ "write" \notin Steps(x.todo) /\ "resolve" \notin Steps(x.todo)
    BY <1>4, <1>6 DEF Early
  <2> QED BY <1>9, <2>1, <2>2, <2>3 DEF Unaware
<1> QED BY <1>1, <1>2, <1>9, <1>11, <1>12

(* What a look finds agrees with the registry, if it repairs what does not. *)
LEMMA LookAgrees ==
  ASSUME Typed, Ordered, Sound, NEW s \in Sessions, Now(s) = "look",
         NEW m \in Plans \cup {None}, NEW y,
         \A e : e \in Steps(y.todo) => e = "repair" \/ e \in Left(s),
         First(y.todo) \in {"unlock", "point", "succeed", "repair"},
         y.reg = act[s].reg, y.seen = act[s].seen, y.cur = m, y.target = act[s].target, y.plan = act[s].plan,
         First(y.todo) # "repair" /\ m \in Written => registry[m] = "active",
         First(y.todo) = "repair" => m \in Plans /\ registry[m] \notin Settled,
         \A p \in Written : registry[p] = "active" => p = m,
         "succeed" \in Left(s) => m # act[s].plan
  PROVE  Agree(s, y, registry, m)
<1>1. PICK x : x = act[s]
  OBVIOUS
<1>2. First(x.todo) = "look" /\ Knows(x, registry, Written, active)
  BY <1>1 DEF Sound, Now
<1>3. Close(x.seen, registry, Written) /\ "replace" \notin Steps(x.todo)
  BY <1>2 DEF Knows, Fresh
<1>4. "mark" \in Steps(x.todo) => /\ Keeps(x.reg, registry) /\ x.reg[x.target] \notin Settled
                                  /\ \A p \in Plans : x.seen[p] \in Settled => x.reg[p] = x.seen[p]
  BY <1>2 DEF Knows, Inner, Reads
<1>5. \A p \in Written : x.seen[p] = "active" => p = m
  BY <1>3 DEF Close
<1>6. "mark" \in Steps(y.todo) => "mark" \in Steps(x.todo)
  BY <1>1 DEF Left
<1>7. "succeed" \in Steps(y.todo) => m # y.plan
  BY <1>1 DEF Left
<1>8. "replace" \notin Steps(y.todo)
  BY <1>1, <1>3 DEF Left
<1>9. Knows(y, registry, Written, m)
  <2>1. First(y.todo) = "repair" =>
          /\ Close(y.seen, registry, Written) /\ y.cur = m /\ (m \in Plans => registry[m] \notin Settled)
          /\ \A p \in Written : y.seen[p] = "active" => p = m
    BY <1>1, <1>3, <1>5
  <2>2. "mark" \in Steps(y.todo) =>
          /\ Keeps(y.reg, registry) /\ y.reg[y.target] \notin Settled
          /\ \A p \in Plans : y.seen[p] \in Settled => y.reg[p] = y.seen[p]
    BY <1>1, <1>4, <1>6
  <2>3. ~Leaving(y) /\ First(y.todo) \notin {"check", "promote", "archive", "unarchive", "enter", "look", "mark"}
    BY DEF Leaving
  <2> QED BY <1>7, <1>8, <2>1, <2>2, <2>3 DEF Knows
<1> QED BY <1>9 DEF Agree

(* Unless a call is about to mark or to repair, the plan that the registry *)
(* has as active is the one of the active-plan file, and a look finds the  *)
(* archived plan it is called for archived.                                *)
LEMMA LookKnows ==
  ASSUME Typed, Ordered, Sound, NEW s \in Sessions, Now(s) = "look"
  PROVE  /\ \A p \in Written : registry[p] = "active" => p = active
         /\ active \in Written => registry[active] # "draft"
         /\ Fresh(act[s].seen, registry, Written, active)
         /\ "succeed" \in Left(s) => act[s].plan \in Plans /\ (act[s].plan \in Written => registry[act[s].plan] = "archived")
<1>1. Now(s) \in Holding /\ Now(s) \notin {"mark", "repair"}
  BY DEF Holding, Inner, Reads
<1>2. \A p \in Written : registry[p] = "active" => p = active \/ Now(s) = "mark"
  BY <1>1, Reasons
<1>3. active \in Written =>
              \/ registry[active] = "active"
              \/ registry[active] = "inactive" /\ (OtherOwes(s) \/ Owing(act[s]))
              \/ Now(s) \in {"repair", "mark"}
              \/ registry[active] = "archived" /\ Leaving(act[s]) /\ act[s].plan = active
  BY <1>1, Reasons
<1>4. Knows(act[s], registry, Written, active) /\ First(act[s].todo) = "look"
  BY DEF Sound, Now
<1>5. ASSUME "succeed" \in Left(s)
      PROVE  act[s].plan \in Plans /\ (act[s].plan \in Written => registry[act[s].plan] = "archived")
  <2>1. Leaving(act[s])
    BY <1>4, <1>5 DEF Leaving, Left
  <2>2. act[s].plan \in Plans
    BY <1>5 DEF Ordered, Fitting, Belongs, Naming, Left
  <2> QED BY <1>4, <2>1, <2>2 DEF Knows
<1>6. Fresh(act[s].seen, registry, Written, active)
  BY <1>4 DEF Knows
<1> QED BY <1>1, <1>2, <1>3, <1>5, <1>6

(* What a look finds: m is active then, and f is what the call does next.  *)
LookDoes(s, m, f, y) ==
  \E t : /\ ToDo(s, t, f) /\ Looked(act[s], m, t, y) /\ GoOn(s, y)
         /\ active' = m /\ (m \in Plans => There(m))

(* The active plan is still good, or another one or none takes its place.  *)
LookStays(s, m, f) ==
  /\ m = active /\ m \in Plans /\ act[s].seen[m] # "archived"
  /\ f # "repair" => act[s].seen[m] \in {"active", "absent"}
LookMoves(s, m, f) ==
  /\ active \in Written => act[s].seen[active] = "archived"
  /\ f # "repair" => m = None
  /\ f = "repair" => m \in Plans /\ m # active /\ act[s].seen[m] \in {"active", "inactive"}

(* There is no other outcome of a look.                                    *)
LEMMA LookCases ==
  ASSUME Typed, Ordered, NEW s \in Sessions, Look(s)
  PROVE  \E m \in Plans \cup {None} : \E f, y :
           LookDoes(s, m, f, y) /\ (LookStays(s, m, f) \/ LookMoves(s, m, f))
<1>1. PICK x : x = act[s]
  OBVIOUS
<1>2. PICK q : q = Tail(x.todo)
  OBVIOUS
<1>3. PICK next : next = Candidates(x.seen, active)
  OBVIOUS
<1>4. active \in Plans \cup {None} /\ \A p \in Plans : p # None
  BY PlansAssumption DEF Typed, TypedDisk, None
<1>7. First(q) # "repair"
  <2>1. Now(s) = "look" /\ act[s].todo # <<>>
    BY AtNow DEF Look
  <2> QED BY <1>1, <1>2, <2>1, Going DEF Fits, Anyhow
<1>5. CASE active # None /\ x.seen[active] # "archived" /\ There(active)
  <2>1. CASE x.seen[active] \in {"active", "absent"}
    <3>1. PICK y : y = [x EXCEPT !.cur = active, !.todo = q]
      OBVIOUS
    <3>2. GoOn(s, [x EXCEPT !.cur = active, !.todo = <<>> \o q]) /\ active' = active
      BY <1>1, <1>2, <1>5, <2>1 DEF Look, My
    <3>3. <<>> \o q = q
      OBVIOUS
    <3>4. LookDoes(s, active, First(q), y)
      <4>1. GoOn(s, y)
        BY <3>1, <3>2, <3>3
      <4>2. Looked(act[s], active, q, y)
        BY <1>1, <3>1 DEF Looked
      <4> QED BY <1>1, <1>2, <1>5, <3>2, <4>1, <4>2 DEF LookDoes, ToDo
    <3>5. active \in Plans /\ LookStays(s, active, First(q))
      BY <1>1, <1>4, <1>5, <2>1 DEF LookStays
    <3> QED BY <3>4, <3>5
  <2>2. CASE x.seen[active] \notin {"active", "absent"}
    <3>1. PICK t : t = <<"repair">> \o q
      OBVIOUS
    <3>2. PICK y : y = [x EXCEPT !.cur = active, !.todo = t]
      OBVIOUS
    <3>3. GoOn(s, y) /\ active' = active
      BY <1>1, <1>2, <1>5, <2>2, <3>1, <3>2 DEF Look, My
    <3>4. Looked(act[s], active, t, y)
      BY <1>1, <3>2 DEF Looked
    <3>5. LookDoes(s, active, "repair", y)
      BY <1>1, <1>2, <1>5, <3>1, <3>3, <3>4 DEF LookDoes, ToDo
    <3>6. active \in Plans /\ LookStays(s, active, "repair")
      BY <1>1, <1>4, <1>5 DEF LookStays
    <3> QED BY <3>5, <3>6
  <2> QED BY <2>1, <2>2
<1>6. CASE ~(active # None /\ x.seen[active] # "archived" /\ There(active))
  <2>1. active \in Written => x.seen[active] = "archived"
    BY <1>4, <1>6 DEF Written
  <2>2. CASE next = {} \/ ~There(Newest(next))
    <3>1. PICK y : y = [x EXCEPT !.cur = None, !.todo = q]
      OBVIOUS
    <3>2. GoOn(s, y) /\ active' = None
      BY <1>1, <1>2, <1>3, <1>6, <2>2, <3>1 DEF Look, My, Done
    <3>3. Looked(act[s], None, q, y)
      BY <1>1, <3>1 DEF Looked
    <3>4. LookDoes(s, None, First(q), y)
      BY <1>1, <1>2, <1>4, <3>2, <3>3 DEF LookDoes, ToDo
    <3>5. LookMoves(s, None, First(q))
      BY <1>1, <2>1, <1>7 DEF LookMoves
    <3> QED BY <3>4, <3>5
  <2>3. CASE ~(next = {} \/ ~There(Newest(next)))
    <3>1. PICK m : m = Newest(next)
      OBVIOUS
    <3>2. next \in SUBSET Plans /\ next # {}
      BY <1>3, <2>3 DEF Candidates
    <3>3. m \in next
      BY <3>1, <3>2, NewestIn
    <3>4. m \in Plans /\ m # active /\ x.seen[m] \in {"active", "inactive"}
      BY <1>3, <3>3 DEF Candidates
    <3>5. PICK t : t = <<"repair">> \o q
      OBVIOUS
    <3>6. PICK y : y = [x EXCEPT !.cur = m, !.todo = t]
      OBVIOUS
    <3>7. GoOn(s, y) /\ active' = m /\ There(m)
      BY <1>1, <1>2, <1>3, <1>6, <2>3, <3>1, <3>5, <3>6 DEF Look, My
    <3>8. Looked(act[s], m, t, y)
      BY <1>1, <3>6 DEF Looked
    <3>9. LookDoes(s, m, "repair", y)
      BY <1>1, <1>2, <3>5, <3>7, <3>8 DEF LookDoes, ToDo
    <3>10. LookMoves(s, m, "repair")
      BY <1>1, <2>1, <3>4 DEF LookMoves
    <3> QED BY <3>4, <3>9, <3>10
  <2> QED BY <2>2, <2>3
<1> QED BY <1>5, <1>6

(* A look finds the plan that is active, or makes another one active.      *)
LEMMA LookKeeps ==
  ASSUME Inv, NEW s \in Sessions, Look(s)
  PROVE  Inv'
<1>1. Now(s) = "look" /\ act[s].todo # <<>>
  BY AtNow DEF Look
<1>2. UNCHANGED <<files, registry, confirmed, locks, overwritten, bounds>>
  BY DEF Look
<1>3. Typed /\ Ordered /\ Born
  BY DEF Inv
<1>0. PICK m \in Plans \cup {None} : \E f, y : LookDoes(s, m, f, y) /\ (LookStays(s, m, f) \/ LookMoves(s, m, f))
  BY <1>3, LookCases
<1>4. PICK f, y : LookDoes(s, m, f, y) /\ (LookStays(s, m, f) \/ LookMoves(s, m, f))
  BY <1>0
<1>5. PICK t : /\ ToDo(s, t, f) /\ Looked(act[s], m, t, y) /\ GoOn(s, y)
               /\ active' = m /\ (m \in Plans => There(m))
  BY <1>4 DEF LookDoes
<1>6. /\ UNCHANGED <<lifecycleLock, registryLock>>
      /\ m \in Plans => ~Unborn(m)
  BY <1>2, <1>5 DEF locks, There, Unborn
<1>7. /\ y \in CallRecords /\ Turned(s, y) /\ First(y.todo) = f
      /\ \A e : e \in Steps(Tail(act[s].todo)) => e \in Steps(y.todo)
      /\ \A e : e \in Steps(y.todo) => e = f \/ e \in Steps(Tail(act[s].todo))
      /\ y.reg = act[s].reg /\ y.seen = act[s].seen /\ y.cur = m
      /\ y.target = act[s].target /\ y.plan = act[s].plan
      /\ \A p \in Plans : Unborn(p) => Unaware(y, p)
  <2>1. ToDo(s, t, f)
    BY <1>5
  <2>2. Looked(act[s], m, t, y) /\ GoOn(s, y) /\ Typed /\ Ordered /\ Born
    BY <1>3, <1>5
  <2>3. s \in Sessions /\ m \in Plans \cup {None}
    BY <1>0
  <2> QED BY ONLY <1>1, <1>6, <2>1, <2>2, <2>3, LookTurns
<1>8. /\ Left(s) = {"look"} \cup Steps(Tail(act[s].todo))
      /\ First(Tail(act[s].todo)) \in {"unlock", "point", "succeed"}
      /\ First(Tail(act[s].todo)) \in Steps(Tail(act[s].todo))
  BY <1>1, <1>3, Going DEF Fits, Anyhow
<1>9. /\ f \in {"unlock", "point", "succeed", "repair"}
      /\ \A e : e \in Steps(y.todo) => e = "repair" \/ e \in Left(s)
  BY <1>5, <1>7, <1>8 DEF ToDo
<1>10. TypedDisk' /\ TypedRest'
  BY <1>2, <1>3, <1>5 DEF Typed, TypedDisk, TypedRest, locks, bounds
<1>11. \A p \in Plans : Unborn(p) => registry'[p] = "absent" /\ active' # p /\ Unaware(y, p)
  BY <1>2, <1>3, <1>5, <1>6, <1>7 DEF Born
<1>12. ASSUME Sound PROVE Agree(s, y, registry, m)
  <2>1. /\ \A p \in Written : registry[p] = "active" => p = active
        /\ active \in Written => registry[active] # "draft"
        /\ Fresh(act[s].seen, registry, Written, active)
        /\ "succeed" \in Left(s) => act[s].plan \in Plans /\ (act[s].plan \in Written => registry[act[s].plan] = "archived")
    BY <1>1, <1>3, <1>12, LookKnows
  <2>2. \A p : p \in Written <=> p \in Plans /\ There(p)
    BY DEF Written
  <2>3. None \notin Plans
    BY PlansAssumption DEF None
  <2>4. PICK seen : seen = act[s].seen
    OBVIOUS
  <2>5. /\ \A p \in Plans : registry[p] \in Settled => seen[p] = registry[p]
        /\ \A p \in Written : seen[p] = registry[p] \/ {seen[p], registry[p]} \subseteq {"absent", "inactive"}
        /\ active \in Written => seen[active] # "absent"
    BY <2>1, <2>4 DEF Fresh, Close, Keeps
  <2>6. /\ f # "repair" /\ m \in Written => registry[m] = "active"
        /\ f = "repair" => m \in Plans /\ registry[m] \notin Settled
        /\ \A p \in Written : registry[p] = "active" => p = m
    <3>1. CASE m = active /\ m \in Plans /\ seen[m] # "archived" /\ (f # "repair" => seen[m] \in {"active", "absent"})
      <4>1. active \in Written
        BY <1>5, <2>2, <3>1
      <4>2. registry[m] # "draft" /\ registry[m] # "archived"
        BY <2>1, <2>5, <3>1, <4>1 DEF Settled
      <4>3. f # "repair" => registry[m] = "active"
        BY <2>5, <3>1, <4>1
      <4> QED BY <2>1, <3>1, <4>2, <4>3 DEF Settled
    <3>2. CASE /\ active \in Written => seen[active] = "archived"
               /\ f # "repair" => m = None
               /\ f = "repair" => m \in Plans /\ m # active /\ seen[m] \in {"active", "inactive"}
      <4>1. \A p \in Written : registry[p] # "active"
        BY <2>1, <2>5, <3>2
      <4>2. f = "repair" => registry[m] \notin Settled
        BY <2>5, <3>2 DEF Settled
      <4> QED BY <2>2, <2>3, <3>2, <4>1, <4>2
    <3> QED BY <1>4, <2>4, <3>1, <3>2 DEF LookStays, LookMoves
  <2>7. "succeed" \in Left(s) => m # act[s].plan
    <3> SUFFICES ASSUME "succeed" \in Left(s), m = act[s].plan PROVE FALSE
      OBVIOUS
    <3>1. m \in Written /\ registry[m] = "archived"
      BY <1>5, <2>1, <2>2
    <3> QED BY <2>6, <3>1 DEF Settled
  <2>8. First(y.todo) = f
    BY <1>7
  <2> QED BY <1>1, <1>3, <1>7, <1>9, <1>12, <2>6, <2>7, <2>8, LookAgrees
<1>13. Now(s) \in Holding
  BY <1>1 DEF Holding, Inner, Reads
<1>14. files' = files /\ (overwritten => overwritten') /\ registryLock' = registryLock /\ registry = registry' /\ m = active'
  BY <1>2, <1>5, <1>6
<1> QED BY <1>7, <1>10, <1>11, <1>12, <1>13, <1>14, Loud

(* An update enters what its plan is to be: if it then is the active one   *)
(* and marked as inactive, the save owes a look at it.                     *)
LEMMA EnterKeeps ==
  ASSUME Inv, NEW s \in Sessions, Enter(s)
  PROVE  Inv'
<1>1. Now(s) = "enter" /\ act[s].todo # <<>>
  BY AtNow DEF Enter
<1>2. UNCHANGED <<files, active, confirmed, locks, bounds>> /\ GoOn(s, Done(s))
  BY DEF Enter, WriteRegistry
<1>3. Typed /\ Ordered /\ Born
  BY DEF Inv
<1>4. PICK x : x = act[s]
  OBVIOUS
<1>5. PICK z : z = Done(s)
  OBVIOUS
<1>6. Onward(s, x, z, "enter", Kind(x.op))
  BY <1>1, <1>3, <1>4, <1>5, DoneOnward
<1>7. PICK old : old = x.reg
  OBVIOUS
<1>8. PICK p : p = x.target
  OBVIOUS
<1>9. Belongs(x, Steps(x.todo)) /\ "enter" \in Steps(x.todo)
  BY <1>1, <1>3, <1>4, Going DEF Left
<1>10. old \in [Plans -> Lifecycle] /\ p \in Plans /\ x.life \in {"inactive", "draft", "active"}
  <2>1. p \in Plans /\ x.life \in {"inactive", "draft", "active"}
    BY <1>8, <1>9 DEF Belongs, Targeting
  <2> QED BY <1>6, <1>7, <2>1 DEF Onward, CallRecords
<1>11. PICK r : r = [old EXCEPT ![p] = x.life]
  OBVIOUS
<1>12. registry' = r
  BY <1>4, <1>7, <1>8, <1>11 DEF Enter, WriteRegistry, My
<1>13. r \in [Plans -> Lifecycle] /\ r[p] = x.life /\ \A q \in Plans : q # p => r[q] = old[q]
  <2>1. PICK v : v = x.life
    OBVIOUS
  <2>2. v \in Lifecycle /\ r = [old EXCEPT ![p] = v]
    BY <1>10, <1>11, <2>1 DEF Lifecycle
  <2> QED BY <1>10, <2>1, <2>2, OneChanged
<1>14. /\ Steps(x.todo) = {"enter"} \cup Steps(z.todo) /\ Early \cap Steps(z.todo) = {}
       /\ First(z.todo) = "unlock"
  BY <1>6 DEF Onward, Fits, Anyhow
<1>15. ASSUME NEW q \in Plans, Unborn(q) PROVE r[q] = "absent"
  <2>1. Unaware(x, q)
    BY <1>3, <1>4, <1>15 DEF Born
  <2>2. "write" \notin Steps(x.todo)
    BY <1>14 DEF Early
  <2>3. q # p /\ old[q] = "absent"
    BY <1>7, <1>8, <1>9, <2>1, <2>2 DEF Unaware
  <2> QED BY <1>13, <2>3
<1>16. Now(s) \in Holding
  BY <1>1 DEF Holding
<1>17. ASSUME Sound, ~overwritten' PROVE Agree(s, z, r, active)
  <2>1. old[p] \in Expected(x) /\ ~(x.life = "draft" /\ active = p) /\ ~overwritten
    <3>1. overwritten' = (\/ overwritten \/ x.reg[x.target] \notin Expected(x)
                          \/ x.life = "draft" /\ active = x.target)
      BY <1>4 DEF Enter, My
    <3> QED BY <1>7, <1>8, <1>17, <3>1
  <2>2. /\ \A q \in Written : old[q] = "active" => q = active
        /\ active \in Written => old[active] = "active" \/ (old[active] = "inactive" /\ OtherOwes(s))
    BY <1>1, <1>3, <1>4, <1>7, <1>17, CopyAgrees
  <2>3. \A q \in Written : q \in Plans
    BY DEF Written
  <2>4. x.life = "active" => old[p] = "active"
    BY <2>1 DEF Expected
  <2>5. \A q \in Written : r[q] = "active" => q = active
    BY <1>13, <2>2, <2>3, <2>4
  <2>6. ASSUME active \in Written, active = p, x.life = "inactive" PROVE OtherOwes(s) \/ Owing(z)
    <3>1. CASE x.op = "saveActive"
      <4>1. {"again", "look"} \subseteq Steps(x.todo)
        BY <1>9, <2>6, <3>1 DEF Belongs
      <4>2. {"again", "look"} \subseteq Steps(z.todo) /\ "enter" \notin Steps(z.todo)
        BY <1>14, <4>1 DEF Early
      <4> QED BY <4>2 DEF Owing
    <3>2. CASE x.op # "saveActive"
      <4>1. old[p] \in {"absent", "inactive"}
        BY <2>1, <2>6, <3>2 DEF Expected
      <4> QED BY <2>2, <2>6, <4>1
    <3> QED BY <3>1, <3>2
  <2>7. active \in Written => r[active] = "active" \/ (r[active] = "inactive" /\ (OtherOwes(s) \/ Owing(z)))
    <3> SUFFICES ASSUME active \in Written
                 PROVE  r[active] = "active" \/ (r[active] = "inactive" /\ (OtherOwes(s) \/ Owing(z)))
      OBVIOUS
    <3>1. CASE active # p
      BY <1>13, <2>2, <2>3, <3>1
    <3>2. CASE active = p
      BY <1>10, <1>13, <2>1, <2>6, <3>2
    <3> QED BY <3>1, <3>2
  <2>8. "replace" \notin Steps(z.todo)
    BY <1>4, <1>14, <1>17 DEF Sound, Knows
  <2>9. Knows(z, r, Written, active)
    BY <1>14, <2>8, KnowsNothing DEF Holding, Inner, Reads
  <2> QED BY <2>5, <2>7, <2>9 DEF Agree
<1>18. overwritten => overwritten'
  BY DEF Enter
<1> QED BY <1>1, <1>2, <1>5, <1>12, <1>13, <1>15, <1>16, <1>17, <1>18, Rewritten

(* What calls know when a file has been written that was not there before: *)
(* none of them speaks of its plan.                                        *)
LEMMA KnowsBirth ==
  ASSUME Typed, Ordered, Born, Sound, NEW p \in Plans, Unborn(p), NEW there,
         \A q : q \in there <=> q \in Written \/ q = p, NEW t \in Sessions
  PROVE  Knows(act[t], registry, there, active)
<1>1. PICK x : x = act[t]
  OBVIOUS
<1>2. Unaware(x, p) /\ registry[p] = "absent" /\ active # p
  BY <1>1 DEF Born
<1>3. Knows(x, registry, Written, active)
  BY <1>1 DEF Sound
<1>4. ASSUME Leaving(x) PROVE x.plan # p
  <2>1. x.todo # <<>> /\ Now(t) \in Inner /\ "succeed" \in Steps(x.todo)
    BY <1>1, <1>4 DEF Leaving, First, Inner, Reads, Now
  <2>2. Early \cap Steps(Tail(x.todo)) = {} /\ Steps(x.todo) = {Now(t)} \cup Steps(Tail(x.todo))
    BY <1>1, <2>1, Going DEF Fits, Left
  <2>3. "resolve" \notin Steps(x.todo)
    BY <2>1, <2>2 DEF Early, Inner, Reads
  <2> QED BY <1>2, <2>1, <2>3 DEF Unaware
<1>5. \A r : r[p] = "absent" =>
        /\ Close(r, registry, Written) => Close(r, registry, there)
        /\ Fresh(r, registry, Written, active) => Fresh(r, registry, there, active)
  <2> SUFFICES ASSUME NEW r, r[p] = "absent"
               PROVE  /\ Close(r, registry, Written) => Close(r, registry, there)
                      /\ Fresh(r, registry, Written, active) => Fresh(r, registry, there, active)
    OBVIOUS
  <2>1. Close(r, registry, Written) => Close(r, registry, there)
    BY <1>2 DEF Close
  <2> QED BY <1>2, <2>1 DEF Fresh
<1>6. x.reg[p] = "absent" /\ x.seen[p] = "absent"
  BY <1>2 DEF Unaware
<1>7. First(x.todo) \in {"check", "promote", "archive", "unarchive", "enter"} => Fresh(x.reg, registry, there, active)
  BY <1>3, <1>5, <1>6 DEF Knows
<1>8. First(x.todo) = "look" => Fresh(x.seen, registry, there, active)
  BY <1>3, <1>5, <1>6 DEF Knows
<1>9. First(x.todo) = "repair" =>
        /\ Close(x.seen, registry, there) /\ x.cur = active /\ (active \in Plans => registry[active] \notin Settled)
        /\ \A q \in there : x.seen[q] = "active" => q = active
  BY <1>3, <1>5, <1>6 DEF Knows
<1>10. Leaving(x) /\ x.plan \in there => registry[x.plan] = "archived"
  BY <1>3, <1>4 DEF Knows
<1>11. Knows(x, registry, there, active)
  BY <1>3, <1>7, <1>8, <1>9, <1>10 DEF Knows
<1> QED BY <1>1, <1>11

(* Why the entry of the active plan may say something else.                *)
Reason ==
  \/ registry[active] = "active"
  \/ registry[active] = "inactive" /\ \E s \in Sessions : Owing(act[s])
  \/ \E s \in Sessions : Now(s) \in {"repair", "mark"}
  \/ registry[active] = "archived" /\ \E s \in Sessions : Leaving(act[s]) /\ act[s].plan = active

(* A new file changes nothing of the agreement, and a call that has        *)
(* written it owes what it owed.                                           *)
LEMMA BirthKeeps ==
  ASSUME Inv, NEW s \in Sessions, Now(s) = "write", act[s].todo # <<>>, NEW p \in Plans, Unborn(p),
         NEW y \in CallRecords, Turned(s, y), NEW z, z = Done(s), y.todo = z.todo,
         files' = [files EXCEPT ![p] = "there"], registry' = registry, active' = active,
         overwritten => overwritten', registryLock' = registryLock,
         "replace" \notin Steps(act[s].todo) \/ ~Sound, First(y.todo) \notin Holding,
         Steps(act[s].todo) = {"write"} \cup Steps(y.todo)
  PROVE  Data'
<1>1. Typed /\ Ordered /\ Born /\ Data
  BY DEF Inv
<1> SUFFICES ASSUME ~overwritten', registryLock' # "left"
             PROVE  Sound'
  BY DEF Data
<1>2. Sound
  BY <1>1 DEF Data
<1>3. PICK there : there = Written \cup {p}
  OBVIOUS
<1>4. Written' = there
  BY <1>1, <1>3 DEF Written, There, Typed, TypedDisk
<1>5. \A t \in Sessions : Knows(act[t], registry, there, active)
  BY <1>1, <1>2, <1>3, KnowsBirth
<1>6. Knows(y, registry, there, active)
  BY <1>2, KnowsNothing
<1>7. \A t \in Sessions : Knows(act'[t], registry, there, active)
  BY <1>5, <1>6, SessionsKnow
<1>8. registry[p] = "absent" /\ active # p
  BY <1>1 DEF Born
<1>9. First(act[s].todo) = "write" /\ Now(s) \notin {"repair", "mark"} /\ ~Leaving(act[s])
  BY DEF Now, Leaving
<1>10. Owing(act[s]) => Owing(y)
  BY <1>9, OwingDone
<1>11. \A t \in Sessions : Now(t) \in {"repair", "mark"} => Now(t)' = Now(t)
  BY <1>9, ReasonsStay
<1>12. \A t \in Sessions : Owing(act[t]) => Owing(act'[t])
  BY <1>10, ReasonsStay
<1>13. \A t \in Sessions : Leaving(act[t]) => Leaving(act'[t]) /\ act'[t].plan = act[t].plan
  BY <1>9, ReasonsStay
<1>14. Half'
  <2>1. \A q \in Written : registry[q] = "active" => q = active \/ \E t \in Sessions : Now(t) = "mark"
    BY <1>2 DEF Sound, Half
  <2> QED BY <1>3, <1>4, <1>8, <1>11, <2>1 DEF Half
<1>15. active \in there => Reason
  BY <1>2, <1>3, <1>8 DEF Sound, Rest, Reason
<1>16. Reason => Reason'
  <2>1. CASE registry[active] = "active"
    BY <2>1 DEF Reason
  <2>2. CASE registry[active] = "inactive" /\ \E t \in Sessions : Owing(act[t])
    BY <1>12, <2>2 DEF Reason
  <2>3. CASE \E t \in Sessions : Now(t) \in {"repair", "mark"}
    BY <1>11, <2>3 DEF Reason
  <2>4. CASE registry[active] = "archived" /\ \E t \in Sessions : Leaving(act[t]) /\ act[t].plan = active
    BY <1>13, <2>4 DEF Reason
  <2> QED BY <2>1, <2>2, <2>3, <2>4 DEF Reason
<1>17. Rest'
  BY <1>4, <1>15, <1>16 DEF Rest, Reason
<1> QED BY <1>4, <1>7, <1>14, <1>17 DEF Sound

(* A save writes its plan's file, a new one or one that is there.          *)
LEMMA WriteKeeps ==
  ASSUME Inv, NEW s \in Sessions, Write(s)
  PROVE  Inv'
<1>1. Now(s) = "write" /\ act[s].todo # <<>>
  BY AtNow DEF Write
<1>2. UNCHANGED <<registry, active, confirmed, locks, bounds>> /\ GoOn(s, Done(s))
  BY DEF Write
<1>3. Typed /\ Ordered /\ Born
  BY DEF Inv
<1>4. PICK x : x = act[s]
  OBVIOUS
<1>5. PICK z : z = Done(s)
  OBVIOUS
<1>6. Onward(s, x, z, "write", Kind(x.op))
  BY <1>1, <1>3, <1>4, <1>5, DoneOnward
<1>7. PICK p : p = x.target
  OBVIOUS
<1>8. p \in Plans
  <2>1. Belongs(x, Steps(x.todo)) /\ "write" \in Steps(x.todo)
    BY <1>1, <1>3, <1>4, Going DEF Left
  <2> QED BY <1>7, <2>1 DEF Belongs, Targeting
<1>9. files' = [files EXCEPT ![p] = "there"] /\ overwritten' = (overwritten \/ files[p] = "gone")
  BY <1>4, <1>7 DEF Write, My
<1>10. /\ Steps(x.todo) = {"write"} \cup Steps(z.todo) /\ First(z.todo) \in {"lockRegistry", "lockLifecycle"}
       /\ z \in CallRecords /\ z.todo = Tail(x.todo) /\ z.op = x.op /\ z.plan = x.plan /\ z.target = p
       /\ z.life = x.life /\ z.reg = x.reg /\ z.seen = x.seen /\ z.cur = x.cur
  BY <1>6, <1>7 DEF Onward, Fits, Anyhow
<1>11. LocksMove(s) /\ registryLock' = registryLock
  BY <1>1, <1>2 DEF LocksMove, locks
<1>12. Turned(s, z)
  BY <1>1, <1>2, <1>3, <1>4, <1>5, <1>7, <1>10, <1>11, Dones
<1>13. files' \in [Plans -> {"future", "there", "gone"}] /\ files'[p] = "there" /\ \A q \in Plans : q # p => files'[q] = files[q]
  BY <1>3, <1>8, <1>9 DEF Typed, TypedDisk
<1>14. TypedDisk' /\ TypedRest'
  BY <1>2, <1>3, <1>13 DEF Typed, TypedDisk, TypedRest, locks, bounds
<1>15. ASSUME NEW q \in Plans, files'[q] = "future"
       PROVE  files[q] = "future" /\ registry'[q] = "absent" /\ active' # q /\ Unaware(z, q)
  <2>1. q # p /\ files[q] = "future"
    BY <1>13, <1>15
  <2>2. Unaware(x, q) /\ registry[q] = "absent" /\ active # q
    BY <1>3, <1>4, <2>1 DEF Born, Unborn
  <2>3. \A e : e # "write" => (e \in Steps(z.todo) <=> e \in Steps(x.todo))
    BY <1>10
  <2>4. Unaware(z, q)
    BY <1>10, <2>1, <2>2, <2>3 DEF Unaware
  <2> QED BY <1>2, <2>1, <2>2, <2>4
<1>16. overwritten => overwritten'
  BY <1>9
<1>17. First(z.todo) \notin Holding
  BY <1>10 DEF Holding, Inner, Reads
<1>18. "replace" \notin Steps(x.todo) \/ ~Sound
  BY <1>4 DEF Sound, Knows
<1>19. files[p] \in {"future", "there", "gone"}
  BY <1>3, <1>8 DEF Typed, TypedDisk
<1>20. CASE files[p] = "gone"
  <2>1. overwritten'
    BY <1>9, <1>20
  <2> QED BY <1>10, <1>12, <1>14, <1>15, <2>1, Broken
<1>21. CASE files[p] = "future"
  <2>1. Unborn(p)
    BY <1>21 DEF Unborn
  <2>2. "replace" \notin Steps(act[s].todo) \/ ~Sound
    BY <1>4, <1>18
  <2>3. Steps(act[s].todo) = {"write"} \cup Steps(z.todo)
    BY <1>4, <1>10
  <2>4. Data'
    BY <1>1, <1>2, <1>5, <1>8, <1>9, <1>10, <1>11, <1>12, <1>16, <1>17, <2>1, <2>2, <2>3, BirthKeeps
  <2>5. Born'
    BY <1>3, <1>10, <1>12, <1>15, BornKept
  <2>6. Typed' /\ Ordered'
    BY <1>12, <1>14 DEF Typed, Turned
  <2> QED BY <2>4, <2>5, <2>6 DEF Inv
<1>22. CASE files[p] = "there"
  <2>1. files' = files
    BY <1>3, <1>9, <1>22 DEF Typed, TypedDisk
  <2>2. Syncs
    BY <1>2, <2>1 DEF Syncs
  <2>3. Now(s) \notin {"mark", "repair"} /\ ~Leaving(act[s])
    BY <1>1 DEF Leaving, Now
  <2>4. Owing(act[s]) => Owing(z)
    BY <1>1, <1>4, <1>10, OwingDone DEF Now
  <2>5. \A q \in Plans : Unborn(q) => Unaware(z, q)
    BY <1>15, <2>1 DEF Unborn
  <2>6. PICK now, there, a : now = registry' /\ there = Written' /\ a = active'
    OBVIOUS
  <2>7. Sound => Knows(z, now, there, a)
    BY <1>10, <1>17, <1>18, KnowsNothing
  <2>8. Sound /\ ~overwritten' => Knows(z, registry', Written', active')
    BY <2>6, <2>7
  <2> QED BY <1>10, <1>11, <1>12, <1>14, <1>16, <2>2, <2>3, <2>4, <2>5, <2>8, Quiet
<1> QED BY <1>19, <1>20, <1>21, <1>22

(* Calls know no less of fewer files.                                      *)
LEMMA KnowsFewer ==
  ASSUME NEW x, NEW now, NEW there, NEW fewer, \A q : q \in fewer => q \in there, NEW a,
         Knows(x, now, there, a)
  PROVE  Knows(x, now, fewer, a)
<1>1. \A r : /\ Close(r, now, there) => Close(r, now, fewer)
             /\ Fresh(r, now, there, a) => Fresh(r, now, fewer, a)
  <2> SUFFICES ASSUME NEW r
               PROVE  /\ Close(r, now, there) => Close(r, now, fewer)
                      /\ Fresh(r, now, there, a) => Fresh(r, now, fewer, a)
    OBVIOUS
  <2>1. Close(r, now, there) => Close(r, now, fewer)
    BY DEF Close
  <2> QED BY <2>1 DEF Fresh
<1> QED BY <1>1 DEF Knows

(* Plan files that come and go, with the calls where they were.            *)
LEMMA FilesKeep ==
  ASSUME Inv, UNCHANGED <<registry, active, act, lifecycleLock, registryLock, overwritten>>,
         TypedDisk', TypedRest', \A q \in Plans : files'[q] = "future" => Unborn(q),
         NEW there, there = Written', \A q \in there : q \in Written \/ (Unborn(q) /\ q \in Plans),
         Sound => \A t \in Sessions : Knows(act[t], registry, there, active)
  PROVE  Inv'
<1>1. Typed /\ Ordered /\ Born /\ Data
  BY DEF Inv
<1>2. Typed' /\ Ordered'
  BY <1>1 DEF Typed, Ordered
<1>3. Born'
  BY <1>1 DEF Born, Unborn
<1>4. Data'
  <2> SUFFICES ASSUME ~overwritten, registryLock # "left"
               PROVE  Sound'
    BY DEF Data
  <2>1. Sound
    BY <1>1 DEF Data
  <2>2. \A q \in there : q \in Written \/ (registry[q] = "absent" /\ q # active)
    BY <1>1 DEF Born
  <2>3. Half'
    <3>1. \A q \in there : registry[q] = "active" => q \in Written
      BY <2>2
    <3>2. \A q \in Written : registry[q] = "active" => q = active \/ \E t \in Sessions : Now(t) = "mark"
      BY <2>1 DEF Sound, Half
    <3>3. \A t \in Sessions : Now(t)' = Now(t)
      BY DEF Now
    <3> QED BY <3>1, <3>2, <3>3 DEF Half
  <2>4. Rest'
    <3>1. active \in there => Reason
      BY <2>1, <2>2 DEF Sound, Rest, Reason
    <3>2. Reason => Reason'
      BY DEF Reason, Now
    <3> QED BY <3>1, <3>2 DEF Rest, Reason
  <2>5. \A t \in Sessions : Knows(act'[t], registry', Written', active')
    BY <2>1
  <2> QED BY <2>3, <2>4, <2>5 DEF Sound
<1> QED BY <1>2, <1>3, <1>4 DEF Inv

(* Others write and delete plan files.                                     *)
LEMMA PlanFileKeeps ==
  ASSUME Inv, NEW p \in Plans, PlanFile(p)
  PROVE  Inv'
<1>1. Typed /\ Ordered /\ Born
  BY DEF Inv
<1>2. UNCHANGED <<registry, active, confirmed, locks, act, overwritten, calls, crashes>>
  BY DEF PlanFile
<1>3. PICK v : /\ files' = [files EXCEPT ![p] = v]
               /\ (files[p] = "future" /\ v = "there") \/ (files[p] = "there" /\ v = "gone")
  BY DEF PlanFile
<1>4. files' \in [Plans -> {"future", "there", "gone"}] /\ files'[p] = v /\ \A q \in Plans : q # p => files'[q] = files[q]
  BY <1>1, <1>3 DEF Typed, TypedDisk
<1>5. edits' \in 0..MaxEdits
  <2>1. edits > 0 /\ edits' = edits - 1 /\ edits \in 0..MaxEdits
    BY <1>1 DEF PlanFile, Typed, TypedRest
  <2> QED BY <2>1, CountDown, PlansAssumption
<1>6. TypedDisk' /\ TypedRest'
  BY <1>1, <1>2, <1>4, <1>5 DEF Typed, TypedDisk, TypedRest, locks
<1>7. \A q \in Plans : files'[q] = "future" => Unborn(q)
  BY <1>3, <1>4 DEF Unborn
<1>8. PICK there : there = Written'
  OBVIOUS
<1>9. \A q : q \in there <=> q \in Plans /\ files'[q] = "there"
  BY <1>8 DEF Written, There
<1>10. \A q : q \in Written <=> q \in Plans /\ files[q] = "there"
  BY DEF Written, There
<1>11. UNCHANGED <<registry, active, act, lifecycleLock, registryLock, overwritten>>
  BY <1>2 DEF locks
<1>12. CASE files[p] = "future" /\ v = "there"
  <2>1. \A q : q \in there <=> q \in Written \/ q = p
    BY <1>4, <1>9, <1>10, <1>12
  <2>2. Unborn(p)
    BY <1>12 DEF Unborn
  <2>3. Sound => \A t \in Sessions : Knows(act[t], registry, there, active)
    BY <1>1, <2>1, <2>2, KnowsBirth
  <2> QED BY <1>6, <1>7, <1>8, <1>11, <2>1, <2>2, <2>3, FilesKeep
<1>13. CASE files[p] = "there" /\ v = "gone"
  <2>1. \A q : q \in there => q \in Written
    BY <1>4, <1>9, <1>10, <1>13
  <2>2. Sound => \A t \in Sessions : Knows(act[t], registry, there, active)
    BY <2>1, KnowsFewer DEF Sound
  <2> QED BY <1>6, <1>7, <1>8, <1>11, <2>1, <2>2, FilesKeep
<1> QED BY <1>3, <1>12, <1>13

-----------------------------------------------------------------------------
(* The inductive invariant.                                                *)

(* The disk the first session finds is consistent, and no call is made.    *)
LEMMA InitKeeps == Init => Inv
<1> SUFFICES ASSUME Init PROVE Inv
  OBVIOUS
<1>1. PICK b \in Boards : files = b.files /\ registry = b.registry /\ active = b.active /\ confirmed = b.confirmed
  BY DEF Init
<1>2. Consistent(b)
  BY BoardsAssumption
<1>3. /\ files \in [Plans -> {"future", "there"}] /\ registry \in [Plans -> Lifecycle]
      /\ active \in Plans \cup {None} /\ confirmed \in [Plans -> Confirmed]
      /\ \A p \in Plans : registry[p] = "active" <=> p = active
      /\ \A p \in Plans : registry[p] # "absent" <=> files[p] = "there"
  BY <1>1, <1>2 DEF Consistent
<1>4. act = [s \in Sessions |-> Idle] /\ \A s \in Sessions : act[s] = Idle
  BY DEF Init
<1>5. Typed
  <2>1. TypedDisk
    BY <1>3 DEF TypedDisk
  <2>2. MaxCalls \in 0..MaxCalls /\ MaxCrashes \in 0..MaxCrashes /\ MaxEdits \in 0..MaxEdits
    BY PlansAssumption
  <2>3. TypedRest
    BY <2>2 DEF Init, TypedRest, Holders
  <2>4. act \in [Sessions -> CallRecords]
    BY <1>4, IdleCall
  <2> QED BY <2>1, <2>3, <2>4 DEF Typed
<1>6. Ordered
  BY <1>4, IdleCall DEF Ordered
<1>7. Born
  <2> SUFFICES ASSUME NEW p \in Plans, Unborn(p)
               PROVE  registry[p] = "absent" /\ active # p /\ \A s \in Sessions : Unaware(act[s], p)
    BY DEF Born
  <2>1. registry[p] = "absent" /\ active # p
    BY <1>3 DEF Unborn
  <2> QED BY <1>4, <2>1, IdleUnaware
<1>8. Sound
  <2>1. \A p \in Written : p \in Plans
    BY DEF Written
  <2>2. Half /\ Rest
    BY <1>3, <2>1 DEF Half, Rest
  <2>3. \A s \in Sessions : Knows(act[s], registry, Written, active)
    <3>1. First(Idle.todo) \notin Holding /\ "replace" \notin Steps(Idle.todo)
      BY Ended DEF Holding, Inner, Reads
    <3>2. Knows(Idle, registry, Written, active)
      BY <3>1, KnowsNothing
    <3> QED BY <1>4, <3>2
  <2> QED BY <2>2, <2>3 DEF Sound
<1> QED BY <1>5, <1>6, <1>7, <1>8 DEF Inv, Data

(* Every step of a call keeps the invariant.                               *)
LEMMA StepKeeps ==
  ASSUME Inv, NEW s \in Sessions, Step(s)
  PROVE  Inv'
<1>1. CASE LockLifecycle(s)
  BY <1>1, LockLifecycleKeeps
<1>2. CASE LockRegistry(s)
  BY <1>2, LockRegistryKeeps
<1>3. CASE GiveUp(s)
  BY <1>3, GiveUpKeeps
<1>4. CASE Unlock(s)
  BY <1>4, UnlockKeeps
<1>5. CASE Load(s)
  BY <1>5, LoadKeeps
<1>6. CASE SyncRegistry(s)
  BY <1>6, SyncRegistryKeeps
<1>7. CASE Look(s)
  BY <1>7, LookKeeps
<1>8. CASE Repair(s)
  BY <1>8, RepairKeeps
<1>9. CASE Content(s)
  BY <1>9, ContentKeeps
<1>10. CASE Check(s)
  BY <1>10, CheckKeeps
<1>11. CASE Point(s)
  BY <1>11, PointKeeps
<1>12. CASE Mark(s)
  BY <1>12, MarkKeeps
<1>13. CASE Confirm(s) \/ Conclude(s)
  BY <1>13, ConfirmKeeps
<1>14. CASE Resolve(s)
  BY <1>14, ResolveKeeps
<1>15. CASE Promote(s)
  BY <1>15, PromoteKeeps
<1>16. CASE Archive(s)
  BY <1>16, ArchiveKeeps
<1>17. CASE Succeed(s)
  BY <1>17, SucceedKeeps
<1>18. CASE Replace(s)
  BY <1>18, ReplaceKeeps
<1>19. CASE Unarchive(s)
  BY <1>19, UnarchiveKeeps
<1>20. CASE Choose(s)
  BY <1>20, ChooseKeeps
<1>21. CASE Remember(s)
  BY <1>21, RememberKeeps
<1>22. CASE Write(s)
  BY <1>22, WriteKeeps
<1>23. CASE Enter(s)
  BY <1>23, EnterKeeps
<1>24. CASE Again(s)
  BY <1>24, AgainKeeps
<1> QED BY <1>1, <1>2, <1>3, <1>4, <1>5, <1>6, <1>7, <1>8, <1>9, <1>10, <1>11, <1>12, <1>13, <1>14, <1>15,
           <1>16, <1>17, <1>18, <1>19, <1>20, <1>21, <1>22, <1>23, <1>24 DEF Step

(* Nothing is left of the invariant to disturb when nothing changes.       *)
LEMMA StutterKeeps ==
  ASSUME Inv, UNCHANGED vars
  PROVE  Inv'
<1>1. UNCHANGED <<files, registry, active, confirmed, lifecycleLock, registryLock, contextLeft, act, overwritten,
                  calls, crashes, edits>>
  BY DEF vars, disk, locks, bounds
<1>2. Typed' /\ Ordered' /\ Born'
  BY <1>1 DEF Inv, Typed, TypedDisk, TypedRest, Ordered, Born, Unborn
<1>3. Data'
  <2>1. Written' = Written
    BY <1>1 DEF Written, There
  <2>2. Half => Half'
    BY <1>1, <2>1 DEF Half, Now
  <2>3. Rest => Rest'
    BY <1>1, <2>1 DEF Rest, Now
  <2>4. Sound => Sound'
    BY <1>1, <2>1, <2>2, <2>3 DEF Sound
  <2> QED BY <1>1, <2>4 DEF Inv, Data
<1> QED BY <1>2, <1>3 DEF Inv

(* The invariant is inductive.                                             *)
LEMMA NextKeeps == Inv /\ [Next]_vars => Inv'
<1> SUFFICES ASSUME Inv, [Next]_vars PROVE Inv'
  OBVIOUS
<1>1. ASSUME NEW s \in Sessions, Step(s) PROVE Inv'
  BY <1>1, StepKeeps
<1>2. ASSUME NEW s \in Sessions, Crash(s) PROVE Inv'
  BY <1>2, CrashKeeps
<1>3. ASSUME NEW s \in Sessions, NEW op \in Ops, NEW p \in Plans \cup {None}, Begin(s, op, p) PROVE Inv'
  BY <1>3, BeginKeeps
<1>4. ASSUME NEW p \in Plans, PlanFile(p) PROVE Inv'
  BY <1>4, PlanFileKeeps
<1>5. ASSUME NEW s \in Sessions, NEW p \in Plans, NEW v \in {"yes", "no"}, PlanContext(s, p, v) PROVE Inv'
  BY <1>5, PlanContextKeeps
<1>6. CASE UNCHANGED vars
  BY <1>6, StutterKeeps
<1> QED BY <1>1, <1>2, <1>3, <1>4, <1>5, <1>6 DEF Next

(* What holds of every reachable state, for all numbers of sessions, plans *)
(* and calls.                                                              *)
THEOREM Invariant == Spec => []Inv
<1>1. Init => Inv
  BY InitKeeps
<1>2. Inv /\ [Next]_vars => Inv'
  BY NextKeeps
<1> QED BY <1>1, <1>2, PTL DEF Spec

-----------------------------------------------------------------------------
(* What follows from it.                                                   *)

(* Types, and that a session past the locks holds them.                    *)
LEMMA InvTypes == Inv => TypeOK
<1> SUFFICES ASSUME Inv PROVE TypeOK
  OBVIOUS
<1>1. Typed /\ Ordered
  BY DEF Inv
<1>2. ASSUME NEW s \in Sessions, act[s].todo # <<>>, Head(act[s].todo) \notin {"lockLifecycle", "lockRegistry", "unlock"},
             act[s].op \in Saves \cup {"list"} =>
               Head(act[s].todo) \in {"loadSeen", "syncSeen", "look", "repair", "point", "mark", "remember"}
      PROVE  lifecycleLock = s /\ registryLock = s
  <2>1. PICK n : n = Now(s)
    OBVIOUS
  <2>2. PICK k : k = Kind(act[s].op)
    OBVIOUS
  <2>3. n = Head(act[s].todo) /\ n \in Left(s) /\ n \in StepNames
    BY <1>1, <1>2, <2>1, Going
  <2>4. HoldsAt(s, k, n, Left(s), lifecycleLock, registryLock) /\ Fits(k, n, First(Tail(act[s].todo)), Steps(Tail(act[s].todo)))
    BY <1>1, <1>2, <2>1, <2>2, Going DEF Holds, Now, Left
  <2>5. "end" \notin StepNames
    BY DEF StepNames
  <2>6. CASE act[s].op \notin Saves \cup {"list"}
    <3>1. k = "whole"
      BY <2>2, <2>6 DEF Kind
    <3> QED BY <1>2, <2>3, <2>4, <2>5, <3>1 DEF HoldsAt
  <2>7. CASE act[s].op = "list"
    <3>1. k = "list" /\ n \notin {"load", "sync"}
      BY <1>2, <2>2, <2>3, <2>7 DEF Kind
    <3> QED BY <2>4, <3>1 DEF Fits
  <2>8. CASE act[s].op \in Saves /\ act[s].op # "list"
    <3>1. k = "save" /\ n \in Inner \cup {"remember"}
      BY <1>2, <2>2, <2>3, <2>8 DEF Kind, Inner, Reads
    <3>2. CASE n = "remember"
      BY <2>3, <2>4, <3>1, <3>2 DEF HoldsAt, Outside
    <3>3. CASE n \in Inner
      BY <1>1, <2>1, <3>3, BothHeld
    <3> QED BY <3>1, <3>2, <3>3
  <2> QED BY <2>6, <2>7, <2>8
<1>3. ASSUME NEW s \in Sessions, At(s, "enter") PROVE registryLock = s
  <2>1. Now(s) \in Holding
    BY <1>3, AtNow DEF Holding
  <2> QED BY <1>1, <2>1, HolderHolds
<1> QED BY <1>1, <1>2, <1>3 DEF TypeOK, Typed, TypedDisk, TypedRest, CallRecords

(* Who could keep the two files apart holds the registry, or has a look to *)
(* take that keeps the registry from being settled.                        *)
LEMMA InvAgrees == Inv => FilesAgree
<1> SUFFICES ASSUME Inv, registryLock = "free", ~overwritten, \A s \in Sessions : ~Unsettled(s), NEW p \in Plans, There(p)
             PROVE  registry[p] = "active" <=> p = active
  BY DEF FilesAgree
<1>1. Typed /\ Ordered /\ Sound
  BY DEF Inv, Data
<1>2. \A s \in Sessions : Now(s) \notin Holding
  BY <1>1, HolderHolds, PlansAssumption
<1>3. \A s \in Sessions : Now(s) \notin {"mark", "repair"} /\ ~Leaving(act[s])
  BY <1>2 DEF Holding, Inner, Reads, Leaving, Now
<1>4. \A s \in Sessions : ~Owing(act[s])
  BY PendingLeft DEF Owing, Unsettled, Left
<1>5. p \in Written
  BY DEF Written
<1>6. registry[p] = "active" => p = active
  BY <1>1, <1>3, <1>5 DEF Sound, Half
<1>7. p = active => registry[p] = "active"
  BY <1>1, <1>3, <1>4, <1>5 DEF Sound, Rest
<1> QED BY <1>6, <1>7

(* The standing of a plan that is archived or a draft is kept, or it is    *)
(* archived, or dropped, or the call meant for it is made.                 *)
Guarded(p) ==
  ~overwritten' /\ registry[p] \in {"archived", "draft"} =>
    \/ registry'[p] \in {registry[p], "archived", "absent"}
    \/ \E s \in Sessions : /\ registryLock = s /\ act[s].plan = p
                           /\ act[s].op = IF registry[p] = "draft" THEN "promote" ELSE "unarchive"

(* A list or a sync keeps it unless it has an old copy.                    *)
LEMMA SyncGuards ==
  ASSUME Inv, NEW s \in Sessions, SyncRegistry(s), NEW p \in Plans
  PROVE  Guarded(p)
<1> SUFFICES ASSUME ~overwritten', registry[p] \in {"archived", "draft"}
             PROVE  registry'[p] \in {registry[p], "absent"}
  BY DEF Guarded
<1>1. registry' = Synced(registry)
  BY DEF SyncRegistry, WriteRegistry
<1> QED BY <1>1 DEF Synced

(* A call that holds the registry knows it, unless something was           *)
(* overwritten.                                                            *)
LEMMA HolderKnows ==
  ASSUME Inv, NEW s \in Sessions, Now(s) \in Holding, ~overwritten
  PROVE  registryLock = s /\ Knows(act[s], registry, Written, active)
<1>1. registryLock = s
  BY HolderHolds DEF Inv
<1>2. registryLock # "left"
  BY <1>1, PlansAssumption
<1> QED BY <1>1, <1>2 DEF Inv, Data, Sound

(* A repair touches only the active plan, which is neither.                *)
LEMMA RepairGuards ==
  ASSUME Inv, NEW s \in Sessions, Repair(s), NEW p \in Plans
  PROVE  Guarded(p)
<1> SUFFICES ASSUME ~overwritten', registry[p] \in Settled
             PROVE  registry'[p] = registry[p]
  BY DEF Guarded, Settled
<1>1. Now(s) = "repair" /\ Now(s) \in Holding
  BY AtNow DEF Repair, Holding, Inner, Reads
<1>2. ~overwritten
  BY DEF Repair
<1>3. PICK x : x = act[s]
  OBVIOUS
<1>4. Knows(x, registry, Written, active) /\ First(x.todo) = "repair"
  BY <1>1, <1>2, <1>3, HolderKnows DEF Now
<1>5. Keeps(x.seen, registry) /\ x.cur = active /\ (active \in Plans => registry[active] \notin Settled)
  BY <1>4 DEF Knows, Close
<1>6. x.seen[p] = registry[p] /\ p # x.cur
  BY <1>5 DEF Keeps
<1>7. x.seen \in [Plans -> Lifecycle]
  BY <1>3 DEF Inv, Typed, CallRecords
<1>8. registry' = [x.seen EXCEPT ![x.cur] = "active"]
  BY <1>3 DEF Repair, WriteRegistry, My
<1> QED BY <1>6, <1>7, <1>8

(* Marking makes another plan active and keeps those.                      *)
LEMMA MarkGuards ==
  ASSUME Inv, NEW s \in Sessions, Mark(s), NEW p \in Plans
  PROVE  Guarded(p)
<1> SUFFICES ASSUME ~overwritten', registry[p] \in Settled
             PROVE  registry'[p] = registry[p]
  BY DEF Guarded, Settled
<1>1. Now(s) = "mark" /\ Now(s) \in Holding /\ act[s].todo # <<>>
  BY AtNow DEF Mark, Holding, Inner, Reads
<1>2. ~overwritten
  BY DEF Mark
<1>3. PICK x : x = act[s]
  OBVIOUS
<1>4. Knows(x, registry, Written, active) /\ First(x.todo) = "mark" /\ "mark" \in Steps(x.todo)
  BY <1>1, <1>2, <1>3, HolderKnows, Going DEF Now, Left, Inv
<1>5. Keeps(x.reg, registry) /\ x.reg[x.target] \notin Settled
  BY <1>4 DEF Knows, Inner, Reads
<1>6. x.reg[p] = registry[p] /\ p # x.target
  BY <1>5 DEF Keeps
<1>7. registry' = Activated(x.reg, x.target)
  BY <1>3 DEF Mark, WriteRegistry, My
<1> QED BY <1>6, <1>7 DEF Activated, Settled

(* Archiving, promoting and unarchiving change the plan of the call alone. *)
LEMMA OwnGuards ==
  ASSUME Inv, NEW s \in Sessions, Promote(s) \/ Archive(s) \/ Unarchive(s), NEW p \in Plans
  PROVE  Guarded(p)
<1> SUFFICES ASSUME ~overwritten', registry[p] \in Settled, registry'[p] # registry[p]
             PROVE  \/ registry'[p] = "archived"
                    \/ /\ registryLock = s /\ act[s].plan = p
                       /\ act[s].op = IF registry[p] = "draft" THEN "promote" ELSE "unarchive"
  BY DEF Guarded, Settled
<1>1. Now(s) \in {"promote", "archive", "unarchive"} /\ Now(s) \in Holding /\ act[s].todo # <<>>
  BY AtNow DEF Promote, Archive, Unarchive, Holding
<1>2. ~overwritten
  BY DEF Promote, Archive, Unarchive
<1>3. PICK x : x = act[s]
  OBVIOUS
<1>4. registryLock = s /\ Knows(x, registry, Written, active) /\ First(x.todo) = Now(s)
  BY <1>1, <1>2, <1>3, HolderKnows DEF Now
<1>5. x.reg[p] = registry[p]
  BY <1>1, <1>4 DEF Knows, Fresh, Close, Keeps
<1>6. x.reg \in [Plans -> Lifecycle]
  BY <1>3 DEF Inv, Typed, CallRecords
<1>7. Now(s) \in Steps(x.todo) /\ Belongs(x, Steps(x.todo))
  BY <1>1, <1>3, Going DEF Left, Inv
<1>8. CASE Promote(s)
  <2>1. Now(s) = "promote"
    BY <1>8, AtNow DEF Promote
  <2>2. x.op = "promote"
    BY <1>7, <2>1 DEF Belongs
  <2>3. registry' = [x.reg EXCEPT ![x.plan] = "inactive"] /\ x.reg[x.plan] = "draft"
    BY <1>3, <1>8 DEF Promote, WriteRegistry, My, disk
  <2>4. p = x.plan
    BY <1>5, <1>6, <2>3
  <2> QED BY <1>3, <1>4, <1>5, <2>2, <2>3, <2>4
<1>9. CASE Archive(s)
  <2>1. registry' = [x.reg EXCEPT ![x.plan] = "archived"]
    BY <1>3, <1>9 DEF Archive, WriteRegistry, My, disk
  <2>2. p = x.plan /\ registry'[p] = "archived"
    BY <1>5, <1>6, <2>1
  <2> QED BY <2>2
<1>10. CASE Unarchive(s)
  <2>1. Now(s) = "unarchive"
    BY <1>10, AtNow DEF Unarchive
  <2>2. x.op = "unarchive"
    BY <1>7, <2>1 DEF Belongs
  <2>3. PICK v : registry' = [x.reg EXCEPT ![x.plan] = v] /\ x.reg[x.plan] = "archived"
    BY <1>3, <1>10 DEF Unarchive, WriteRegistry, My, disk
  <2>4. p = x.plan
    BY <1>5, <1>6, <2>3
  <2>5. registry[p] = "archived"
    BY <1>5, <2>3, <2>4
  <2> QED BY <1>3, <1>4, <2>2, <2>4, <2>5
<1> QED BY <1>8, <1>9, <1>10

(* An update changes such a plan only when something else had changed it.  *)
LEMMA EnterGuards ==
  ASSUME Inv, NEW s \in Sessions, Enter(s), NEW p \in Plans
  PROVE  Guarded(p)
<1> SUFFICES ASSUME ~overwritten', registry[p] \in Settled
             PROVE  registry'[p] = registry[p]
  BY DEF Guarded, Settled
<1>1. Now(s) = "enter" /\ Now(s) \in Holding
  BY AtNow DEF Enter, Holding
<1>2. PICK x : x = act[s]
  OBVIOUS
<1>3. ~overwritten /\ x.reg[x.target] \in Expected(x)
  <2>1. overwritten' = (\/ overwritten \/ x.reg[x.target] \notin Expected(x)
                        \/ x.life = "draft" /\ active = x.target)
    BY <1>2 DEF Enter, My
  <2> QED BY <2>1
<1>4. Knows(x, registry, Written, active) /\ First(x.todo) = "enter"
  BY <1>1, <1>2, <1>3, HolderKnows DEF Now
<1>5. x.reg[p] = registry[p]
  BY <1>4 DEF Knows, Fresh, Close, Keeps
<1>6. x.reg \in [Plans -> Lifecycle]
  BY <1>2 DEF Inv, Typed, CallRecords
<1>7. registry' = [x.reg EXCEPT ![x.target] = x.life]
  BY <1>2 DEF Enter, WriteRegistry, My
<1>8. p = x.target => registry[p] = x.life
  BY <1>3, <1>5 DEF Expected, Settled
<1> QED BY <1>5, <1>6, <1>7, <1>8

(* No other step writes the registry.                                      *)
LEMMA NextGuards ==
  ASSUME Inv, [Next]_vars, NEW p \in Plans
  PROVE  Guarded(p)
<1>1. CASE registry' = registry
  BY <1>1 DEF Guarded
<1>2. CASE \E s \in Sessions : SyncRegistry(s)
  BY <1>2, SyncGuards
<1>3. CASE \E s \in Sessions : Repair(s)
  BY <1>3, RepairGuards
<1>4. CASE \E s \in Sessions : Mark(s)
  BY <1>4, MarkGuards
<1>5. CASE \E s \in Sessions : Promote(s) \/ Archive(s) \/ Unarchive(s)
  BY <1>5, OwnGuards
<1>6. CASE \E s \in Sessions : Enter(s)
  BY <1>6, EnterGuards
<1>7. ASSUME NEW s \in Sessions, Step(s)
      PROVE  \/ registry' = registry
             \/ SyncRegistry(s) \/ Repair(s) \/ Mark(s) \/ Promote(s) \/ Archive(s) \/ Unarchive(s) \/ Enter(s)
  <2>1. CASE LockLifecycle(s) \/ LockRegistry(s) \/ GiveUp(s) \/ Unlock(s) \/ Load(s)
    BY <2>1 DEF LockLifecycle, LockRegistry, GiveUp, Unlock, Load, disk
  <2>2. CASE Look(s)
    BY <2>2 DEF Look
  <2>3. CASE Content(s) \/ Check(s) \/ Point(s) \/ Resolve(s) \/ Succeed(s) \/ Again(s)
    BY <2>3 DEF Content, Check, Point, Resolve, Succeed, Again, disk
  <2>4. CASE Confirm(s) \/ Conclude(s)
    BY <2>4 DEF Confirm, Conclude, WriteContext
  <2>5. CASE Replace(s)
    BY <2>5 DEF Replace
  <2>6. CASE Choose(s)
    BY <2>6 DEF Choose, disk
  <2>7. CASE Remember(s) \/ Write(s)
    BY <2>7 DEF Remember, Write
  <2> QED BY <1>7, <2>1, <2>2, <2>3, <2>4, <2>5, <2>6, <2>7 DEF Step
<1>8. ASSUME NEW s \in Sessions, Crash(s) PROVE registry' = registry
  BY <1>8 DEF Crash, disk
<1>9. ASSUME NEW s \in Sessions, NEW op \in Ops, NEW q \in Plans \cup {None}, Begin(s, op, q) PROVE registry' = registry
  BY <1>9 DEF Begin, disk
<1>10. ASSUME NEW q \in Plans, PlanFile(q) PROVE registry' = registry
  BY <1>10 DEF PlanFile
<1>11. ASSUME NEW s \in Sessions, NEW q \in Plans, NEW v \in {"yes", "no"}, PlanContext(s, q, v) PROVE registry' = registry
  BY <1>11 DEF PlanContext, WriteContext
<1>12. CASE UNCHANGED vars
  BY <1>1, <1>12 DEF vars, disk
<1> QED BY <1>1, <1>2, <1>3, <1>4, <1>5, <1>6, <1>7, <1>8, <1>9, <1>10, <1>11, <1>12 DEF Next

(* Types, and mutual exclusion by the two directory locks.                 *)
THEOREM TypeCorrect == Spec => []TypeOK
  BY Invariant, InvTypes, PTL

(* The registry and the active-plan file agree whenever nobody is changing *)
(* them, however calls fail, give up and overtake each other.              *)
THEOREM Agreement == Spec => []FilesAgree
  BY Invariant, InvAgrees, PTL

(* Archived plans and drafts get another standing only from the call that  *)
(* is meant to give it, unless something newer has been written over.      *)
THEOREM LifecycleGuarded == Spec => GuardedLifecycle
<1>1. Inv /\ [Next]_vars =>
        [\A p \in Plans : ~overwritten' /\ registry[p] \in {"archived", "draft"} =>
           \/ registry'[p] \in {registry[p], "archived", "absent"}
           \/ \E s \in Sessions : /\ registryLock = s /\ act[s].plan = p
                                  /\ act[s].op = IF registry[p] = "draft" THEN "promote" ELSE "unarchive"]_vars
  BY NextGuards DEF Guarded
<1> QED BY <1>1, Invariant, PTL DEF Spec, GuardedLifecycle
=============================================================================
