--------------------------- MODULE JobQueue_proofs ---------------------------
(***************************************************************************)
(* The job queue for every number of jobs, slots, retries and priorities:  *)
(* types and places, no idle slot, honest promises, service order, and     *)
(* quiet after shutdown.                                                   *)
(***************************************************************************)
EXTENDS JobQueue, FiniteSetTheorems, FunctionTheorems, SequenceTheorems,
        WellFoundedInduction, TLAPS

(* Every non-empty set of naturals has a least element: the form in which  *)
(* induction is used below.                                                *)
LEMMA Least ==
  ASSUME NEW T \in SUBSET Nat, T # {}
  PROVE  \E n \in T : \A m \in T : n <= m
<1> DEFINE R == {ss \in Nat \X Nat : ss[1] < ss[2]}
<1>1. IsWellFoundedOn(R, Nat)
  BY NatLessThanWellFounded DEF OpToRel
<1>2. PICK n \in T : \A m \in T : <<m, n>> \notin R
  <2> HIDE DEF R
  <2> QED BY <1>1, WFMin
<1>3. \A m \in T : <<m, n>> \notin R => n <= m
  OBVIOUS
<1> QED BY <1>2, <1>3

(* How many indices of a sequence satisfy a condition.                     *)
LEMMA Count ==
  ASSUME NEW n \in Nat, NEW S \in SUBSET (1..n)
  PROVE  IsFiniteSet(S) /\ Cardinality(S) \in 0..n
<1>1. IsFiniteSet(1..n) /\ Cardinality(1..n) = n
  BY FS_Interval
<1>2. IsFiniteSet(S) /\ Cardinality(S) <= n
  BY <1>1, FS_Subset
<1> QED BY <1>2, FS_CardinalityType

(* A set of indices closed downwards is an initial segment, as long as the *)
(* set has elements.                                                       *)
LEMMA InitialSegment ==
  ASSUME NEW n \in Nat, NEW S \in SUBSET (1..n),
         \A i \in S : \A k \in 1..i : k \in S
  PROVE  S = 1..Cardinality(S)
<1> DEFINE c == Cardinality(S)
<1>1. IsFiniteSet(S) /\ c \in 0..n
  BY Count
<1>2. \A i \in S : i <= c
  <2> SUFFICES ASSUME NEW i \in S PROVE i <= c
    OBVIOUS
  <2>1. 1..i \in SUBSET S
    OBVIOUS
  <2>2. Cardinality(1..i) = i
    BY FS_Interval
  <2> QED BY <1>1, <2>1, <2>2, FS_Subset
<1>3. S \in SUBSET (1..c)
  BY <1>1, <1>2
<1>4. IsFiniteSet(1..c) /\ Cardinality(1..c) = c
  BY <1>1, FS_Interval
<1> QED BY <1>3, <1>4, FS_Subset

Elems(q) == {q[i] : i \in 1..Len(q)}

Injective(q) == \A i, k \in 1..Len(q) : q[i] = q[k] => i = k

(* The queue is in service order.                                          *)
Sorted(p, c, q) ==
  \A i, k \in 1..Len(q) : i < k => ~Before(p, c, q[k], q[i])

(* sortQueue after a push puts the job in one place, behind the jobs it    *)
(* does not precede, and keeps the others in their order.                  *)
Inserted(s, q, j, a) ==
  /\ Len(q) = Len(s) + 1
  /\ \A i \in 1..a : q[i] = s[i]
  /\ q[a + 1] = j
  /\ \A i \in (a + 2)..(Len(s) + 1) : q[i] = s[i - 1]

LEMMA PushSortedShape ==
  ASSUME NEW s \in Seq(JobId), NEW j \in JobId, NEW p, NEW c
  PROVE  /\ PushSorted(s, p, c, j) \in Seq(JobId)
         /\ \E a \in 0..Len(s) :
              /\ a = Cardinality({i \in 1..Len(s) : ~Before(p, c, j, s[i])})
              /\ Inserted(s, PushSorted(s, p, c, j), j, a)
<1> DEFINE S == {i \in 1..Len(s) : ~Before(p, c, j, s[i])}
           a == Cardinality(S)
           q == PushSorted(s, p, c, j)
           f == [i \in 1..(Len(s) + 1) |-> IF i <= a THEN s[i]
                                ELSE IF i = a + 1 THEN j ELSE s[i - 1]]
<1>1. Len(s) \in Nat /\ a \in 0..Len(s)
  BY Count, LenProperties
<1>2. q = f
  BY DEF PushSorted
<1> HIDE DEF S, a
<1>3. \A i \in 1..(Len(s) + 1) : f[i] \in JobId
  BY <1>1, ElementOfSeq
<1>4. f \in Seq(JobId) /\ Len(f) = Len(s) + 1
  BY <1>1, <1>3, IsASeq
<1>5. Inserted(s, f, j, a)
  BY <1>1, <1>4 DEF Inserted
<1> QED BY <1>1, <1>2, <1>4, <1>5 DEF a, S

LEMMA InsertedIndices ==
  ASSUME NEW s \in Seq(JobId), NEW q \in Seq(JobId), NEW j \in JobId,
         NEW a \in 0..Len(s), Inserted(s, q, j, a)
  PROVE  /\ Len(s) \in Nat /\ Len(q) = Len(s) + 1 /\ a + 1 \in 1..Len(q)
         /\ \A k \in 1..Len(q) :
              \/ k <= a /\ q[k] = s[k] /\ k \in 1..Len(s)
              \/ k = a + 1 /\ q[k] = j
              \/ k > a + 1 /\ q[k] = s[k - 1] /\ k - 1 \in 1..Len(s)
         /\ \A i \in 1..Len(s) : \E k \in 1..Len(q) : q[k] = s[i]
<1>1. Len(s) \in Nat /\ Len(q) \in Nat /\ Len(q) = Len(s) + 1
  BY LenProperties DEF Inserted
<1>2. \A i \in 1..Len(s) : \E k \in 1..Len(q) : q[k] = s[i]
  <2> SUFFICES ASSUME NEW i \in 1..Len(s) PROVE \E k \in 1..Len(q) : q[k] = s[i]
    OBVIOUS
  <2>1. CASE i <= a
    BY <1>1, <2>1 DEF Inserted
  <2>2. CASE i > a
    <3>1. i + 1 \in (a + 2)..(Len(s) + 1) /\ (i + 1) - 1 = i
      BY <1>1, <2>2
    <3>2. q[i + 1] = s[i]
      BY <3>1 DEF Inserted
    <3> QED BY <1>1, <3>1, <3>2
  <2> QED BY <1>1, <2>1, <2>2
<1> QED BY <1>1, <1>2 DEF Inserted

LEMMA InsertedElems ==
  ASSUME NEW s \in Seq(JobId), NEW q \in Seq(JobId), NEW j \in JobId,
         NEW a \in 0..Len(s), Inserted(s, q, j, a)
  PROVE  /\ Elems(q) = Elems(s) \cup {j}
         /\ Injective(s) /\ j \notin Elems(s) => Injective(q)
<1>0. /\ Len(s) \in Nat /\ Len(q) = Len(s) + 1 /\ a + 1 \in 1..Len(q)
      /\ \A k \in 1..Len(q) :
              \/ k <= a /\ q[k] = s[k] /\ k \in 1..Len(s)
              \/ k = a + 1 /\ q[k] = j
              \/ k > a + 1 /\ q[k] = s[k - 1] /\ k - 1 \in 1..Len(s)
      /\ \A i \in 1..Len(s) : \E k \in 1..Len(q) : q[k] = s[i]
  BY InsertedIndices
<1>low. \A k \in 1..Len(q) : k <= a => q[k] = s[k] /\ k \in 1..Len(s)
  BY <1>0
<1>mid. \A k \in 1..Len(q) : k = a + 1 => q[k] = j
  BY <1>0
<1>high. \A k \in 1..Len(q) : k > a + 1 => q[k] = s[k - 1] /\ k - 1 \in 1..Len(s)
  BY <1>0
<1>1. Elems(q) \subseteq Elems(s) \cup {j}
  <2> SUFFICES ASSUME NEW k \in 1..Len(q)
               PROVE  q[k] = j \/ \E i \in 1..Len(s) : q[k] = s[i]
    BY DEF Elems
  <2>1. CASE k <= a
    BY <2>1, <1>low
  <2>2. CASE k = a + 1
    BY <2>2, <1>mid
  <2>3. CASE k > a + 1
    BY <2>3, <1>high
  <2> QED BY <2>1, <2>2, <2>3, <1>0
<1>2. Elems(s) \subseteq Elems(q)
  BY <1>0 DEF Elems
<1>3. j \in Elems(q)
  BY <1>0 DEF Elems, Inserted
<1>4. ASSUME Injective(s), j \notin Elems(s)
      PROVE  Injective(q)
  <2>1. \A i \in 1..Len(s) : s[i] # j
    BY <1>4 DEF Elems
  <2> SUFFICES ASSUME NEW i \in 1..Len(q), NEW k \in 1..Len(q), q[i] = q[k], i < k
               PROVE  FALSE
    BY <1>0 DEF Injective
  <2>2. CASE k <= a
    <3>1. i <= a
      BY <2>2
    <3>2. q[k] = s[k] /\ q[i] = s[i] /\ k \in 1..Len(s) /\ i \in 1..Len(s)
      BY <3>1, <2>2, <1>low
    <3> QED BY <1>4, <3>2 DEF Injective
  <2>3. CASE k = a + 1
    <3>1. i <= a
      BY <2>3
    <3>2. q[i] = s[i] /\ i \in 1..Len(s) /\ q[k] = j
      BY <3>1, <2>3, <1>low, <1>mid
    <3> QED BY <2>1, <3>2
  <2>4. CASE k > a + 1
    <3>1. k - 1 \in 1..Len(s) /\ q[k] = s[k - 1]
      BY <2>4, <1>high
    <3>2. CASE i <= a
      <4>1. i \in 1..Len(s) /\ q[i] = s[i]
        BY <1>low, <3>2
      <4>2. i # k - 1
        BY <2>4, <3>2
      <4> QED BY <1>4, <3>1, <4>1, <4>2 DEF Injective
    <3>3. CASE i = a + 1
      BY <2>1, <3>1, <3>3, <1>mid
    <3>4. CASE i > a + 1
      <4>1. i - 1 \in 1..Len(s) /\ q[i] = s[i - 1]
        BY <3>4, <1>high
      <4>2. i - 1 # k - 1
        OBVIOUS
      <4> QED BY <1>4, <3>1, <4>1, <4>2 DEF Injective
    <3> QED BY <3>2, <3>3, <3>4
  <2> QED BY <1>0, <2>2, <2>3, <2>4
<1> QED BY <1>1, <1>2, <1>3, <1>4

(* The comparator is a strict weak order.                                  *)
LEMMA WeakOrder ==
  ASSUME NEW p \in [JobId -> Nat], NEW c \in [JobId -> Nat],
         NEW i \in JobId, NEW j \in JobId, NEW k \in JobId
  PROVE  /\ Before(p, c, i, j) => ~Before(p, c, j, i)
         /\ ~Before(p, c, i, j) /\ ~Before(p, c, j, k) => ~Before(p, c, i, k)
BY DEF Before

(* A job put between those it does not precede and those that do not       *)
(* precede it leaves the queue sorted.                                     *)
LEMMA InsertedSorted ==
  ASSUME NEW s \in Seq(JobId), NEW q \in Seq(JobId), NEW j \in JobId,
         NEW p, NEW c, NEW a \in 0..Len(s), Inserted(s, q, j, a),
         Sorted(p, c, s),
         \A i \in 1..a : ~Before(p, c, j, s[i]),
         \A i \in 1..Len(s) : i > a => ~Before(p, c, s[i], j)
  PROVE  Sorted(p, c, q)
<1>1. /\ Len(s) \in Nat /\ Len(q) = Len(s) + 1
      /\ \A k \in 1..Len(q) :
              \/ k <= a /\ q[k] = s[k] /\ k \in 1..Len(s)
              \/ k = a + 1 /\ q[k] = j
              \/ k > a + 1 /\ q[k] = s[k - 1] /\ k - 1 \in 1..Len(s)
  BY InsertedIndices
<1> SUFFICES ASSUME NEW i \in 1..Len(q), NEW k \in 1..Len(q), i < k
             PROVE  ~Before(p, c, q[k], q[i])
  BY DEF Sorted
<1>2. CASE k <= a
  <2>1. q[k] = s[k] /\ q[i] = s[i] /\ i \in 1..Len(s) /\ k \in 1..Len(s)
    BY <1>1, <1>2
  <2> QED BY <2>1 DEF Sorted
<1>3. CASE k = a + 1
  <2>1. q[k] = j /\ q[i] = s[i] /\ i \in 1..a
    BY <1>1, <1>3
  <2> QED BY <2>1
<1>4. CASE k > a + 1 /\ i = a + 1
  <2>1. q[k] = s[k - 1] /\ q[i] = j /\ k - 1 \in 1..Len(s) /\ k - 1 > a
    BY <1>1, <1>4
  <2> QED BY <2>1
<1>5. CASE k > a + 1 /\ i <= a
  <2>1. q[k] = s[k - 1] /\ q[i] = s[i] /\ k - 1 \in 1..Len(s) /\ i \in 1..Len(s)
        /\ i < k - 1
    BY <1>1, <1>5
  <2> QED BY <2>1 DEF Sorted
<1>6. CASE k > a + 1 /\ i > a + 1
  <2>1. q[k] = s[k - 1] /\ q[i] = s[i - 1] /\ k - 1 \in 1..Len(s)
        /\ i - 1 \in 1..Len(s) /\ i - 1 < k - 1
    BY <1>1, <1>6
  <2> QED BY <2>1 DEF Sorted
<1> QED BY <1>1, <1>2, <1>3, <1>4, <1>5, <1>6

(* A sorted queue is sorted after the push.                                *)
LEMMA PushSortedSorts ==
  ASSUME NEW s \in Seq(JobId), NEW j \in JobId,
         NEW p \in [JobId -> Nat], NEW c \in [JobId -> Nat], Sorted(p, c, s)
  PROVE  Sorted(p, c, PushSorted(s, p, c, j))
<1> DEFINE S == {i \in 1..Len(s) : ~Before(p, c, j, s[i])}
<1>1. Len(s) \in Nat /\ \A i \in 1..Len(s) : s[i] \in JobId
  BY ElementOfSeq, LenProperties
<1>2. PICK a \in 0..Len(s) :
        a = Cardinality(S) /\ Inserted(s, PushSorted(s, p, c, j), j, a)
  BY PushSortedShape
<1>3. \A i \in S : \A k \in 1..i : k \in S
  <2> SUFFICES ASSUME NEW i \in S, NEW k \in 1..i, k # i PROVE k \in S
    OBVIOUS
  <2>1. k \in 1..Len(s) /\ ~Before(p, c, s[i], s[k])
    BY DEF Sorted
  <2> QED BY <1>1, <2>1, WeakOrder
<1>4. S = 1..a
  BY <1>1, <1>2, <1>3, InitialSegment
<1> HIDE DEF S
<1>5. \A i \in 1..a : ~Before(p, c, j, s[i])
  BY <1>4 DEF S
<1>6. \A i \in 1..Len(s) : i > a => ~Before(p, c, s[i], j)
  <2> SUFFICES ASSUME NEW i \in 1..Len(s), i > a PROVE ~Before(p, c, s[i], j)
    OBVIOUS
  <2>1. i \notin S
    BY <1>4
  <2>2. Before(p, c, j, s[i])
    BY <2>1 DEF S
  <2> QED BY <1>1, <2>2, WeakOrder
<1> QED BY <1>2, <1>5, <1>6, PushSortedShape, InsertedSorted

-----------------------------------------------------------------------------
(* The completed map only ever holds jobs.                                 *)
LEMMA RecordType ==
  ASSUME NEW done \in Seq(JobId), NEW j \in JobId
  PROVE  Record(done, j) \in Seq(JobId) /\ Trim(Record(done, j)) \in Seq(JobId)
<1>1. Record(done, j) \in Seq(JobId)
  BY DEF Record
<1>2. ASSUME NEW s \in Seq(JobId) PROVE Trim(s) \in Seq(JobId)
  <2>1. CASE s = <<>>
    BY <2>1, ConstantsAssumption DEF Trim, ConstantsAssumption
  <2>2. CASE s # <<>>
    BY <2>2, HeadTailProperties DEF Trim
  <2> QED BY <2>1, <2>2
<1> QED BY <1>1, <1>2

(* Recording a queue job by job is well defined and yields jobs.           *)
LEMMA RecordAllType ==
  ASSUME NEW done \in Seq(JobId), NEW q \in Seq(JobId)
  PROVE  RecordAll(done, q) \in Seq(JobId)
<1> DEFINE n == Len(q)
           Val(g, i) == IF i = 0 THEN done ELSE Record(g[i - 1], q[i])
           Good(g, m) == g = [i \in 0..m |-> Val(g, i)] /\ g \in [0..m -> Seq(JobId)]
           Bad == {m \in 0..n : ~\E g : Good(g, m)}
           f == CHOOSE g : g = [i \in 0..n |-> Val(g, i)]
<1>0. n \in Nat /\ \A i \in 1..n : q[i] \in JobId
  BY LenProperties, ElementOfSeq
<1>1. Bad = {}
  <2> SUFFICES ASSUME Bad # {} PROVE FALSE
    OBVIOUS
  <2>0. Bad \in SUBSET Nat
    BY <1>0
  <2>1. PICK m \in Bad : \A k \in Bad : m <= k
    <3> HIDE DEF Bad
    <3> QED BY <2>0, Least
  <2>2. CASE m = 0
    <3> DEFINE g == [i \in 0..0 |-> done]
    <3>1. Good(g, 0)
      OBVIOUS
    <3> QED BY <2>2, <3>1
  <2>3. CASE m # 0
    <3>1. m \in 0..n
      OBVIOUS
    <3>2. m - 1 \in 0..n /\ m \in 1..n /\ ~(m <= m - 1)
      BY <1>0, <2>3, <3>1
    <3>3. m - 1 \notin Bad
      <4> HIDE DEF Bad
      <4> QED BY <2>1, <3>2
    <3>4. PICK g : Good(g, m - 1)
      BY <3>2, <3>3
    <3> DEFINE h == [i \in 0..m |-> IF i < m THEN g[i] ELSE Record(g[m - 1], q[m])]
    <3>5. \A i \in 0..(m - 1) : g[i] \in Seq(JobId) /\ g[i] = Val(g, i)
      BY <3>2, <3>4
    <3>6. g[m - 1] \in Seq(JobId) /\ q[m] \in JobId
      BY <1>0, <3>2, <3>5
    <3>7. Record(g[m - 1], q[m]) \in Seq(JobId)
      BY <3>6, RecordType
    <3>8. h \in [0..m -> Seq(JobId)]
      BY <3>2, <3>5, <3>7
    <3>9. \A i \in 0..m : h[i] = Val(h, i)
      BY <3>2, <3>5
    <3>10. Good(h, m)
      BY <3>8, <3>9
    <3> QED BY <3>10
  <2> QED BY <2>2, <2>3
<1>2. PICK g : Good(g, n)
  <2>1. n \in 0..n
    BY <1>0
  <2>2. n \notin Bad
    BY <1>1
  <2> QED BY <2>1, <2>2
<1>3. f = [i \in 0..n |-> Val(f, i)]
  BY <1>2
<1> HIDE DEF f
<1>4. \A i \in 0..n : f[i] = Val(f, i)
  BY <1>3
<1> DEFINE Wrong == {i \in 0..n : f[i] \notin Seq(JobId)}
<1>5. Wrong = {}
  <2> SUFFICES ASSUME Wrong # {} PROVE FALSE
    OBVIOUS
  <2>0. Wrong \in SUBSET Nat
    BY <1>0
  <2>1. PICK m \in Wrong : \A k \in Wrong : m <= k
    <3> HIDE DEF Wrong
    <3> QED BY <2>0, Least
  <2>2. m # 0
    BY <1>4
  <2>3. m \in 1..n /\ m - 1 \in 0..n /\ m - 1 \notin Wrong
    BY <1>0, <2>1, <2>2
  <2>4. f[m] = Record(f[m - 1], q[m]) /\ f[m - 1] \in Seq(JobId)
    BY <1>4, <2>2, <2>3
  <2> QED BY <1>0, <2>3, <2>4, RecordType
<1>6. f[n] \in Seq(JobId)
  BY <1>0, <1>5
<1> QED BY <1>6 DEF RecordAll, f

-----------------------------------------------------------------------------
(* A queue, a set of running jobs and a status map that agree on the place *)
(* of every job.                                                           *)
Placed(q, r, st) ==
  /\ q \in Seq(JobId) /\ Injective(q)
  /\ r \in SUBSET JobId
  /\ st \in [JobId -> Status]
  /\ \A j \in JobId : /\ st[j] = "pending" <=> j \in Elems(q)
                      /\ st[j] = "running" <=> j \in r

LEMMA RunningFinite ==
  ASSUME NEW r \in SUBSET JobId
  PROVE  /\ IsFiniteSet(r) /\ Cardinality(r) \in Nat
         /\ \A j \in JobId : Cardinality(r \ {j}) =
              IF j \in r THEN Cardinality(r) - 1 ELSE Cardinality(r)
         /\ \A j \in JobId : Cardinality(r \cup {j}) =
              IF j \in r THEN Cardinality(r) ELSE Cardinality(r) + 1
<1>1. IsFiniteSet(JobId)
  BY FS_Interval, ConstantsAssumption DEF JobId, ConstantsAssumption
<1>2. IsFiniteSet(r)
  BY <1>1, FS_Subset
<1> QED BY <1>2, FS_CardinalityType, FS_RemoveElement, FS_AddElement

LEMMA TailElems ==
  ASSUME NEW q \in Seq(JobId), q # <<>>
  PROVE  /\ Head(q) \in JobId /\ Tail(q) \in Seq(JobId)
         /\ Len(q) \in Nat \ {0} /\ Len(Tail(q)) = Len(q) - 1
         /\ \A i \in 1..Len(Tail(q)) : Tail(q)[i] = q[i + 1] /\ i + 1 \in 1..Len(q)
         /\ Head(q) = q[1] /\ 1 \in 1..Len(q)
         /\ Elems(q) = Elems(Tail(q)) \cup {Head(q)}
         /\ Injective(q) => Injective(Tail(q)) /\ Head(q) \notin Elems(Tail(q))
         /\ \A p, c : Sorted(p, c, q) =>
              /\ Sorted(p, c, Tail(q))
              /\ \A k \in Elems(Tail(q)) : ~Before(p, c, k, Head(q))
<1> DEFINE t == Tail(q)
<1>1. /\ Head(q) \in JobId /\ t \in Seq(JobId)
      /\ Len(q) \in Nat \ {0} /\ Len(t) = Len(q) - 1
      /\ Head(q) = q[1]
      /\ \A i \in 1..Len(t) : t[i] = q[i + 1]
  BY HeadTailProperties, LenProperties
<1> HIDE DEF t
<1>2. \A i \in 1..Len(t) : i + 1 \in 1..Len(q)
  BY <1>1
<1>3. \A i \in 1..Len(q) : i # 1 => i - 1 \in 1..Len(t) /\ t[i - 1] = q[i]
  BY <1>1
<1>4. Elems(q) = Elems(t) \cup {Head(q)}
  <2>1. Elems(t) \subseteq Elems(q)
    BY <1>1, <1>2 DEF Elems
  <2>2. Head(q) \in Elems(q)
    BY <1>1 DEF Elems
  <2>3. ASSUME NEW i \in 1..Len(q) PROVE q[i] \in Elems(t) \cup {Head(q)}
    <3>1. CASE i = 1
      BY <1>1, <3>1
    <3>2. CASE i # 1
      BY <1>3, <3>2 DEF Elems
    <3> QED BY <3>1, <3>2
  <2>4. Elems(q) \subseteq Elems(t) \cup {Head(q)}
    BY <2>3 DEF Elems
  <2> QED BY <2>1, <2>2, <2>4
<1>5. ASSUME Injective(q) PROVE Injective(t) /\ Head(q) \notin Elems(t)
  <2>1. Injective(t)
    <3> SUFFICES ASSUME NEW i \in 1..Len(t), NEW k \in 1..Len(t), t[i] = t[k]
                 PROVE  i = k
      BY DEF Injective
    <3>1. i + 1 = k + 1
      BY <1>1, <1>2, <1>5 DEF Injective
    <3> QED BY <1>1, <3>1
  <2>2. ASSUME NEW i \in 1..Len(t) PROVE t[i] # Head(q)
    <3>1. i + 1 # 1 /\ 1 \in 1..Len(q)
      BY <1>1
    <3> QED BY <1>1, <1>2, <1>5, <3>1 DEF Injective
  <2> QED BY <2>1, <2>2 DEF Elems
<1>6. ASSUME NEW p, NEW c, Sorted(p, c, q)
      PROVE  Sorted(p, c, t) /\ \A k \in Elems(t) : ~Before(p, c, k, Head(q))
  <2>1. Sorted(p, c, t)
    <3> SUFFICES ASSUME NEW i \in 1..Len(t), NEW k \in 1..Len(t), i < k
                 PROVE  ~Before(p, c, t[k], t[i])
      BY DEF Sorted
    <3>1. i + 1 < k + 1
      BY <1>1
    <3> QED BY <1>1, <1>2, <1>6, <3>1 DEF Sorted
  <2>2. ASSUME NEW i \in 1..Len(t) PROVE ~Before(p, c, t[i], Head(q))
    <3>1. 1 < i + 1 /\ 1 \in 1..Len(q)
      BY <1>1
    <3> QED BY <1>1, <1>2, <1>6, <3>1 DEF Sorted
  <2> QED BY <2>1, <2>2 DEF Elems
<1> QED BY <1>1, <1>2, <1>4, <1>5, <1>6 DEF t

(* What processNext does to a queue in order: at most the first job        *)
(* starts, and afterwards a free slot means an empty queue if the stretch  *)
(* left at most one slot free or one job waiting.                          *)
StartedFrom(q, r, st) ==
  /\ Placed(pendingJobs', runningJobs', status')
  /\ Cardinality(runningJobs') <= Concurrency
  /\ Len(pendingJobs') + Cardinality(runningJobs') = Len(q) + Cardinality(r)
  /\ Elems(pendingJobs') \cup runningJobs' = Elems(q) \cup r
  /\ Elems(pendingJobs') \subseteq Elems(q)
  /\ runningJobs' = r \cup Started(q)
  /\ r \cap Started(q) = {} /\ Started(q) \subseteq Elems(q)
  /\ \A j \in JobId : j \notin Started(q) => status'[j] = st[j]
  /\ shuttingDown => Started(q) = {}
  /\ \A p, c : Sorted(p, c, q) =>
       /\ Sorted(p, c, pendingJobs')
       /\ \A j \in Started(q), k \in Elems(pendingJobs') : ~Before(p, c, k, j)
  /\ ~paused /\ ~shuttingDown
       /\ (Cardinality(r) >= Concurrency - 1 \/ Len(q) <= 1)
     => Cardinality(runningJobs') = Concurrency \/ pendingJobs' = <<>>

LEMMA Starting ==
  ASSUME NEW q, NEW r, NEW st, Placed(q, r, st), ProcessNext(q, r, st),
         Cardinality(r) <= Concurrency
  PROVE  StartedFrom(q, r, st)
<1>0. /\ q \in Seq(JobId) /\ Injective(q) /\ r \in SUBSET JobId
      /\ st \in [JobId -> Status] /\ Len(q) \in Nat
      /\ \A j \in JobId : /\ st[j] = "pending" <=> j \in Elems(q)
                          /\ st[j] = "running" <=> j \in r
  BY LenProperties DEF Placed
<1>1. Elems(q) \subseteq JobId /\ Elems(q) \cap r = {}
  <2>1. Elems(q) \subseteq JobId
    BY <1>0, ElementOfSeq DEF Elems
  <2> QED BY <1>0, <2>1
<1>2. Cardinality(r) \in Nat /\ Concurrency \in Nat \ {0}
  BY <1>0, RunningFinite, ConstantsAssumption DEF ConstantsAssumption
<1>3. Started(q) = runningJobs' \cap Elems(q)
  BY DEF Started, Elems
<1>4. CASE CanStart(q, r)
  <2>1. /\ pendingJobs' = Tail(q) /\ runningJobs' = r \cup {Head(q)}
        /\ status' = [st EXCEPT ![Head(q)] = "running"]
    BY <1>4 DEF ProcessNext
  <2>2. q # <<>> /\ ~shuttingDown /\ Cardinality(r) < Concurrency
    BY <1>4 DEF CanStart
  <2>3. /\ Head(q) \in JobId /\ Tail(q) \in Seq(JobId)
        /\ Len(Tail(q)) = Len(q) - 1
        /\ Elems(q) = Elems(Tail(q)) \cup {Head(q)}
        /\ Injective(Tail(q)) /\ Head(q) \notin Elems(Tail(q))
        /\ \A p, c : Sorted(p, c, q) =>
             /\ Sorted(p, c, Tail(q))
             /\ \A k \in Elems(Tail(q)) : ~Before(p, c, k, Head(q))
    BY <1>0, <2>2, TailElems
  <2>4. Started(q) = {Head(q)} /\ Head(q) \notin r
    BY <1>1, <1>3, <2>1, <2>3
  <2>5. Cardinality(runningJobs') = Cardinality(r) + 1
    BY <1>0, <2>1, <2>3, <2>4, RunningFinite
  <2>6. Placed(pendingJobs', runningJobs', status')
    <3>1. runningJobs' \in SUBSET JobId /\ status' \in [JobId -> Status]
      BY <1>0, <2>1, <2>3 DEF Status
    <3>2. ASSUME NEW j \in JobId
          PROVE  /\ status'[j] = "pending" <=> j \in Elems(pendingJobs')
                 /\ status'[j] = "running" <=> j \in runningJobs'
      <4>1. CASE j = Head(q)
        BY <1>0, <2>1, <2>3, <4>1
      <4>2. CASE j # Head(q)
        BY <1>0, <2>1, <2>3, <4>2
      <4> QED BY <4>1, <4>2
    <3> QED BY <2>1, <2>3, <3>1, <3>2 DEF Placed
  <2>7. \A j \in JobId : j \notin Started(q) => status'[j] = st[j]
    BY <1>0, <2>1, <2>4
  <2>8. Len(q) <= 1 => pendingJobs' = <<>>
    <3>1. Len(q) <= 1 => Len(Tail(q)) = 0
      BY <1>0, <2>2, <2>3, TailElems
    <3> QED BY <2>1, <2>3, <3>1, EmptySeq
  <2>9. Len(pendingJobs') + Cardinality(runningJobs') = Len(q) + Cardinality(r)
    BY <1>0, <1>2, <2>1, <2>3, <2>5
  <2>10. \A p, c : Sorted(p, c, q) =>
              /\ Sorted(p, c, pendingJobs')
              /\ \A j \in Started(q), k \in Elems(pendingJobs') : ~Before(p, c, k, j)
    BY <2>1, <2>3, <2>4
  <2>11. /\ Cardinality(runningJobs') <= Concurrency
         /\ Cardinality(r) >= Concurrency - 1 => Cardinality(runningJobs') = Concurrency
    BY <1>2, <2>2, <2>5
  <2> QED BY <1>1, <2>1, <2>2, <2>3, <2>4, <2>6, <2>7, <2>8, <2>9, <2>10, <2>11
       DEF StartedFrom
<1>5. CASE ~CanStart(q, r)
  <2>1. pendingJobs' = q /\ runningJobs' = r /\ status' = st
    BY <1>5 DEF ProcessNext
  <2>2. Started(q) = {}
    BY <1>1, <1>3, <2>1
  <2>3. ~paused /\ ~shuttingDown => Cardinality(r) = Concurrency \/ q = <<>>
    BY <1>2, <1>5 DEF CanStart
  <2> QED BY <2>1, <2>2, <2>3 DEF StartedFrom
<1> QED BY <1>4, <1>5

-----------------------------------------------------------------------------
(* An attempt that is running has an execution going on, one that is       *)
(* queued has had at most as many as it had retries, and nothing is known  *)
(* of jobs that were not enqueued.                                         *)
Executions ==
  \A j \in JobId : /\ executing[j] <= retryCount[j] + 1
                   /\ j \in InQueue => executing[j] <= retryCount[j]
                   /\ j \in runningJobs => executing[j] >= 1
                   /\ j > jobs => status[j] = "unused" /\ executing[j] = 0

Inv ==
  /\ TypeOK
  /\ WorkConserving
  /\ PromisesHonest
  /\ Sorted(priority, createdAt, pendingJobs)
  /\ Executions

(* What the two action properties say of one step.                         *)
QuietStep ==
  shuttingDown => /\ runningJobs' \subseteq runningJobs
                  /\ \A j \in JobId : executing'[j] <= executing[j]

OrderedStep ==
  \A j \in InQueue, k \in InQueue' :
     j \in runningJobs' => ~Before(priority, createdAt, k, j)

LEMMA PlacedNow ==
  ASSUME TypeOK
  PROVE  /\ Placed(pendingJobs, runningJobs, status)
         /\ InQueue = Elems(pendingJobs) /\ InQueue \subseteq JobId
         /\ InQueue \cap runningJobs = {}
         /\ Len(pendingJobs) \in Nat /\ Cardinality(runningJobs) \in Nat
         /\ MaxJobs \in Nat /\ MaxRetries \in Nat /\ MaxQueueSize \in Nat
         /\ Concurrency \in Nat \ {0}
<1>1. pendingJobs \in Seq(JobId) /\ runningJobs \in SUBSET JobId
  BY DEF TypeOK
<1>2. InQueue = Elems(pendingJobs) /\ InQueue \subseteq JobId
  BY <1>1, ElementOfSeq DEF InQueue, Elems
<1>3. InQueue \cap runningJobs = {}
  BY <1>1, <1>2 DEF TypeOK
<1>4. Placed(pendingJobs, runningJobs, status)
  BY <1>2 DEF TypeOK, Placed, Injective
<1> QED BY <1>1, <1>2, <1>3, <1>4, RunningFinite, LenProperties,
           ConstantsAssumption DEF ConstantsAssumption

(* The types and bounds of the state a step leads to, from the places of   *)
(* the jobs and the number of executions.                                  *)
LEMMA NextTypes ==
  ASSUME Placed(pendingJobs', runningJobs', status'),
         Cardinality(runningJobs') <= Concurrency,
         Len(pendingJobs') + Cardinality(runningJobs') <= MaxQueueSize + Concurrency,
         jobs' \in 0..MaxJobs,
         priority' \in [JobId -> Nat], createdAt' \in [JobId -> Nat],
         completedJobs' \in Seq(JobId),
         retryCount' \in [JobId -> 0..MaxRetries],
         promise' \in [JobId -> Promises],
         executing' \in [JobId -> Nat], Executions',
         paused' \in BOOLEAN, shuttingDown' \in BOOLEAN,
         draining' \in BOOLEAN, hung' \in BOOLEAN,
         shutdownCall' \in {"none", "polling", "returned"}
  PROVE  TypeOK'
<1>1. MaxRetries \in Nat
  BY ConstantsAssumption DEF ConstantsAssumption
<1>2. InQueue' = Elems(pendingJobs')
  BY DEF InQueue, Elems
<1>3. executing' \in [JobId -> 0..(MaxRetries + 1)]
  <2>1. ASSUME NEW j \in JobId PROVE executing'[j] \in 0..(MaxRetries + 1)
    <3>1. executing'[j] \in Nat /\ retryCount'[j] \in 0..MaxRetries
          /\ executing'[j] <= retryCount'[j] + 1
      BY DEF Executions
    <3> QED BY <1>1, <3>1
  <2> QED BY <2>1
<1>4. /\ \A i, k \in 1..Len(pendingJobs') : pendingJobs'[i] = pendingJobs'[k] => i = k
      /\ \A j \in JobId : /\ status'[j] = "pending" <=> j \in InQueue'
                          /\ status'[j] = "running" <=> j \in runningJobs'
      /\ status' \in [JobId -> Status]
      /\ pendingJobs' \in Seq(JobId)
      /\ runningJobs' \in SUBSET JobId
  BY <1>2 DEF Placed, Injective
<1> QED BY <1>3, <1>4 DEF TypeOK

LEMMA InitInv == Init => Inv
<1> SUFFICES ASSUME Init PROVE Inv
  OBVIOUS
<1>1. Executions
  BY DEF Init, Executions, InQueue
<1>2. Cardinality(runningJobs) = 0 /\ Len(pendingJobs) = 0
  BY FS_EmptySet DEF Init
<1>3. /\ MaxJobs \in Nat /\ MaxRetries \in Nat /\ MaxQueueSize \in Nat
      /\ Concurrency \in Nat
  BY ConstantsAssumption DEF ConstantsAssumption
<1>4. TypeOK
  <2>1. /\ retryCount \in [JobId -> 0..MaxRetries]
        /\ executing \in [JobId -> 0..(MaxRetries + 1)]
        /\ priority \in [JobId -> Nat] /\ createdAt \in [JobId -> Nat]
    BY <1>3 DEF Init
  <2>2. status \in [JobId -> Status] /\ promise \in [JobId -> Promises]
    BY DEF Init, Status, Promises
  <2>3. /\ Cardinality(runningJobs) <= Concurrency /\ jobs \in 0..MaxJobs
        /\ Len(pendingJobs) + Cardinality(runningJobs) <= MaxQueueSize + Concurrency
    BY <1>2, <1>3 DEF Init
  <2>4. /\ \A i, k \in 1..Len(pendingJobs) : pendingJobs[i] = pendingJobs[k] => i = k
        /\ \A j \in JobId : /\ status[j] = "pending" <=> j \in InQueue
                            /\ status[j] = "running" <=> j \in runningJobs
    BY <1>2 DEF Init, InQueue
  <2>5. /\ pendingJobs \in Seq(JobId) /\ completedJobs \in Seq(JobId)
        /\ runningJobs \in SUBSET JobId
        /\ paused \in BOOLEAN /\ shuttingDown \in BOOLEAN
        /\ draining \in BOOLEAN /\ hung \in BOOLEAN
        /\ shutdownCall \in {"none", "polling", "returned"}
    BY EmptySeq DEF Init
  <2> QED BY <2>1, <2>2, <2>3, <2>4, <2>5 DEF TypeOK
<1>5. WorkConserving /\ PromisesHonest
  BY DEF Init, WorkConserving, PromisesHonest
<1>6. Sorted(priority, createdAt, pendingJobs)
  BY DEF Init, Sorted
<1> QED BY <1>1, <1>4, <1>5, <1>6 DEF Inv

(* What an attempt of job j that has ended leaves for processNext: the     *)
(* queue q, with j back in it after a retry, and the status map st.        *)
Outcome(j, q, st) ==
  /\ Placed(q, runningJobs \ {j}, st)
  /\ Elems(q) \subseteq InQueue \cup {j}
  /\ Len(q) = Len(pendingJobs) + (IF j \in Elems(q) THEN 1 ELSE 0)
  /\ Sorted(priority, createdAt, q)
  /\ \A k \in JobId : k # j => st[k] = status[k]
  /\ retryCount' \in [JobId -> 0..MaxRetries]
  /\ \A k \in JobId : retryCount'[k] =
       retryCount[k] + (IF k = j /\ j \in Elems(q) THEN 1 ELSE 0)
  /\ promise' \in [JobId -> Promises]
  /\ \A k \in JobId :
       /\ promise'[k] = "waiting" => k \in Elems(q) \cup (runningJobs \ {j})
       /\ promise'[k] = "resolved" => st[k] = "completed"
       /\ promise'[k] = "rejected" => st[k] \in {"failed", "cancelled"}

LEMMA SettleInv ==
  ASSUME Inv, NEW j \in runningJobs, NEW q, NEW st, NEW ended \in BOOLEAN,
         Settle(j, q, st, ended), Outcome(j, q, st)
  PROVE  Inv' /\ QuietStep /\ OrderedStep
<1> USE DEF Outcome
<1> DEFINE r == runningJobs \ {j}
<1>0. /\ TypeOK /\ WorkConserving /\ Executions
      /\ q \in Seq(JobId) /\ r \in SUBSET JobId /\ j \in JobId
      /\ InQueue \subseteq JobId /\ InQueue \cap runningJobs = {}
      /\ Len(pendingJobs) \in Nat /\ Concurrency \in Nat \ {0} /\ MaxQueueSize \in Nat
  BY PlacedNow DEF Inv, Placed, TypeOK
<1>1. /\ Cardinality(r) = Cardinality(runningJobs) - 1
      /\ Cardinality(r) \in Nat /\ Cardinality(runningJobs) \in Nat
      /\ Cardinality(runningJobs) <= Concurrency
      /\ Len(pendingJobs) + Cardinality(runningJobs) <= MaxQueueSize + Concurrency
  BY <1>0, RunningFinite DEF TypeOK
<1>2. /\ ProcessNext(q, r, st)
      /\ completedJobs' = Trim(Record(completedJobs, j))
      /\ executing' = [k \in JobId |->
                     (executing[k] - IF k = j /\ ended THEN 1 ELSE 0)
                        + IF k \in Started(q) THEN 1 ELSE 0]
      /\ UNCHANGED <<jobs, priority, createdAt, paused, shuttingDown, draining,
                     shutdownCall, hung>>
  BY DEF Settle
<1>3. Cardinality(r) <= Concurrency
  BY <1>0, <1>1
<1> HIDE DEF r
<1>4. /\ Placed(pendingJobs', runningJobs', status')
      /\ Cardinality(runningJobs') <= Concurrency
      /\ Len(pendingJobs') + Cardinality(runningJobs') = Len(q) + Cardinality(r)
      /\ Elems(pendingJobs') \cup runningJobs' = Elems(q) \cup r
      /\ Elems(pendingJobs') \subseteq Elems(q)
      /\ runningJobs' = r \cup Started(q)
      /\ r \cap Started(q) = {} /\ Started(q) \subseteq Elems(q)
      /\ \A k \in JobId : k \notin Started(q) => status'[k] = st[k]
      /\ shuttingDown => Started(q) = {}
      /\ Sorted(priority, createdAt, pendingJobs')
      /\ \A i \in Started(q), k \in Elems(pendingJobs') :
            ~Before(priority, createdAt, k, i)
      /\ ~paused /\ ~shuttingDown
           /\ (Cardinality(r) >= Concurrency - 1 \/ Len(q) <= 1)
         => Cardinality(runningJobs') = Concurrency \/ pendingJobs' = <<>>
  <2>1. Placed(q, r, st)
    BY DEF r
  <2>2. StartedFrom(q, r, st)
    BY <1>2, <1>3, <2>1, Starting
  <2> QED BY <2>2 DEF StartedFrom
<1>5. InQueue' = Elems(pendingJobs')
  BY DEF InQueue, Elems
<1>6. \A k \in JobId : /\ executing[k] \in Nat /\ retryCount[k] \in Nat
                       /\ executing[k] <= retryCount[k] + 1
                       /\ k \in InQueue => executing[k] <= retryCount[k]
                       /\ k \in runningJobs => executing[k] >= 1
  <2>1. \A k \in JobId : executing[k] \in Nat /\ retryCount[k] \in Nat
    BY <1>0 DEF TypeOK
  <2> QED BY <1>0, <2>1 DEF Executions
<1>7. ASSUME NEW k \in JobId
      PROVE  /\ executing'[k] \in Nat
             /\ executing'[k] <= retryCount'[k] + 1
             /\ k \in InQueue' => executing'[k] <= retryCount'[k]
             /\ k \in runningJobs' => executing'[k] >= 1
  <2>1. executing'[k] = (executing[k] - IF k = j /\ ended THEN 1 ELSE 0)
                        + IF k \in Started(q) THEN 1 ELSE 0
    BY <1>2
  <2>2. retryCount'[k] = retryCount[k] + (IF k = j /\ j \in Elems(q) THEN 1 ELSE 0)
    OBVIOUS
  <2>3. k \in InQueue' => k \in Elems(q) /\ k \notin Started(q)
    <3>1. Elems(pendingJobs') \cap runningJobs' = {}
      BY <1>4, ElementOfSeq DEF Placed, Elems
    <3> QED BY <1>4, <1>5, <3>1
  <2>4. CASE k = j
    <3>1. j \notin r
      BY DEF r
    <3>2. executing[k] \in 1..(retryCount[k] + 1) /\ retryCount[k] \in Nat
      BY <1>6, <2>4
    <3>3. PICK n \in {0, 1} : n = IF k \in Started(q) THEN 1 ELSE 0
      OBVIOUS
    <3>4. executing'[k] \in {executing[k] + n, executing[k] - 1 + n}
      BY <2>1, <3>2, <3>3
    <3>5. k \in Started(q) => k \in Elems(q)
      BY <1>4
    <3>6. executing'[k] \in Nat /\ executing'[k] <= retryCount'[k] + 1
      BY <2>2, <2>4, <3>2, <3>3, <3>4, <3>5
    <3>7. k \in InQueue' => executing'[k] <= retryCount'[k]
      BY <2>2, <2>3, <2>4, <3>2, <3>3, <3>4
    <3>8. k \in runningJobs' => executing'[k] >= 1
      BY <1>4, <2>4, <3>1, <3>2, <3>3, <3>4
    <3> QED BY <3>6, <3>7, <3>8
  <2>5. CASE k # j
    <3>1. k \in Elems(q) => k \in InQueue
      BY <2>5
    <3>2. k \in runningJobs' => k \in runningJobs \/ k \in Started(q)
      BY <1>4 DEF r
    <3>3. /\ executing'[k] = executing[k] + (IF k \in Started(q) THEN 1 ELSE 0)
          /\ retryCount'[k] = retryCount[k]
      BY <1>6, <2>1, <2>2, <2>5
    <3>4. executing'[k] \in Nat /\ executing'[k] <= retryCount'[k] + 1
      BY <1>4, <1>6, <3>3
    <3>5. k \in InQueue' => executing'[k] <= retryCount'[k]
      BY <1>6, <2>3, <3>1, <3>3
    <3>6. k \in runningJobs' => executing'[k] >= 1
      BY <1>6, <3>2, <3>3
    <3> QED BY <3>4, <3>5, <3>6
  <2> QED BY <2>4, <2>5
<1>8. ASSUME NEW k \in JobId, k > jobs'
      PROVE  status'[k] = "unused" /\ executing'[k] = 0
  <2>1. status[k] = "unused" /\ executing[k] = 0
    BY <1>0, <1>2, <1>8 DEF Executions
  <2>2. k # j /\ k \notin Elems(q)
    BY <1>0, <2>1 DEF TypeOK
  <2> QED BY <1>2, <1>4, <2>1, <2>2
<1>9. Executions'
  BY <1>7, <1>8 DEF Executions
<1>10. TypeOK'
  <2>1. executing' \in [JobId -> Nat]
    BY <1>2, <1>7
  <2>2. completedJobs' \in Seq(JobId)
    BY <1>0, <1>2, RecordType DEF TypeOK
  <2>3. Len(pendingJobs') + Cardinality(runningJobs') <= MaxQueueSize + Concurrency
    BY <1>0, <1>1, <1>4
  <2>4. /\ jobs' \in 0..MaxJobs
        /\ priority' \in [JobId -> Nat] /\ createdAt' \in [JobId -> Nat]
        /\ paused' \in BOOLEAN /\ shuttingDown' \in BOOLEAN
        /\ draining' \in BOOLEAN /\ hung' \in BOOLEAN
        /\ shutdownCall' \in {"none", "polling", "returned"}
    BY <1>0, <1>2 DEF TypeOK
  <2> QED BY <1>4, <1>9, <2>1, <2>2, <2>3, <2>4, NextTypes
<1>11. WorkConserving'
  <2>1. ~paused /\ ~shuttingDown => Cardinality(runningJobs) = Concurrency \/ pendingJobs = <<>>
    BY <1>0 DEF WorkConserving
  <2>2. pendingJobs = <<>> => Len(q) <= 1
    BY <1>0, EmptySeq
  <2> QED BY <1>0, <1>1, <1>2, <1>4, <2>1, <2>2 DEF WorkConserving
<1>12. PromisesHonest'
  <2>1. ASSUME NEW k \in JobId
        PROVE  /\ promise'[k] = "waiting" => k \in InQueue' \cup runningJobs'
               /\ promise'[k] = "resolved" => status'[k] = "completed"
               /\ promise'[k] = "rejected" => status'[k] \in {"failed", "cancelled"}
    <3>1. k \in Started(q) => st[k] = "pending"
      BY <1>4 DEF Placed
    <3>2. CASE promise'[k] = "waiting"
      BY <1>4, <1>5, <3>2 DEF r
    <3>3. CASE promise'[k] = "resolved"
      BY <1>4, <3>1, <3>3
    <3>4. CASE promise'[k] = "rejected"
      BY <1>4, <3>1, <3>4
    <3> QED BY <3>2, <3>3, <3>4
  <2> QED BY <2>1 DEF PromisesHonest
<1>13. Sorted(priority, createdAt, pendingJobs)'
  BY <1>2, <1>4
<1>14. QuietStep
  <2> SUFFICES ASSUME shuttingDown
               PROVE  /\ runningJobs' \subseteq runningJobs
                      /\ \A k \in JobId : executing'[k] <= executing[k]
    BY DEF QuietStep
  <2>1. Started(q) = {}
    BY <1>4
  <2>2. runningJobs' \subseteq runningJobs
    BY <1>4, <2>1 DEF r
  <2>3. \A k \in JobId : executing'[k] <= executing[k]
    BY <1>2, <1>6, <2>1
  <2> QED BY <2>2, <2>3
<1>15. OrderedStep
  <2> SUFFICES ASSUME NEW i \in InQueue, NEW k \in InQueue', i \in runningJobs'
               PROVE  ~Before(priority, createdAt, k, i)
    BY DEF OrderedStep
  <2>1. i \in Started(q)
    BY <1>0, <1>4 DEF r
  <2> QED BY <1>4, <1>5, <2>1
<1> QED BY <1>9, <1>10, <1>11, <1>12, <1>13, <1>14, <1>15 DEF Inv

LEMMA EnqueueInv ==
  ASSUME Inv, NEW prio \in Priorities, NEW tick \in Ticks, NEW wait \in Waits,
         Enqueue(prio, tick, wait)
  PROVE  Inv' /\ QuietStep /\ OrderedStep
<1> DEFINE j == jobs + 1
           now == (IF jobs = 0 THEN 0 ELSE createdAt[jobs]) + tick
           p == [priority EXCEPT ![j] = prio]
           c == [createdAt EXCEPT ![j] = now]
           q == PushSorted(pendingJobs, p, c, j)
           st == [status EXCEPT ![j] = "pending"]
<1>0. /\ TypeOK /\ WorkConserving /\ PromisesHonest /\ Executions
      /\ InQueue = Elems(pendingJobs) /\ InQueue \subseteq JobId
      /\ InQueue \cap runningJobs = {}
      /\ Len(pendingJobs) \in Nat /\ Cardinality(runningJobs) \in Nat
      /\ Concurrency \in Nat \ {0} /\ MaxQueueSize \in Nat /\ MaxJobs \in Nat
      /\ MaxRetries \in Nat
      /\ Placed(pendingJobs, runningJobs, status)
  BY PlacedNow DEF Inv
<1>1. /\ jobs < MaxJobs /\ ~shuttingDown /\ Len(pendingJobs) < MaxQueueSize
      /\ jobs' = j /\ priority' = p /\ createdAt' = c
      /\ ProcessNext(q, runningJobs, st)
      /\ promise' = [promise EXCEPT ![j] = IF wait THEN "waiting" ELSE "none"]
      /\ executing' = [k \in JobId |->
                        executing[k] + IF k \in Started(q) THEN 1 ELSE 0]
      /\ UNCHANGED <<completedJobs, retryCount, paused, shuttingDown, draining,
                    shutdownCall, hung>>
  BY DEF Enqueue
<1>2. /\ jobs \in 0..MaxJobs /\ j \in JobId /\ j > jobs
      /\ prio \in Nat /\ tick \in Nat /\ wait \in BOOLEAN
  BY <1>0, <1>1, ConstantsAssumption DEF ConstantsAssumption, TypeOK, JobId
<1>3. now \in Nat
  <2>1. jobs # 0 => jobs \in JobId
    BY <1>0, <1>2 DEF JobId
  <2>2. jobs # 0 => createdAt[jobs] \in Nat
    BY <1>0, <2>1 DEF TypeOK
  <2> QED BY <1>2, <2>2
<1>4. p \in [JobId -> Nat] /\ c \in [JobId -> Nat]
  BY <1>0, <1>2, <1>3 DEF TypeOK
<1>5. status[j] = "unused" /\ executing[j] = 0
  BY <1>0, <1>2 DEF Executions
<1>6. j \notin Elems(pendingJobs) /\ j \notin runningJobs
  BY <1>0, <1>2, <1>5 DEF TypeOK
<1>7. /\ pendingJobs \in Seq(JobId) /\ Injective(pendingJobs)
      /\ \A i \in 1..Len(pendingJobs) : pendingJobs[i] \in JobId /\ pendingJobs[i] # j
  BY <1>0, <1>6, ElementOfSeq DEF Placed, Elems
<1> HIDE DEF now
<1>8. Sorted(p, c, pendingJobs)
  <2> SUFFICES ASSUME NEW i \in 1..Len(pendingJobs), NEW k \in 1..Len(pendingJobs), i < k
               PROVE  ~Before(p, c, pendingJobs[k], pendingJobs[i])
    BY DEF Sorted
  <2>1. ~Before(priority, createdAt, pendingJobs[k], pendingJobs[i])
    BY DEF Inv, Sorted
  <2>2. /\ p[pendingJobs[i]] = priority[pendingJobs[i]]
        /\ p[pendingJobs[k]] = priority[pendingJobs[k]]
        /\ c[pendingJobs[i]] = createdAt[pendingJobs[i]]
        /\ c[pendingJobs[k]] = createdAt[pendingJobs[k]]
    BY <1>0, <1>7 DEF TypeOK
  <2> QED BY <2>1, <2>2 DEF Before
<1> HIDE DEF p, c
<1>9. q \in Seq(JobId) /\ Sorted(p, c, q)
  BY <1>2, <1>4, <1>7, <1>8, PushSortedShape, PushSortedSorts
<1>10. Len(q) = Len(pendingJobs) + 1 /\ Elems(q) = Elems(pendingJobs) \cup {j}
       /\ Injective(q)
  <2>1. PICK a \in 0..Len(pendingJobs) : Inserted(pendingJobs, q, j, a)
    BY <1>2, <1>7, PushSortedShape
  <2>2. Len(q) = Len(pendingJobs) + 1
    BY <2>1 DEF Inserted
  <2> HIDE DEF q
  <2> QED BY <1>2, <1>6, <1>7, <1>9, <2>1, <2>2, InsertedElems
<1>11. Placed(q, runningJobs, st)
  <2>1. st \in [JobId -> Status]
    BY <1>0 DEF TypeOK, Status
  <2>2. ASSUME NEW k \in JobId
        PROVE  /\ st[k] = "pending" <=> k \in Elems(q)
               /\ st[k] = "running" <=> k \in runningJobs
    <3>1. CASE k = j
      BY <1>0, <1>2, <1>6, <1>10, <3>1 DEF TypeOK
    <3>2. CASE k # j
      BY <1>0, <1>2, <1>10, <3>2 DEF TypeOK
    <3> QED BY <3>1, <3>2
  <2> QED BY <1>0, <1>9, <1>10, <2>1, <2>2 DEF Placed
<1>12. Cardinality(runningJobs) <= Concurrency
  BY <1>0 DEF TypeOK
<1> HIDE DEF q, st
<1>13. StartedFrom(q, runningJobs, st)
  BY <1>1, <1>11, <1>12, Starting
<1>14. /\ Placed(pendingJobs', runningJobs', status')
       /\ Cardinality(runningJobs') <= Concurrency
       /\ Len(pendingJobs') + Cardinality(runningJobs') = Len(q) + Cardinality(runningJobs)
       /\ Elems(pendingJobs') \cup runningJobs' = Elems(q) \cup runningJobs
       /\ Elems(pendingJobs') \subseteq Elems(q)
       /\ runningJobs' = runningJobs \cup Started(q)
       /\ Started(q) \subseteq Elems(q)
       /\ \A k \in JobId : k \notin Started(q) => status'[k] = st[k]
       /\ Sorted(p, c, pendingJobs')
       /\ ~paused /\ ~shuttingDown
            /\ (Cardinality(runningJobs) >= Concurrency - 1 \/ Len(q) <= 1)
          => Cardinality(runningJobs') = Concurrency \/ pendingJobs' = <<>>
  BY <1>9, <1>13 DEF StartedFrom
<1>15. InQueue' = Elems(pendingJobs')
  BY DEF InQueue, Elems
<1>16. InQueue' \cap Started(q) = {}
  <2>1. Elems(pendingJobs') \cap runningJobs' = {}
    BY <1>14, ElementOfSeq DEF Placed, Elems
  <2> QED BY <1>14, <1>15, <2>1
<1>17. ASSUME NEW k \in JobId
       PROVE  /\ executing'[k] \in Nat
              /\ executing'[k] <= retryCount'[k] + 1
              /\ k \in InQueue' => executing'[k] <= retryCount'[k]
              /\ k \in runningJobs' => executing'[k] >= 1
              /\ k > jobs' => status'[k] = "unused" /\ executing'[k] = 0
  <2>1. /\ executing[k] \in Nat /\ retryCount[k] \in Nat
        /\ executing[k] <= retryCount[k] + 1
        /\ k \in InQueue => executing[k] <= retryCount[k]
        /\ k \in runningJobs => executing[k] >= 1
        /\ k > jobs => status[k] = "unused" /\ executing[k] = 0
    <3>1. executing[k] \in Nat /\ retryCount[k] \in Nat
      BY <1>0 DEF TypeOK
    <3> QED BY <1>0, <3>1 DEF Executions
  <2>2. executing'[k] = executing[k] + (IF k \in Started(q) THEN 1 ELSE 0)
        /\ retryCount'[k] = retryCount[k]
    BY <1>1
  <2>3. k \in Elems(q) => executing[k] <= retryCount[k]
    BY <1>0, <1>5, <1>10, <2>1
  <2>4. /\ executing'[k] \in Nat
        /\ executing'[k] <= retryCount'[k] + 1
        /\ k \in InQueue' => executing'[k] <= retryCount'[k]
        /\ k \in runningJobs' => executing'[k] >= 1
    BY <1>14, <1>15, <1>16, <2>1, <2>2, <2>3
  <2>5. ASSUME k > jobs' PROVE status'[k] = "unused" /\ executing'[k] = 0
    <3>1. k > jobs /\ k # j
      BY <1>1, <1>2, <2>5 DEF JobId
    <3>2. status[k] = "unused" /\ executing[k] = 0 /\ st[k] = status[k]
      BY <1>0, <2>1, <3>1 DEF st, TypeOK
    <3>3. k \notin Started(q)
      BY <1>0, <1>10, <1>14, <3>1, <3>2 DEF TypeOK
    <3> QED BY <1>14, <2>2, <3>2, <3>3
  <2> QED BY <2>4, <2>5
<1>18. Executions'
  BY <1>17 DEF Executions
<1>19. TypeOK'
  <2>1. executing' \in [JobId -> Nat]
    BY <1>1, <1>17
  <2>2. promise' \in [JobId -> Promises]
    BY <1>0, <1>1, <1>2 DEF TypeOK, Promises
  <2>3. Len(pendingJobs') + Cardinality(runningJobs') <= MaxQueueSize + Concurrency
    BY <1>0, <1>1, <1>10, <1>12, <1>14
  <2>4. jobs' \in 0..MaxJobs
    BY <1>0, <1>1, <1>2
  <2>5. /\ paused' \in BOOLEAN /\ shuttingDown' \in BOOLEAN
        /\ draining' \in BOOLEAN /\ hung' \in BOOLEAN
        /\ shutdownCall' \in {"none", "polling", "returned"}
        /\ completedJobs' \in Seq(JobId) /\ retryCount' \in [JobId -> 0..MaxRetries]
    BY <1>0, <1>1 DEF TypeOK
  <2> QED BY <1>1, <1>4, <1>14, <1>18, <2>1, <2>2, <2>3, <2>4, <2>5, NextTypes
<1>20. WorkConserving'
  <2>1. ~paused /\ ~shuttingDown => Cardinality(runningJobs) = Concurrency \/ pendingJobs = <<>>
    BY <1>0 DEF WorkConserving
  <2>2. pendingJobs = <<>> => Len(q) <= 1
    BY <1>0, <1>10, EmptySeq
  <2> QED BY <1>0, <1>1, <1>14, <2>1, <2>2 DEF WorkConserving
<1>21. PromisesHonest'
  <2>1. ASSUME NEW k \in JobId
        PROVE  /\ promise'[k] = "waiting" => k \in InQueue' \cup runningJobs'
               /\ promise'[k] = "resolved" => status'[k] = "completed"
               /\ promise'[k] = "rejected" => status'[k] \in {"failed", "cancelled"}
    <3>1. CASE k = j
      <4>1. promise'[k] \in {"waiting", "none"}
        BY <1>0, <1>1, <1>2, <3>1 DEF TypeOK
      <4> QED BY <1>10, <1>14, <1>15, <3>1, <4>1
    <3>2. CASE k # j
      <4>1. promise'[k] = promise[k] /\ st[k] = status[k]
        BY <1>0, <1>1, <3>2 DEF TypeOK, st
      <4>2. k \in Started(q) => status[k] = "pending"
        BY <1>0, <1>10, <1>14, <3>2 DEF TypeOK
      <4>3. /\ promise[k] = "waiting" => k \in InQueue \cup runningJobs
            /\ promise[k] = "resolved" => status[k] = "completed"
            /\ promise[k] = "rejected" => status[k] \in {"failed", "cancelled"}
        BY <1>0 DEF PromisesHonest
      <4>4. status[k] # "pending" => status'[k] = status[k]
        BY <1>14, <4>1, <4>2
      <4> QED BY <1>0, <1>10, <1>14, <1>15, <4>1, <4>3, <4>4
    <3> QED BY <3>1, <3>2
  <2> QED BY <2>1 DEF PromisesHonest
<1>22. Sorted(priority, createdAt, pendingJobs)'
  BY <1>1, <1>14
<1>23. QuietStep
  BY <1>1 DEF QuietStep
<1>24. OrderedStep
  <2> SUFFICES ASSUME NEW i \in InQueue, NEW k \in InQueue', i \in runningJobs'
               PROVE  FALSE
    BY DEF OrderedStep
  <2>1. i \in Started(q) /\ pendingJobs # <<>>
    BY <1>0, <1>14, EmptySeq DEF Elems
  <2>2. CanStart(q, runningJobs)
    <3>1. runningJobs' # runningJobs
      BY <1>0, <1>14, <2>1
    <3> QED BY <1>1, <3>1 DEF ProcessNext
  <2>3. Cardinality(runningJobs) = Concurrency
    BY <1>0, <2>1, <2>2 DEF CanStart, WorkConserving
  <2> QED BY <1>0, <2>2, <2>3 DEF CanStart
<1> QED BY <1>18, <1>19, <1>20, <1>21, <1>22, <1>23, <1>24 DEF Inv

LEMMA CompleteInv ==
  ASSUME Inv, NEW j \in JobId, Complete(j)
  PROVE  Inv' /\ QuietStep /\ OrderedStep
<1> DEFINE st == [status EXCEPT ![j] = "completed"]
<1>1. /\ TypeOK /\ PromisesHonest /\ j \in runningJobs
      /\ Settle(j, pendingJobs, st, TRUE)
      /\ promise' = SettlePromise(j, "resolved") /\ retryCount' = retryCount
      /\ Sorted(priority, createdAt, pendingJobs)
  BY DEF Inv, Complete
<1>2. /\ InQueue = Elems(pendingJobs) /\ InQueue \cap runningJobs = {}
      /\ Placed(pendingJobs, runningJobs, status) /\ Len(pendingJobs) \in Nat
  BY <1>1, PlacedNow
<1>3. status \in [JobId -> Status] /\ promise \in [JobId -> Promises]
      /\ retryCount \in [JobId -> 0..MaxRetries] /\ MaxRetries \in Nat
  BY <1>1, ConstantsAssumption DEF TypeOK, ConstantsAssumption
<1>4. j \notin Elems(pendingJobs)
  BY <1>1, <1>2
<1>5. Placed(pendingJobs, runningJobs \ {j}, st)
  BY <1>2, <1>3, <1>4 DEF Placed, Status
<1>6. promise' \in [JobId -> Promises]
  BY <1>1, <1>3 DEF SettlePromise, Promises
<1>7. ASSUME NEW k \in JobId
      PROVE  /\ promise'[k] = "waiting" =>
                  k \in Elems(pendingJobs) \cup (runningJobs \ {j})
             /\ promise'[k] = "resolved" => st[k] = "completed"
             /\ promise'[k] = "rejected" => st[k] \in {"failed", "cancelled"}
  <2>1. /\ promise[k] = "waiting" => k \in InQueue \cup runningJobs
        /\ promise[k] = "resolved" => status[k] = "completed"
        /\ promise[k] = "rejected" => status[k] \in {"failed", "cancelled"}
    BY <1>1 DEF PromisesHonest
  <2>2. CASE k = j
    <3>1. status[j] = "running"
      BY <1>1 DEF TypeOK
    <3>2. promise'[j] # "waiting" /\ promise'[j] # "rejected"
      BY <1>1, <1>3, <2>1, <2>2, <3>1 DEF SettlePromise
    <3> QED BY <1>3, <2>2, <3>2
  <2>3. CASE k # j
    <3>1. promise'[k] = promise[k] /\ st[k] = status[k]
      BY <1>1, <1>3, <2>3 DEF SettlePromise
    <3> QED BY <1>2, <2>1, <2>3, <3>1
  <2> QED BY <2>2, <2>3
<1>8. \A k \in JobId : k # j => st[k] = status[k]
  BY <1>3
<1>9. /\ retryCount' \in [JobId -> 0..MaxRetries]
      /\ \A k \in JobId : retryCount'[k] =
           retryCount[k] + (IF k = j /\ j \in Elems(pendingJobs) THEN 1 ELSE 0)
  BY <1>1, <1>3, <1>4
<1> HIDE DEF st
<1>10. Outcome(j, pendingJobs, st)
  BY <1>1, <1>2, <1>4, <1>5, <1>6, <1>7, <1>8, <1>9 DEF Outcome
<1> QED BY <1>1, <1>10, SettleInv

LEMMA FailInv ==
  ASSUME Inv, NEW j \in JobId, NEW ended \in BOOLEAN, Fail(j, ended)
  PROVE  Inv' /\ QuietStep /\ OrderedStep
<1> DEFINE st == [status EXCEPT ![j] = "failed"]
<1>1. /\ TypeOK /\ PromisesHonest /\ j \in runningJobs
      /\ Settle(j, pendingJobs, st, ended)
      /\ promise' = SettlePromise(j, "rejected") /\ retryCount' = retryCount
      /\ Sorted(priority, createdAt, pendingJobs)
  BY DEF Inv, Fail
<1>2. /\ InQueue = Elems(pendingJobs) /\ InQueue \cap runningJobs = {}
      /\ Placed(pendingJobs, runningJobs, status) /\ Len(pendingJobs) \in Nat
  BY <1>1, PlacedNow
<1>3. status \in [JobId -> Status] /\ promise \in [JobId -> Promises]
      /\ retryCount \in [JobId -> 0..MaxRetries] /\ MaxRetries \in Nat
  BY <1>1, ConstantsAssumption DEF TypeOK, ConstantsAssumption
<1>4. j \notin Elems(pendingJobs)
  BY <1>1, <1>2
<1>5. Placed(pendingJobs, runningJobs \ {j}, st)
  BY <1>2, <1>3, <1>4 DEF Placed, Status
<1>6. promise' \in [JobId -> Promises]
  BY <1>1, <1>3 DEF SettlePromise, Promises
<1>7. ASSUME NEW k \in JobId
      PROVE  /\ promise'[k] = "waiting" =>
                  k \in Elems(pendingJobs) \cup (runningJobs \ {j})
             /\ promise'[k] = "resolved" => st[k] = "completed"
             /\ promise'[k] = "rejected" => st[k] \in {"failed", "cancelled"}
  <2>1. /\ promise[k] = "waiting" => k \in InQueue \cup runningJobs
        /\ promise[k] = "resolved" => status[k] = "completed"
        /\ promise[k] = "rejected" => status[k] \in {"failed", "cancelled"}
    BY <1>1 DEF PromisesHonest
  <2>2. CASE k = j
    <3>1. status[j] = "running"
      BY <1>1 DEF TypeOK
    <3>2. promise'[j] # "waiting" /\ promise'[j] # "resolved"
      BY <1>1, <1>3, <2>1, <2>2, <3>1 DEF SettlePromise
    <3> QED BY <1>3, <2>2, <3>2
  <2>3. CASE k # j
    <3>1. promise'[k] = promise[k] /\ st[k] = status[k]
      BY <1>1, <1>3, <2>3 DEF SettlePromise
    <3> QED BY <1>2, <2>1, <2>3, <3>1
  <2> QED BY <2>2, <2>3
<1>8. \A k \in JobId : k # j => st[k] = status[k]
  BY <1>3
<1>9. /\ retryCount' \in [JobId -> 0..MaxRetries]
      /\ \A k \in JobId : retryCount'[k] =
           retryCount[k] + (IF k = j /\ j \in Elems(pendingJobs) THEN 1 ELSE 0)
  BY <1>1, <1>3, <1>4
<1> HIDE DEF st
<1>10. Outcome(j, pendingJobs, st)
  BY <1>1, <1>2, <1>4, <1>5, <1>6, <1>7, <1>8, <1>9 DEF Outcome
<1> QED BY <1>1, <1>10, SettleInv

LEMMA RetryInv ==
  ASSUME Inv, NEW j \in JobId, NEW ended \in BOOLEAN, Retry(j, ended)
  PROVE  Inv' /\ QuietStep /\ OrderedStep
<1> DEFINE st == [status EXCEPT ![j] = "pending"]
           q == PushSorted(pendingJobs, priority, createdAt, j)
<1>1. /\ TypeOK /\ PromisesHonest /\ j \in runningJobs /\ CanRetry(j)
      /\ Settle(j, q, st, ended)
      /\ retryCount' = [retryCount EXCEPT ![j] = @ + 1] /\ promise' = promise
      /\ Sorted(priority, createdAt, pendingJobs)
  BY DEF Inv, Retry
<1>2. /\ InQueue = Elems(pendingJobs) /\ InQueue \cap runningJobs = {}
      /\ Placed(pendingJobs, runningJobs, status) /\ Len(pendingJobs) \in Nat
      /\ pendingJobs \in Seq(JobId) /\ Injective(pendingJobs)
  BY <1>1, PlacedNow DEF Placed
<1>3. status \in [JobId -> Status] /\ promise \in [JobId -> Promises]
      /\ retryCount \in [JobId -> 0..MaxRetries] /\ MaxRetries \in Nat
      /\ priority \in [JobId -> Nat] /\ createdAt \in [JobId -> Nat]
  BY <1>1, ConstantsAssumption DEF TypeOK, ConstantsAssumption
<1>4. j \notin Elems(pendingJobs)
  BY <1>1, <1>2
<1>5. q \in Seq(JobId) /\ Sorted(priority, createdAt, q)
  BY <1>1, <1>2, <1>3, PushSortedShape, PushSortedSorts
<1>6. Len(q) = Len(pendingJobs) + 1 /\ Elems(q) = Elems(pendingJobs) \cup {j}
      /\ Injective(q)
  <2>1. PICK a \in 0..Len(pendingJobs) : Inserted(pendingJobs, q, j, a)
    BY <1>2, PushSortedShape
  <2>2. Len(q) = Len(pendingJobs) + 1
    BY <2>1 DEF Inserted
  <2> HIDE DEF q
  <2> QED BY <1>2, <1>4, <1>5, <2>1, <2>2, InsertedElems
<1> HIDE DEF q
<1>7. Placed(q, runningJobs \ {j}, st)
  BY <1>2, <1>3, <1>4, <1>5, <1>6 DEF Placed, Status
<1>8. promise' \in [JobId -> Promises]
  BY <1>1, <1>3
<1>9. ASSUME NEW k \in JobId
      PROVE  /\ promise'[k] = "waiting" => k \in Elems(q) \cup (runningJobs \ {j})
             /\ promise'[k] = "resolved" => st[k] = "completed"
             /\ promise'[k] = "rejected" => st[k] \in {"failed", "cancelled"}
  <2>1. /\ promise[k] = "waiting" => k \in InQueue \cup runningJobs
        /\ promise[k] = "resolved" => status[k] = "completed"
        /\ promise[k] = "rejected" => status[k] \in {"failed", "cancelled"}
    BY <1>1 DEF PromisesHonest
  <2>2. status[j] = "running"
    BY <1>1 DEF TypeOK
  <2>3. CASE k = j
    BY <1>1, <1>6, <2>1, <2>2, <2>3
  <2>4. CASE k # j
    BY <1>1, <1>2, <1>3, <1>6, <2>1, <2>4
  <2> QED BY <2>3, <2>4
<1>10. \A k \in JobId : k # j => st[k] = status[k]
  BY <1>3
<1>11. /\ retryCount' \in [JobId -> 0..MaxRetries]
       /\ \A k \in JobId : retryCount'[k] =
            retryCount[k] + (IF k = j /\ j \in Elems(q) THEN 1 ELSE 0)
  <2>1. retryCount[j] + 1 \in 0..MaxRetries
    BY <1>1, <1>3 DEF CanRetry
  <2> QED BY <1>1, <1>3, <1>6, <2>1
<1>12. /\ Elems(q) \subseteq InQueue \cup {j}
       /\ Len(q) = Len(pendingJobs) + (IF j \in Elems(q) THEN 1 ELSE 0)
  BY <1>2, <1>6
<1>13. j \in runningJobs /\ Settle(j, q, st, ended)
  BY <1>1
<1>14. Sorted(priority, createdAt, q)
  BY <1>5
<1> HIDE DEF st
<1>15. Outcome(j, q, st)
  BY <1>7, <1>8, <1>9, <1>10, <1>11, <1>12, <1>14 DEF Outcome
<1> QED BY <1>13, <1>15, SettleInv

LEMMA LateEndInv ==
  ASSUME Inv, NEW j \in JobId, LateEnd(j)
  PROVE  Inv' /\ QuietStep /\ OrderedStep
<1>1. /\ TypeOK /\ WorkConserving /\ PromisesHonest /\ Executions
      /\ Sorted(priority, createdAt, pendingJobs)
      /\ executing[j] > (IF j \in runningJobs THEN 1 ELSE 0)
      /\ executing' = [executing EXCEPT ![j] = @ - 1]
      /\ UNCHANGED <<jobs, priority, createdAt, status, pendingJobs, runningJobs,
                 completedJobs, retryCount, promise, paused, shuttingDown,
                 draining, shutdownCall, hung>>
  BY DEF Inv, LateEnd
<1>2. InQueue' = InQueue
  BY <1>1 DEF InQueue
<1>3. executing \in [JobId -> 0..(MaxRetries + 1)] /\ MaxRetries \in Nat
      /\ retryCount \in [JobId -> 0..MaxRetries]
  BY <1>1, ConstantsAssumption DEF TypeOK, ConstantsAssumption
<1>4. executing[j] - 1 \in 0..(MaxRetries + 1)
      /\ executing[j] - 1 >= (IF j \in runningJobs THEN 1 ELSE 0)
  BY <1>1, <1>3
<1>5. executing' \in [JobId -> 0..(MaxRetries + 1)]
  BY <1>1, <1>3, <1>4
<1>6. TypeOK'
  BY <1>1, <1>2, <1>5 DEF TypeOK
<1>7. Executions'
  <2> SUFFICES ASSUME NEW k \in JobId
               PROVE  /\ executing'[k] <= retryCount'[k] + 1
                      /\ k \in InQueue' => executing'[k] <= retryCount'[k]
                      /\ k \in runningJobs' => executing'[k] >= 1
                      /\ k > jobs' => status'[k] = "unused" /\ executing'[k] = 0
    BY DEF Executions
  <2>1. /\ executing[k] \in Nat /\ retryCount[k] \in Nat
        /\ executing[k] <= retryCount[k] + 1
        /\ k \in InQueue => executing[k] <= retryCount[k]
        /\ k \in runningJobs => executing[k] >= 1
        /\ k > jobs => status[k] = "unused" /\ executing[k] = 0
    <3>1. executing[k] \in Nat /\ retryCount[k] \in Nat
      BY <1>3
    <3> QED BY <1>1, <3>1 DEF Executions
  <2>2. CASE k = j
    BY <1>1, <1>2, <1>3, <1>4, <2>1, <2>2
  <2>3. CASE k # j
    BY <1>1, <1>2, <1>3, <2>1, <2>3
  <2> QED BY <2>2, <2>3
<1>8. WorkConserving' /\ PromisesHonest' /\ Sorted(priority, createdAt, pendingJobs)'
  BY <1>1, <1>2 DEF WorkConserving, PromisesHonest
<1>9. QuietStep
  BY <1>1, <1>3 DEF QuietStep
<1>10. OrderedStep
  BY <1>1, PlacedNow DEF OrderedStep
<1> QED BY <1>6, <1>7, <1>8, <1>9, <1>10 DEF Inv

-----------------------------------------------------------------------------
(* Taking one job out of the queue.                                        *)
Without(s, i) == [k \in 1..(Len(s) - 1) |-> IF k < i THEN s[k] ELSE s[k + 1]]

LEMMA WithoutShape ==
  ASSUME NEW s \in Seq(JobId), NEW i \in 1..Len(s), Injective(s)
  PROVE  /\ Without(s, i) \in Seq(JobId) /\ Len(Without(s, i)) = Len(s) - 1
         /\ Elems(Without(s, i)) = Elems(s) \ {s[i]}
         /\ Injective(Without(s, i))
         /\ \A p, c : Sorted(p, c, s) => Sorted(p, c, Without(s, i))
<1> DEFINE q == Without(s, i)
           At(k) == IF k < i THEN k ELSE k + 1
<1>1. Len(s) \in Nat /\ Len(s) >= 1 /\ \A k \in 1..Len(s) : s[k] \in JobId
  BY LenProperties, ElementOfSeq
<1>2. \A k \in 1..(Len(s) - 1) : At(k) \in 1..Len(s) /\ q[k] = s[At(k)] /\ At(k) # i
  BY <1>1 DEF Without
<1>3. q \in Seq(JobId) /\ Len(q) = Len(s) - 1
  <2>1. \A k \in 1..(Len(s) - 1) : Without(s, i)[k] \in JobId
    BY <1>1, <1>2
  <2>2. Len(s) - 1 \in Nat
    BY <1>1
  <2> QED BY <2>1, <2>2, IsASeq DEF Without
<1>4. \A k, m \in 1..(Len(s) - 1) : k < m => At(k) < At(m)
  BY <1>1
<1>5. \A k \in 1..Len(s) : k # i => \E m \in 1..(Len(s) - 1) : At(m) = k
  <2> SUFFICES ASSUME NEW k \in 1..Len(s), k # i
               PROVE  \E m \in 1..(Len(s) - 1) : At(m) = k
    OBVIOUS
  <2>1. CASE k < i
    <3>1. k \in 1..(Len(s) - 1) /\ At(k) = k
      BY <1>1, <2>1
    <3> QED BY <3>1
  <2>2. CASE k > i
    <3>1. k - 1 \in 1..(Len(s) - 1) /\ At(k - 1) = k
      BY <1>1, <2>2
    <3> QED BY <3>1
  <2> QED BY <1>1, <2>1, <2>2
<1> HIDE DEF q, At
<1>6. Injective(q)
  <2> SUFFICES ASSUME NEW k \in 1..Len(q), NEW m \in 1..Len(q), q[k] = q[m], k < m
               PROVE  FALSE
    BY <1>1, <1>3 DEF Injective
  <2>1. At(k) < At(m) /\ s[At(k)] = s[At(m)] /\ At(k) \in 1..Len(s)
        /\ At(m) \in 1..Len(s)
    BY <1>2, <1>3, <1>4
  <2> QED BY <2>1 DEF Injective
<1>7. Elems(q) = Elems(s) \ {s[i]}
  <2>1. ASSUME NEW k \in 1..Len(q) PROVE q[k] \in Elems(s) \ {s[i]}
    <3>1. At(k) \in 1..Len(s) /\ q[k] = s[At(k)] /\ At(k) # i
      BY <1>2, <1>3
    <3> QED BY <3>1 DEF Elems, Injective
  <2>2. ASSUME NEW k \in 1..Len(s), s[k] # s[i] PROVE s[k] \in Elems(q)
    <3>1. PICK m \in 1..(Len(s) - 1) : At(m) = k
      BY <1>5, <2>2
    <3> QED BY <1>2, <1>3, <3>1 DEF Elems
  <2> QED BY <2>1, <2>2 DEF Elems
<1>8. ASSUME NEW p, NEW c, Sorted(p, c, s) PROVE Sorted(p, c, q)
  <2> SUFFICES ASSUME NEW k \in 1..Len(q), NEW m \in 1..Len(q), k < m
               PROVE  ~Before(p, c, q[m], q[k])
    BY DEF Sorted
  <2>1. At(k) < At(m) /\ q[k] = s[At(k)] /\ q[m] = s[At(m)] /\ At(k) \in 1..Len(s)
        /\ At(m) \in 1..Len(s)
    BY <1>2, <1>3, <1>4
  <2> QED BY <1>8, <2>1 DEF Sorted
<1> QED BY <1>3, <1>6, <1>7, <1>8 DEF q

(* A step that starts nothing, takes the jobs of gone out of the queue as  *)
(* cancelled, rejects their promises and leaves the others alone.          *)
Cancels(gone, q) ==
  /\ q \in Seq(JobId) /\ Injective(q) /\ Len(q) <= Len(pendingJobs)
  /\ gone \subseteq InQueue /\ Elems(q) = InQueue \ gone
  /\ Sorted(priority, createdAt, q)
  /\ pendingJobs' = q
  /\ status' = [j \in JobId |-> IF j \in gone THEN "cancelled" ELSE status[j]]
  /\ promise' = RejectAll(gone)
  /\ completedJobs' \in Seq(JobId)
  /\ UNCHANGED <<jobs, priority, createdAt, runningJobs, retryCount, executing,
                 paused, draining, hung>>
  /\ shuttingDown' \in BOOLEAN /\ (shuttingDown' = FALSE => shuttingDown = FALSE)
  /\ shutdownCall' \in {"none", "polling", "returned"}

LEMMA CancelsInv ==
  ASSUME Inv, NEW gone, NEW q, Cancels(gone, q)
  PROVE  Inv' /\ QuietStep /\ OrderedStep
<1>0. /\ TypeOK /\ WorkConserving /\ PromisesHonest /\ Executions
      /\ InQueue = Elems(pendingJobs) /\ InQueue \subseteq JobId
      /\ InQueue \cap runningJobs = {}
      /\ Len(pendingJobs) \in Nat /\ Cardinality(runningJobs) \in Nat
      /\ Concurrency \in Nat \ {0} /\ MaxQueueSize \in Nat
      /\ pendingJobs \in Seq(JobId)
  BY PlacedNow DEF Inv, Placed
<1> USE DEF Cancels
<1>1. InQueue' = Elems(q) /\ Elems(pendingJobs') = Elems(q)
  BY DEF InQueue, Elems
<1>2. /\ status \in [JobId -> Status] /\ promise \in [JobId -> Promises]
      /\ runningJobs \in SUBSET JobId
      /\ \A j \in JobId : /\ status[j] = "pending" <=> j \in InQueue
                          /\ status[j] = "running" <=> j \in runningJobs
  BY <1>0 DEF TypeOK
<1>3. Placed(pendingJobs', runningJobs', status')
  <2>1. status' \in [JobId -> Status]
    BY <1>2 DEF Status
  <2>2. \A j \in JobId : /\ status'[j] = "pending" <=> j \in Elems(q)
                         /\ status'[j] = "running" <=> j \in runningJobs
    BY <1>0, <1>2
  <2> QED BY <1>1, <1>2, <2>1, <2>2 DEF Placed
<1>4. Executions'
  <2> SUFFICES ASSUME NEW k \in JobId
               PROVE  /\ executing'[k] <= retryCount'[k] + 1
                      /\ k \in InQueue' => executing'[k] <= retryCount'[k]
                      /\ k \in runningJobs' => executing'[k] >= 1
                      /\ k > jobs' => status'[k] = "unused" /\ executing'[k] = 0
    BY DEF Executions
  <2>1. /\ executing[k] <= retryCount[k] + 1
        /\ k \in InQueue => executing[k] <= retryCount[k]
        /\ k \in runningJobs => executing[k] >= 1
        /\ k > jobs => status[k] = "unused" /\ executing[k] = 0
    BY <1>0 DEF Executions
  <2>2. k > jobs => status'[k] = "unused"
    BY <1>2, <2>1
  <2> QED BY <1>1, <2>1, <2>2
<1>5. TypeOK'
  <2>1. promise' \in [JobId -> Promises]
    BY <1>2 DEF RejectAll, Promises
  <2>2. Len(q) \in Nat
    BY LenProperties
  <2>3. /\ Cardinality(runningJobs') <= Concurrency
        /\ Len(pendingJobs') + Cardinality(runningJobs') <= MaxQueueSize + Concurrency
    BY <1>0, <2>2 DEF TypeOK
  <2>4. executing' \in [JobId -> Nat]
    <3>1. MaxRetries \in Nat
      BY ConstantsAssumption DEF ConstantsAssumption
    <3>2. executing \in [JobId -> 0..(MaxRetries + 1)]
      BY <1>0 DEF TypeOK
    <3> QED BY <3>1, <3>2
  <2>5. /\ jobs' \in 0..MaxJobs
        /\ priority' \in [JobId -> Nat] /\ createdAt' \in [JobId -> Nat]
        /\ retryCount' \in [JobId -> 0..MaxRetries]
        /\ paused' \in BOOLEAN /\ draining' \in BOOLEAN /\ hung' \in BOOLEAN
        /\ shuttingDown' \in BOOLEAN /\ completedJobs' \in Seq(JobId)
        /\ shutdownCall' \in {"none", "polling", "returned"}
    BY <1>0 DEF TypeOK
  <2> QED BY <1>3, <1>4, <2>1, <2>3, <2>4, <2>5, NextTypes
<1>6. WorkConserving'
  <2>1. pendingJobs = <<>> => q = <<>>
    <3>1. Len(q) \in Nat
      BY LenProperties
    <3> QED BY <1>0, <3>1, EmptySeq
  <2> QED BY <1>0, <2>1 DEF WorkConserving
<1>7. PromisesHonest'
  <2> SUFFICES ASSUME NEW k \in JobId
        PROVE  /\ promise'[k] = "waiting" => k \in InQueue' \cup runningJobs'
               /\ promise'[k] = "resolved" => status'[k] = "completed"
               /\ promise'[k] = "rejected" => status'[k] \in {"failed", "cancelled"}
    BY DEF PromisesHonest
  <2>1. /\ promise[k] = "waiting" => k \in InQueue \cup runningJobs
        /\ promise[k] = "resolved" => status[k] = "completed"
        /\ promise[k] = "rejected" => status[k] \in {"failed", "cancelled"}
    BY <1>0 DEF PromisesHonest
  <2>2. promise'[k] = IF k \in gone /\ promise[k] = "waiting"
                      THEN "rejected" ELSE promise[k]
    BY DEF RejectAll
  <2>3. status'[k] = IF k \in gone THEN "cancelled" ELSE status[k]
    OBVIOUS
  <2>4. k \in gone => status[k] = "pending"
    BY <1>2
  <2> QED BY <1>1, <2>1, <2>2, <2>3, <2>4
<1>8. Sorted(priority, createdAt, pendingJobs)'
  OBVIOUS
<1>9. QuietStep
  <2>1. MaxRetries \in Nat /\ executing \in [JobId -> 0..(MaxRetries + 1)]
    BY <1>0, ConstantsAssumption DEF ConstantsAssumption, TypeOK
  <2> QED BY <2>1 DEF QuietStep
<1>10. OrderedStep
  BY <1>0 DEF OrderedStep
<1> QED BY <1>4, <1>5, <1>6, <1>7, <1>8, <1>9, <1>10 DEF Inv

LEMMA CancelCancels ==
  ASSUME Inv, NEW i, Cancel(i)
  PROVE  \E gone, q : Cancels(gone, q)
<1> DEFINE j == pendingJobs[i]
<1>1. /\ TypeOK /\ Sorted(priority, createdAt, pendingJobs)
      /\ InQueue = Elems(pendingJobs) /\ InQueue \subseteq JobId
      /\ pendingJobs \in Seq(JobId) /\ Injective(pendingJobs)
      /\ Len(pendingJobs) \in Nat
  BY PlacedNow DEF Inv, Placed
<1>2. /\ i \in 1..Len(pendingJobs)
      /\ status' = [status EXCEPT ![j] = "cancelled"]
      /\ pendingJobs' = Without(pendingJobs, i)
      /\ completedJobs' = Record(completedJobs, j)
      /\ promise' = RejectAll({j})
      /\ UNCHANGED <<jobs, priority, createdAt, runningJobs, retryCount,
                    executing, paused, shuttingDown, draining, shutdownCall,
                    hung>>
  BY DEF Cancel, Without
<1>3. j \in JobId /\ j \in InQueue
  BY <1>1, <1>2 DEF Elems
<1>4. status' = [k \in JobId |-> IF k \in {j} THEN "cancelled" ELSE status[k]]
  BY <1>1, <1>2 DEF TypeOK
<1>5. completedJobs' \in Seq(JobId)
  BY <1>1, <1>2, <1>3, RecordType DEF TypeOK
<1>6. /\ Without(pendingJobs, i) \in Seq(JobId)
      /\ Len(Without(pendingJobs, i)) <= Len(pendingJobs)
      /\ Elems(Without(pendingJobs, i)) = InQueue \ {j}
      /\ Injective(Without(pendingJobs, i))
      /\ Sorted(priority, createdAt, Without(pendingJobs, i))
  BY <1>1, <1>2, WithoutShape
<1>7. /\ shuttingDown' \in BOOLEAN /\ (shuttingDown' = FALSE => shuttingDown = FALSE)
      /\ shutdownCall' \in {"none", "polling", "returned"}
  BY <1>1, <1>2 DEF TypeOK
<1> HIDE DEF j
<1>8. Cancels({j}, Without(pendingJobs, i))
  BY <1>2, <1>3, <1>4, <1>5, <1>6, <1>7 DEF Cancels
<1> QED BY <1>8

LEMMA PendingCancels ==
  ASSUME Inv, CancelPending,
         shuttingDown' \in BOOLEAN, shuttingDown' = FALSE => shuttingDown = FALSE,
         shutdownCall' \in {"none", "polling", "returned"}
  PROVE  Cancels(InQueue, <<>>)
<1>1. /\ TypeOK /\ pendingJobs \in Seq(JobId) /\ Len(pendingJobs) \in Nat
  BY PlacedNow DEF Inv, Placed
<1>2. completedJobs' \in Seq(JobId)
  BY <1>1, RecordAllType DEF CancelPending, TypeOK
<1>3. /\ <<>> \in Seq(JobId) /\ Injective(<<>>) /\ Len(<<>>) <= Len(pendingJobs)
      /\ Elems(<<>>) = InQueue \ InQueue /\ Sorted(priority, createdAt, <<>>)
  BY <1>1, EmptySeq DEF Injective, Elems, Sorted
<1> QED BY <1>2, <1>3 DEF CancelPending, Cancels

-----------------------------------------------------------------------------
(* The first n jobs of a queue and the rest of it.                         *)
LEMMA SplitAt ==
  ASSUME NEW s \in Seq(JobId), NEW n \in 0..Len(s), Injective(s)
  PROVE  LET t == SubSeq(s, n + 1, Len(s))
             front == {s[i] : i \in 1..n}
         IN /\ t \in Seq(JobId) /\ Len(t) = Len(s) - n /\ Injective(t)
            /\ front \subseteq JobId /\ Cardinality(front) = n
            /\ front \cap Elems(t) = {} /\ front \cup Elems(t) = Elems(s)
            /\ \A p, c : Sorted(p, c, s) =>
                 /\ Sorted(p, c, t)
                 /\ \A j \in front, k \in Elems(t) : ~Before(p, c, k, j)
<1> DEFINE t == SubSeq(s, n + 1, Len(s))
           front == {s[i] : i \in 1..n}
           f == [i \in 1..n |-> s[i]]
<1>1. Len(s) \in Nat /\ \A i \in 1..Len(s) : s[i] \in JobId
  BY LenProperties, ElementOfSeq
<1>2. t \in Seq(JobId) /\ Len(t) = Len(s) - n /\ \A k \in 1..Len(t) : t[k] = s[n + k]
  <2>1. CASE n = Len(s)
    BY <1>1, <2>1, SubSeqProperties
  <2>2. CASE n # Len(s)
    BY <1>1, <2>2, SubSeqProperties
  <2> QED BY <2>1, <2>2
<1> HIDE DEF t
<1>3. \A k \in 1..Len(t) : n + k \in 1..Len(s) /\ n + k > n
  BY <1>1, <1>2
<1>4. \A i \in 1..Len(s) : i > n => i - n \in 1..Len(t) /\ t[i - n] = s[i]
  BY <1>1, <1>2
<1>5. Injective(t)
  <2> SUFFICES ASSUME NEW i \in 1..Len(t), NEW k \in 1..Len(t), t[i] = t[k]
               PROVE  i = k
    BY DEF Injective
  <2>1. n + i = n + k
    BY <1>2, <1>3 DEF Injective
  <2> QED BY <1>1, <2>1
<1>6. Cardinality(front) = n
  <2>1. f \in [1..n -> front] /\ \A x \in front : \E i \in 1..n : f[i] = x
    OBVIOUS
  <2>2. \A i, k \in 1..n : f[i] = f[k] => i = k
    BY <1>1 DEF Injective
  <2> HIDE DEF f, front
  <2>3. f \in Bijection(1..n, front)
    BY <2>1, <2>2, Fun_IsBij
  <2>4. ExistsBijection(1..n, front) /\ n \in Nat
    BY <1>1, <2>3 DEF ExistsBijection
  <2> QED BY <2>4, FS_CountingElements
<1>7. front \subseteq JobId /\ front \subseteq Elems(s)
  BY <1>1 DEF Elems
<1>8. front \cap Elems(t) = {}
  <2> SUFFICES ASSUME NEW i \in 1..n, NEW k \in 1..Len(t), s[i] = t[k] PROVE FALSE
    BY DEF Elems
  <2>1. i \in 1..Len(s) /\ n + k \in 1..Len(s) /\ s[i] = s[n + k]
    BY <1>1, <1>2, <1>3
  <2>2. i = n + k
    BY <2>1 DEF Injective
  <2> QED BY <1>1, <1>3, <2>2
<1>9. Elems(t) \subseteq Elems(s)
  BY <1>2, <1>3 DEF Elems
<1>10. Elems(s) \subseteq front \cup Elems(t)
  <2> SUFFICES ASSUME NEW i \in 1..Len(s) PROVE s[i] \in front \cup Elems(t)
    BY DEF Elems
  <2>1. CASE i <= n
    BY <1>1, <2>1
  <2>2. CASE i > n
    BY <1>4, <2>2 DEF Elems
  <2> QED BY <1>1, <2>1, <2>2
<1>11. ASSUME NEW p, NEW c, Sorted(p, c, s)
       PROVE  /\ Sorted(p, c, t)
              /\ \A j \in front, k \in Elems(t) : ~Before(p, c, k, j)
  <2>1. Sorted(p, c, t)
    <3> SUFFICES ASSUME NEW i \in 1..Len(t), NEW k \in 1..Len(t), i < k
                 PROVE  ~Before(p, c, t[k], t[i])
      BY DEF Sorted
    <3>1. n + i < n + k
      BY <1>1
    <3> QED BY <1>2, <1>3, <1>11, <3>1 DEF Sorted
  <2>2. ASSUME NEW i \in 1..n, NEW k \in 1..Len(t) PROVE ~Before(p, c, t[k], s[i])
    <3>1. i < n + k /\ i \in 1..Len(s)
      BY <1>1
    <3> QED BY <1>2, <1>3, <1>11, <3>1 DEF Sorted
  <2> QED BY <2>1, <2>2 DEF Elems
<1> QED BY <1>2, <1>5, <1>6, <1>7, <1>8, <1>9, <1>10, <1>11 DEF t

(* What resume does to queue and slots: it starts jobs from the front.     *)
Resumed(started) ==
  /\ started \subseteq InQueue
  /\ Placed(pendingJobs', runningJobs', status')
  /\ Cardinality(runningJobs') <= Concurrency
  /\ Len(pendingJobs') + Cardinality(runningJobs')
       = Len(pendingJobs) + Cardinality(runningJobs)
  /\ runningJobs' = runningJobs \cup started
  /\ InQueue' = InQueue \ started
  /\ shuttingDown => started = {}
  /\ \A j \in started, k \in InQueue' : ~Before(priority, createdAt, k, j)
  /\ Sorted(priority, createdAt, pendingJobs')
  /\ ~shuttingDown => Cardinality(runningJobs') = Concurrency \/ pendingJobs' = <<>>
  /\ status' = [j \in JobId |-> IF j \in started THEN "running" ELSE status[j]]
  /\ executing' = [j \in JobId |-> executing[j] + IF j \in started THEN 1 ELSE 0]
  /\ paused' = FALSE /\ hung' \in BOOLEAN
  /\ UNCHANGED <<jobs, priority, createdAt, completedJobs, retryCount,
                 promise, shuttingDown, draining, shutdownCall>>

LEMMA Resuming ==
  ASSUME Inv, Resume
  PROVE  \E started : Resumed(started)
<1> DEFINE room == Concurrency - Cardinality(runningJobs)
           n == IF shuttingDown \/ Concurrency <= Cardinality(runningJobs) THEN 0
                ELSE IF Len(pendingJobs) < room THEN Len(pendingJobs) ELSE room
           t == SubSeq(pendingJobs, n + 1, Len(pendingJobs))
           started == {pendingJobs[i] : i \in 1..n}
<1>1. /\ TypeOK /\ Sorted(priority, createdAt, pendingJobs)
      /\ InQueue = Elems(pendingJobs) /\ InQueue \subseteq JobId
      /\ InQueue \cap runningJobs = {}
      /\ pendingJobs \in Seq(JobId) /\ Injective(pendingJobs)
      /\ Len(pendingJobs) \in Nat /\ Cardinality(runningJobs) \in Nat
      /\ Concurrency \in Nat \ {0}
      /\ Cardinality(runningJobs) <= Concurrency
      /\ status \in [JobId -> Status] /\ runningJobs \in SUBSET JobId
      /\ \A j \in JobId : /\ status[j] = "pending" <=> j \in InQueue
                          /\ status[j] = "running" <=> j \in runningJobs
  BY PlacedNow DEF Inv, Placed, TypeOK
<1>2. /\ paused' = FALSE /\ pendingJobs' = t
      /\ runningJobs' = runningJobs \cup started
      /\ status' = [j \in JobId |-> IF j \in started THEN "running" ELSE status[j]]
      /\ executing' = [j \in JobId |-> executing[j] + IF j \in started THEN 1 ELSE 0]
      /\ hung' \in BOOLEAN
      /\ UNCHANGED <<jobs, priority, createdAt, completedJobs, retryCount,
                     promise, shuttingDown, draining, shutdownCall>>
  BY DEF Resume
<1>3. /\ n \in 0..Len(pendingJobs) /\ n + Cardinality(runningJobs) <= Concurrency
      /\ ~shuttingDown => n = Len(pendingJobs) \/ n = room
      /\ shuttingDown => n = 0
  BY <1>1
<1> HIDE DEF n
<1>4. /\ t \in Seq(JobId) /\ Len(t) = Len(pendingJobs) - n /\ Injective(t)
      /\ started \subseteq JobId /\ Cardinality(started) = n
      /\ started \cap Elems(t) = {} /\ started \cup Elems(t) = Elems(pendingJobs)
      /\ Sorted(priority, createdAt, t)
      /\ \A j \in started, k \in Elems(t) : ~Before(priority, createdAt, k, j)
  BY <1>1, <1>3, SplitAt
<1>5. shuttingDown => started = {}
  BY <1>3
<1> HIDE DEF started, t
<1>6. InQueue' = Elems(t)
  BY <1>2 DEF InQueue, Elems
<1>7. Cardinality(runningJobs') = Cardinality(runningJobs) + n
  <2>1. IsFiniteSet(runningJobs) /\ IsFiniteSet(started)
    BY <1>1, <1>4, RunningFinite
  <2>2. runningJobs \cap started = {}
    BY <1>1, <1>4
  <2>3. Cardinality(runningJobs \cup started)
          = Cardinality(runningJobs) + Cardinality(started) - Cardinality({})
    BY <2>1, <2>2, FS_Union
  <2>4. Cardinality({}) = 0
    BY FS_EmptySet
  <2> QED BY <1>1, <1>2, <1>3, <1>4, <2>3, <2>4
<1>8. Placed(pendingJobs', runningJobs', status')
  <2>1. status' \in [JobId -> Status] /\ runningJobs' \in SUBSET JobId
    BY <1>1, <1>2, <1>4 DEF Status
  <2>2. ASSUME NEW j \in JobId
        PROVE  /\ status'[j] = "pending" <=> j \in Elems(t)
               /\ status'[j] = "running" <=> j \in runningJobs'
    BY <1>1, <1>2, <1>4
  <2> QED BY <1>2, <1>4, <2>1, <2>2 DEF Placed
<1>9. ~shuttingDown => Cardinality(runningJobs') = Concurrency \/ pendingJobs' = <<>>
  <2>1. n = Len(pendingJobs) => t = <<>>
    BY <1>1, <1>4, EmptySeq
  <2> QED BY <1>1, <1>2, <1>3, <1>7, <2>1
<1>10. Len(pendingJobs') + Cardinality(runningJobs')
         = Len(pendingJobs) + Cardinality(runningJobs)
  BY <1>1, <1>2, <1>3, <1>4, <1>7
<1>11. Cardinality(runningJobs') <= Concurrency
  BY <1>1, <1>3, <1>7
<1>12. Resumed(started)
  BY <1>1, <1>2, <1>4, <1>5, <1>6, <1>8, <1>9, <1>10, <1>11 DEF Resumed
<1> QED BY <1>12

LEMMA ResumeInv ==
  ASSUME Inv, NEW started, Resumed(started)
  PROVE  Inv' /\ QuietStep /\ OrderedStep
<1> USE DEF Resumed
<1>1. /\ TypeOK /\ PromisesHonest /\ Executions
      /\ InQueue \subseteq JobId /\ InQueue \cap runningJobs = {}
      /\ Len(pendingJobs) \in Nat /\ Cardinality(runningJobs) \in Nat
      /\ Concurrency \in Nat \ {0} /\ MaxQueueSize \in Nat /\ MaxRetries \in Nat
      /\ Len(pendingJobs) + Cardinality(runningJobs) <= MaxQueueSize + Concurrency
      /\ \A j \in JobId : /\ status[j] = "pending" <=> j \in InQueue
                          /\ executing[j] \in Nat /\ retryCount[j] \in Nat
  <2>1. \A j \in JobId : executing[j] \in 0..(MaxRetries + 1)
                         /\ retryCount[j] \in 0..MaxRetries
    BY DEF Inv, TypeOK
  <2>2. TypeOK /\ PromisesHonest /\ Executions
    BY DEF Inv
  <2>3. /\ Len(pendingJobs) + Cardinality(runningJobs) <= MaxQueueSize + Concurrency
        /\ \A j \in JobId : status[j] = "pending" <=> j \in InQueue
    BY <2>2 DEF TypeOK
  <2>4. MaxRetries \in Nat
    BY ConstantsAssumption DEF ConstantsAssumption
  <2> QED BY <2>1, <2>2, <2>3, <2>4, PlacedNow
<1>2. ASSUME NEW k \in JobId
      PROVE  /\ executing'[k] \in Nat
             /\ executing'[k] <= retryCount'[k] + 1
             /\ k \in InQueue' => executing'[k] <= retryCount'[k]
             /\ k \in runningJobs' => executing'[k] >= 1
             /\ k > jobs' => status'[k] = "unused" /\ executing'[k] = 0
  <2>1. /\ executing[k] <= retryCount[k] + 1
        /\ k \in InQueue => executing[k] <= retryCount[k]
        /\ k \in runningJobs => executing[k] >= 1
        /\ k > jobs => status[k] = "unused" /\ executing[k] = 0
    BY <1>1 DEF Executions
  <2>2. executing'[k] = executing[k] + (IF k \in started THEN 1 ELSE 0)
        /\ status'[k] = (IF k \in started THEN "running" ELSE status[k])
    OBVIOUS
  <2>3. k \in started => k \in InQueue /\ status[k] = "pending"
    BY <1>1
  <2>4. executing[k] \in Nat /\ retryCount[k] \in Nat
    BY <1>1
  <2>5. k \in InQueue' => k \in InQueue /\ k \notin started
    OBVIOUS
  <2>6. k \in runningJobs' => k \in runningJobs \/ k \in started
    OBVIOUS
  <2> QED BY <2>1, <2>2, <2>3, <2>4, <2>5, <2>6
<1>3. Executions'
  BY <1>2 DEF Executions
<1>4. TypeOK'
  <2>1. executing' \in [JobId -> Nat]
    BY <1>2
  <2>2. Len(pendingJobs') + Cardinality(runningJobs') <= MaxQueueSize + Concurrency
    BY <1>1
  <2>3. /\ jobs' \in 0..MaxJobs
        /\ priority' \in [JobId -> Nat] /\ createdAt' \in [JobId -> Nat]
        /\ retryCount' \in [JobId -> 0..MaxRetries] /\ promise' \in [JobId -> Promises]
        /\ paused' \in BOOLEAN /\ draining' \in BOOLEAN /\ hung' \in BOOLEAN
        /\ shuttingDown' \in BOOLEAN /\ completedJobs' \in Seq(JobId)
        /\ shutdownCall' \in {"none", "polling", "returned"}
    BY <1>1 DEF TypeOK
  <2> QED BY <1>3, <2>1, <2>2, <2>3, NextTypes
<1>5. WorkConserving'
  BY DEF WorkConserving
<1>6. PromisesHonest'
  <2> SUFFICES ASSUME NEW k \in JobId
        PROVE  /\ promise'[k] = "waiting" => k \in InQueue' \cup runningJobs'
               /\ promise'[k] = "resolved" => status'[k] = "completed"
               /\ promise'[k] = "rejected" => status'[k] \in {"failed", "cancelled"}
    BY DEF PromisesHonest
  <2>1. /\ promise[k] = "waiting" => k \in InQueue \cup runningJobs
        /\ promise[k] = "resolved" => status[k] = "completed"
        /\ promise[k] = "rejected" => status[k] \in {"failed", "cancelled"}
    BY <1>1 DEF PromisesHonest
  <2>2. k \in started => status[k] = "pending"
    BY <1>1
  <2> QED BY <2>1, <2>2
<1>7. Sorted(priority, createdAt, pendingJobs)'
  OBVIOUS
<1>8. QuietStep
  BY <1>1 DEF QuietStep
<1>9. OrderedStep
  BY <1>1 DEF OrderedStep
<1> QED BY <1>3, <1>4, <1>5, <1>6, <1>7, <1>8, <1>9 DEF Inv

-----------------------------------------------------------------------------
(* Steps that only set flags: the polls, drain and pause.                  *)
Flags ==
  /\ UNCHANGED <<jobs, priority, createdAt, status, pendingJobs, runningJobs,
                 completedJobs, retryCount, promise, executing, shuttingDown,
                 hung>>
  /\ paused' \in BOOLEAN /\ (paused' = FALSE => paused = FALSE)
  /\ draining' \in BOOLEAN
  /\ shutdownCall' \in {"none", "polling", "returned"}

LEMMA FlagsInv ==
  ASSUME Inv, Flags
  PROVE  Inv' /\ QuietStep /\ OrderedStep
<1> USE DEF Flags
<1>1. /\ TypeOK /\ WorkConserving /\ PromisesHonest /\ Executions
      /\ Sorted(priority, createdAt, pendingJobs)
  BY DEF Inv
<1>2. InQueue' = InQueue
  BY DEF InQueue
<1>3. TypeOK'
  BY <1>1, <1>2 DEF TypeOK
<1>4. WorkConserving'
  BY <1>1 DEF WorkConserving
<1>5. PromisesHonest' /\ Executions' /\ Sorted(priority, createdAt, pendingJobs)'
  BY <1>1, <1>2 DEF PromisesHonest, Executions
<1>6. QuietStep
  <2>1. MaxRetries \in Nat /\ executing \in [JobId -> 0..(MaxRetries + 1)]
    BY <1>1, ConstantsAssumption DEF ConstantsAssumption, TypeOK
  <2> QED BY <2>1 DEF QuietStep
<1>7. OrderedStep
  BY <1>1, PlacedNow DEF OrderedStep
<1> QED BY <1>3, <1>4, <1>5, <1>6, <1>7 DEF Inv

(* Every step keeps the invariant and obeys the two action properties.     *)
LEMMA StepInv ==
  ASSUME Inv, [Next]_vars
  PROVE  Inv' /\ QuietStep /\ OrderedStep
<1>0. TypeOK
  BY DEF Inv
<1>1. ASSUME NEW prio \in Priorities, NEW tick \in Ticks, NEW wait \in Waits,
             Enqueue(prio, tick, wait)
      PROVE  Inv' /\ QuietStep /\ OrderedStep
  BY <1>1, EnqueueInv
<1>2. ASSUME NEW j \in JobId, Attempt(j)
      PROVE  Inv' /\ QuietStep /\ OrderedStep
  BY <1>2, CompleteInv, RetryInv, FailInv DEF Attempt
<1>3. ASSUME NEW j \in JobId, LateEnd(j)
      PROVE  Inv' /\ QuietStep /\ OrderedStep
  BY <1>3, LateEndInv
<1>4. ASSUME NEW i \in 1..MaxJobs, Cancel(i)
      PROVE  Inv' /\ QuietStep /\ OrderedStep
  BY <1>4, CancelCancels, CancelsInv
<1>5. CASE CancelAll \/ Shutdown
  <2>1. /\ CancelPending /\ shuttingDown' \in BOOLEAN
        /\ shuttingDown' = FALSE => shuttingDown = FALSE
        /\ shutdownCall' \in {"none", "polling", "returned"}
    BY <1>0, <1>5 DEF CancelAll, Shutdown, TypeOK
  <2>2. Cancels(InQueue, <<>>)
    BY <2>1, PendingCancels
  <2> QED BY <2>2, CancelsInv
<1>6. CASE Resume
  BY <1>6, Resuming, ResumeInv
<1>7. CASE Pause \/ ShutdownPoll \/ Drain \/ DrainPoll \/ UNCHANGED vars
  <2>1. Flags
    BY <1>0, <1>7 DEF Pause, ShutdownPoll, Drain, DrainPoll, vars, TypeOK, Flags
  <2> QED BY <2>1, FlagsInv
<1> QED BY <1>1, <1>2, <1>3, <1>4, <1>5, <1>6, <1>7 DEF Next

(* The invariant holds in every reachable state.                           *)
LEMMA Invariance == Spec => []Inv
<1>1. Inv /\ [Next]_vars => Inv'
  BY StepInv
<1> QED BY <1>1, InitInv, PTL DEF Spec

(* Every job is in one place, which its status names; it is retried at     *)
(* most MaxRetries times, and slots and queue are bounded, for every       *)
(* number of jobs, slots and retries.                                      *)
THEOREM TypesCorrect == Spec => []TypeOK
<1>1. Inv => TypeOK
  BY DEF Inv
<1> QED BY <1>1, Invariance, PTL

(* No job ever waits while a slot is free, unless the queue is paused or   *)
(* shutting down.                                                          *)
THEOREM NoIdleSlot == Spec => []WorkConserving
<1>1. Inv => WorkConserving
  BY DEF Inv
<1> QED BY <1>1, Invariance, PTL

(* A promise of enqueueAndWait is open exactly while its job is queued or  *)
(* running, and then says what became of the job.                          *)
THEOREM PromisesKept == Spec => []PromisesHonest
<1>1. Inv => PromisesHonest
  BY DEF Inv
<1> QED BY <1>1, Invariance, PTL

(* A job never starts before one of stronger priority, or of the same      *)
(* priority and older, that stays in the queue.                            *)
THEOREM ServedInOrder == Spec => ServiceOrder
<1>1. Inv /\ [Next]_vars =>
        [\A j \in InQueue, k \in InQueue' :
           j \in runningJobs' => ~Before(priority, createdAt, k, j)]_vars
  BY StepInv DEF OrderedStep
<1> QED BY <1>1, Invariance, PTL DEF Spec, ServiceOrder

(* After shutdown() no execution starts any more.                          *)
THEOREM ShutdownIsQuiet == Spec => QuietAfterShutdown
<1>1. Inv /\ [Next]_vars =>
        [shuttingDown => /\ runningJobs' \subseteq runningJobs
                         /\ \A j \in JobId : executing'[j] <= executing[j]]_vars
  BY StepInv DEF QuietStep
<1> QED BY <1>1, Invariance, PTL DEF Spec, QuietAfterShutdown
==============================================================================
