-------------------------- MODULE CodeIndex_proofs ---------------------------
(***************************************************************************)
(* What holds of the code index for every value of the constants: a file   *)
(* that a refresh skips is indexed, and a run that nobody disturbs leaves  *)
(* the index equal to the disk.                                            *)
(***************************************************************************)
EXTENDS CodeIndex, TLAPS

Versions == Files \X (1..MaxVersion)
Progress == [pc : {"idle", "collect", "compare", "process", "save", "saving", "returned"},
             kind : {"refresh", "rebuild"}, listed : SUBSET Files, todo : SUBSET Versions,
             snap : [Files -> 0..MaxVersion], clean : BOOLEAN, failed : SUBSET Files]
Processing == [st : {"none", "todo", "read", "stored", "done"}, ver : 0..MaxVersion]

IndexTyped ==
  /\ TypeOK /\ act \in [Runs -> Progress] /\ work \in [Runs -> [Files -> Processing]]
  /\ \A r \in Runs, f \in Files : work[r][f].st = "read" => work[r][f].ver # 0

(* No content is newer than the newest.                                    *)
NoneNewer ==
  /\ \A b \in Branches, f \in Files : trees[b][f] <= newest
  /\ \A f \in Files : cache[f] <= newest /\ saved[f] <= newest
  /\ \A r \in Runs, f \in Files : act[r].snap[f] <= newest

(* Who is at work, and what is noted of it.                                *)
Scheduled ==
  /\ \A r \in Runs : ~At(r, "process") => act[r].todo = {} /\ \A f \in Files : work[r][f].st = "none"
  /\ \A r \in Runs : act[r].pc \in {"idle", "compare"} => act[r].kind = "refresh"
  /\ \A r \in Runs : act[r].clean => Active = {r} /\ current = head
  /\ "switch" \notin seen => current = head
  /\ "overlap" \notin seen => \A r, q \in Active : r = q
  /\ "rebuildOverlap" \notin seen => \A r, q \in Active : act[r].kind = "rebuild" => r = q
  /\ \A r \in Runs : act[r].kind = "rebuild" /\ act[r].pc \in {"collect", "process", "save"} =>
       dirty \/ (~act[r].clean /\ "rebuildOverlap" \in seen)
  /\ \A r \in Runs : act[r].pc \in {"idle", "collect", "compare"} => act[r].failed = {}
  /\ "failed" \notin seen => \A r \in Runs : act[r].failed = {}

(* An undisturbed rebuild makes good whatever happened before it.          *)
Healing(r) == act[r].clean /\ act[r].kind = "rebuild"
Sound == ~Disordered \/ \E r \in Runs : Healing(r)
Exact == (~Disordered /\ seen \cap {"crash", "failed"} = {}) \/ \E r \in Runs : Healing(r)

IsRow(f, v) == row[f] = [branch |-> current, ver |-> v] /\ chunks[f][v] = current
Pending(f, v) == \E r \in Runs : <<f, v>> \in act[r].todo
Kept(f, v) == <<f, v>> \in vectors \cup unembedded
Stored(r, f) == work[r][f].st = "stored"
UnderWay(r, f) == work[r][f].st \in {"todo", "read", "stored"}
Unsettled(f) == \E r \in Runs : Stored(r, f) \/ f \in act[r].failed

(* A file is processed as it is on the disk.                               *)
ProcessedTrue ==
  Sound => \A r \in Runs, f \in Files :
    /\ work[r][f].st = "read" => work[r][f].ver = disk[f]
    /\ Stored(r, f) => disk[f] # 0 /\ IsRow(f, disk[f]) /\ (Kept(f, disk[f]) \/ <<f, disk[f]>> \in act[r].todo)

(* What the cache says of a file that is as it was is true; without        *)
(* crashes it is true of what the file was, too.                           *)
CacheTrue ==
  Sound => \A f \in Files : cache[f] # 0 /\ cache[f] = disk[f] =>
    IsRow(f, disk[f]) /\ ("overlap" \in seen \/ Kept(f, disk[f]) \/ Pending(f, disk[f]))

CacheExact ==
  Exact => \A f \in Files :
    /\ \/ Unsettled(f)
       \/ cache[f] = 0 /\ row[f].branch # current
       \/ cache[f] # 0 /\ IsRow(f, cache[f])
    /\ cache[f] # 0 => Kept(f, cache[f]) \/ Pending(f, cache[f])

(* What has been written of the cache, or is being written, is true, but   *)
(* while a rebuild is under way.                                           *)
Rebuilding == \E r \in Runs : act[r].kind = "rebuild" /\ act[r].pc \in {"collect", "process", "save", "saving"}
Sure(f) == IsRow(f, disk[f]) /\ ("overlap" \in seen \/ Kept(f, disk[f]))
SavedTrue ==
  ~Disordered /\ "restored" \notin seen => \A f \in Files :
    /\ saved[f] # 0 /\ saved[f] = disk[f] => Rebuilding \/ Sure(f)
    /\ \A r \in Runs : At(r, "saving") /\ act[r].snap[f] # 0 /\ act[r].snap[f] = disk[f] => Sure(f)

(* A file that a run is busy with is one the cache does not cover, and the *)
(* cache file covers nothing that the cache does not, if runs do not       *)
(* overlap: so a file that fails is looked at again.                       *)
NotKnown(f) == cache[f] = 0 \/ cache[f] # disk[f]
Due(f) ==
  /\ \A r \in Runs : UnderWay(r, f) => NotKnown(f)
  /\ saved[f] # 0 /\ saved[f] = disk[f] => Rebuilding \/ cache[f] = disk[f]
DueTrue ==
  "overlap" \notin seen =>
    /\ \A r \in Runs : At(r, "collect") /\ act[r].kind = "rebuild" => \A f \in Files : cache[f] = 0
    /\ \A r \in Runs : At(r, "saving") => act[r].snap = cache
    /\ ~Disordered /\ "restored" \notin seen => \A f \in Files : Due(f)

(* A listing is true, or nothing is known of what it lacks.                *)
ListedTrue ==
  ~Disordered => \A r \in Runs : At(r, "compare") =>
    /\ "listingStale" \notin seen => act[r].listed = Present
    /\ "restored" \notin seen => \A f \in Present \ act[r].listed : saved[f] # disk[f] /\ cache[f] # disk[f]

(* How far a run has come that nobody disturbed: the cache knows a file, or *)
(* the file is still to be processed or has failed.                        *)
Known(r, f) == cache[f] = disk[f] /\ f \notin act[r].failed
Owed(r, f) == disk[f] # 0 /\ cache[f] # disk[f] /\ (act[r].kind = "rebuild" => cache[f] = 0)
InHand(r, f) ==
  \/ Known(r, f) /\ ~UnderWay(r, f)
  \/ Owed(r, f) /\ (UnderWay(r, f) <=> f \notin act[r].failed)
Settled(r, f) == Known(r, f) \/ (Owed(r, f) /\ f \in act[r].failed)
CleanRun(r) ==
  /\ At(r, "collect") /\ act[r].kind = "rebuild" => \A f \in Files : cache[f] = 0
  /\ At(r, "compare") => act[r].listed = Present
  /\ At(r, "process") => \A f \in Files : InHand(r, f)
  /\ act[r].pc \in {"save", "saving", "returned"} => \A f \in Files : Settled(r, f)
  /\ At(r, "saving") /\ act[r].kind = "rebuild" => act[r].snap = cache
  /\ At(r, "returned") /\ act[r].kind = "rebuild" => saved = cache
CleanRuns == \A r \in Runs : act[r].clean /\ (act[r].kind = "rebuild" \/ ~Disordered) => CleanRun(r)

IndexInvariant ==
  /\ IndexTyped /\ NoneNewer /\ Scheduled
  /\ ProcessedTrue /\ CacheTrue /\ CacheExact /\ SavedTrue /\ DueTrue /\ ListedTrue /\ CleanRuns

LEMMA TypedIndex ==
  ASSUME IndexTyped
  PROVE  /\ trees \in [Branches -> [Files -> 0..MaxVersion]] /\ head \in Branches /\ current \in Branches
         /\ disk \in [Files -> 0..MaxVersion]
         /\ row \in [Files -> [branch : Branches, ver : 1..MaxVersion] \cup {NoRow}]
         /\ chunks \in [Files -> [1..MaxVersion -> Branches \cup {"none"}]]
         /\ vectors \subseteq Versions /\ unembedded \subseteq Versions
         /\ cache \in [Files -> 0..MaxVersion] /\ saved \in [Files -> 0..MaxVersion] /\ dirty \in BOOLEAN
         /\ act \in [Runs -> Progress] /\ work \in [Runs -> [Files -> Processing]]
         /\ \A r \in Runs, f \in Files : work[r][f].st = "read" => work[r][f].ver # 0
         /\ newest \in 0..MaxVersion /\ moves \in 0..MaxMoves
BY DEF IndexTyped, TypeOK, Versions, disk

LEMMA IndexIsTyped ==
  ASSUME trees' \in [Branches -> [Files -> 0..MaxVersion]], head' \in Branches, current' \in Branches,
         row' \in [Files -> [branch : Branches, ver : 1..MaxVersion] \cup {NoRow}],
         chunks' \in [Files -> [1..MaxVersion -> Branches \cup {"none"}]],
         vectors' \subseteq Versions, unembedded' \subseteq Versions,
         cache' \in [Files -> 0..MaxVersion], saved' \in [Files -> 0..MaxVersion], dirty' \in BOOLEAN,
         act' \in [Runs -> Progress], work' \in [Runs -> [Files -> Processing]],
         \A r \in Runs, f \in Files : work'[r][f].st = "read" => work'[r][f].ver # 0,
         newest' \in 0..MaxVersion, moves' \in 0..MaxMoves
  PROVE  IndexTyped'
<1>1. ASSUME NEW r \in Runs
      PROVE  /\ act'[r].pc \in {"idle", "collect", "compare", "process", "save", "saving", "returned"}
             /\ act'[r].kind \in {"refresh", "rebuild"}
             /\ act'[r].listed \subseteq Files /\ act'[r].failed \subseteq Files
             /\ act'[r].todo \subseteq Files \X (1..MaxVersion) /\ act'[r].snap \in [Files -> 0..MaxVersion]
  <2> PICK x \in Progress : x = act'[r]
    OBVIOUS
  <2> QED BY DEF Progress, Versions
<1>2. ASSUME NEW r \in Runs, NEW f \in Files
      PROVE  work'[r][f].st \in {"none", "todo", "read", "stored", "done"}
  <2> PICK x \in Processing : x = work'[r][f]
    OBVIOUS
  <2> QED BY DEF Processing
<1>3. TypeOK'
  BY <1>1, <1>2 DEF TypeOK, Versions
<1> QED BY <1>3 DEF IndexTyped

LEMMA RunBecomes ==
  ASSUME act \in [Runs -> Progress], NEW r \in Runs, NEW x \in Progress, act' = [act EXCEPT ![r] = x]
  PROVE  act' \in [Runs -> Progress] /\ act'[r] = x /\ \A q \in Runs \ {r} : act'[q] = act[q]
OBVIOUS

LEMMA WorkBecomes ==
  ASSUME work \in [Runs -> [Files -> Processing]], NEW r \in Runs, NEW w \in [Files -> Processing],
         work' = [work EXCEPT ![r] = w]
  PROVE  work' \in [Runs -> [Files -> Processing]] /\ work'[r] = w /\ \A q \in Runs \ {r} : work'[q] = work[q]
OBVIOUS

LEMMA FileBecomes ==
  ASSUME work \in [Runs -> [Files -> Processing]], NEW r \in Runs, NEW f \in Files, NEW y \in Processing,
         work' = [work EXCEPT ![r][f] = y]
  PROVE  /\ work' \in [Runs -> [Files -> Processing]] /\ work'[r][f] = y
         /\ \A q \in Runs \ {r} : work'[q] = work[q]
         /\ \A g \in Files \ {f} : work'[r][g] = work[r][g]
OBVIOUS

(* A step of a run that is under way and goes on.                          *)
Running(r) ==
  /\ r \in Active /\ r \in Active' /\ act'[r].kind = act[r].kind /\ act'[r].clean = act[r].clean
  /\ act'[r].failed = act[r].failed
  /\ \A q \in Runs \ {r} : act'[q] = act[q] /\ work'[q] = work[q]
  /\ UNCHANGED <<trees, head, newest, current, seen>>

LEMMA RunningFacts ==
  ASSUME NEW r \in Runs, Running(r)
  PROVE  /\ Active' = Active /\ disk' = disk /\ Present' = Present
         /\ \A q \in Runs : Healing(q)' <=> Healing(q)
         /\ Disordered' <=> Disordered
         /\ Sound' <=> Sound
         /\ Exact' <=> Exact
<1>1. Active' = Active
  BY DEF Running, Active, At
<1>2. \A q \in Runs : Healing(q)' <=> Healing(q)
  BY DEF Running, Healing
<1>3. Disordered' <=> Disordered
  BY DEF Running, Disordered
<1>4. Sound' <=> Sound
  BY <1>2, <1>3 DEF Sound
<1>5. Exact' <=> Exact
  BY <1>2, <1>3 DEF Exact, Running
<1>6. disk' = disk /\ Present' = Present
  BY DEF Running, disk, Present
<1> QED BY <1>1, <1>2, <1>3, <1>4, <1>5, <1>6

LEMMA RunningScheduled ==
  ASSUME Scheduled, NEW r \in Runs, Running(r),
         ~At(r, "process")' => act'[r].todo = {} /\ \A f \in Files : work'[r][f].st = "none",
         act'[r].pc = "compare" => act[r].kind = "refresh", act'[r].pc \in {"collect", "compare"} => act[r].failed = {},
         act[r].kind = "rebuild" /\ act'[r].pc \in {"collect", "process", "save"} =>
           act[r].pc \in {"collect", "process", "save"},
         dirty' = dirty \/ dirty' = TRUE \/ act'[r].pc \notin {"collect", "process", "save"}
  PROVE  Scheduled'
<1> USE RunningFacts DEF Running
<1>1. \A q \in Runs : ~At(q, "process")' => act'[q].todo = {} /\ \A f \in Files : work'[q][f].st = "none"
  BY DEF Scheduled, At
<1>2. \A q \in Runs : act'[q].pc \in {"idle", "compare"} => act'[q].kind = "refresh"
  BY DEF Scheduled, Active, At
<1>3. \A q \in Runs : act'[q].clean = act[q].clean /\ act'[q].kind = act[q].kind
  OBVIOUS
<1>4. \A q \in Runs : act'[q].kind = "rebuild" /\ act'[q].pc \in {"collect", "process", "save"} =>
        dirty' \/ (~act'[q].clean /\ "rebuildOverlap" \in seen')
  <2> SUFFICES ASSUME NEW q \in Runs, act'[q].kind = "rebuild", act'[q].pc \in {"collect", "process", "save"}, ~dirty'
               PROVE  ~act'[q].clean /\ "rebuildOverlap" \in seen'
    OBVIOUS
  <2>1. CASE dirty' = dirty
    BY <1>3, <2>1 DEF Scheduled
  <2>2. CASE act'[r].pc \notin {"collect", "process", "save"}
    <3>1. q # r /\ q \in Active /\ r \in Active
      BY <2>2 DEF Active, At
    <3> QED BY <1>3, <3>1 DEF Scheduled
  <2> QED BY <2>1, <2>2
<1>5. /\ \A q \in Runs : act'[q].clean => Active' = {q} /\ current' = head'
      /\ "switch" \notin seen' => current' = head'
      /\ "overlap" \notin seen' => \A p, q \in Active' : p = q
      /\ "rebuildOverlap" \notin seen' => \A p, q \in Active' : act'[p].kind = "rebuild" => p = q
  <2>1. \A p \in Active : p \in Runs
    BY DEF Active
  <2> QED BY <1>3, <2>1 DEF Scheduled
<1>6. /\ \A q \in Runs : act'[q].pc \in {"idle", "collect", "compare"} => act'[q].failed = {}
      /\ "failed" \notin seen' => \A q \in Runs : act'[q].failed = {}
  BY DEF Scheduled, Active, At
<1> QED BY <1>1, <1>2, <1>4, <1>5, <1>6 DEF Scheduled

(* If no runs have overlapped, the one that makes the step is alone.       *)
LEMMA RunningDue ==
  ASSUME Scheduled, NEW r \in Runs, Running(r), ~At(r, "collect")',
         "overlap" \notin seen =>
           /\ At(r, "saving")' => act'[r].snap = cache'
           /\ ~Disordered /\ "restored" \notin seen => \A f \in Files :
                /\ UnderWay(r, f)' => NotKnown(f)'
                /\ saved'[f] # 0 /\ saved'[f] = disk[f] => Rebuilding' \/ cache'[f] = disk[f]
  PROVE  DueTrue'
<1> SUFFICES ASSUME "overlap" \notin seen PROVE DueTrue'
  BY DEF DueTrue, Running
<1> /\ Disordered' <=> Disordered
    /\ seen' = seen /\ disk' = disk /\ Active' = Active
  BY RunningFacts DEF Running
<1>1. \A q \in Runs \ {r} : act'[q].pc = "idle" /\ \A f \in Files : ~UnderWay(q, f)'
  <2> SUFFICES ASSUME NEW q \in Runs \ {r} PROVE act'[q].pc = "idle" /\ \A f \in Files : ~UnderWay(q, f)'
    OBVIOUS
  <2>1. act[q].pc = "idle"
    BY DEF Scheduled, Running, Active, At
  <2>2. \A f \in Files : work[q][f].st = "none"
    BY <2>1 DEF Scheduled, At
  <2> QED BY <2>1, <2>2 DEF Running, UnderWay
<1>2. /\ \A q \in Runs : At(q, "collect")' /\ act'[q].kind = "rebuild" => \A f \in Files : cache'[f] = 0
      /\ \A q \in Runs : At(q, "saving")' => act'[q].snap = cache'
  BY <1>1 DEF At
<1>3. ASSUME ~Disordered, "restored" \notin seen, NEW f \in Files PROVE Due(f)'
  <2>1. \A q \in Runs : UnderWay(q, f)' => NotKnown(f)'
    BY <1>1, <1>3
  <2>2. saved'[f] # 0 /\ saved'[f] = disk[f] => Rebuilding' \/ cache'[f] = disk[f]
    BY <1>3
  <2> QED BY <2>1, <2>2 DEF Due
<1> QED BY <1>2, <1>3 DEF DueTrue

(* Most steps change neither the cache nor its file.                       *)
LEMMA RunningSame ==
  ASSUME IndexInvariant, NEW r \in Runs, Running(r), ~At(r, "collect")', cache' = cache, saved' = saved,
         "overlap" \notin seen => \A f \in Files : UnderWay(r, f)' => UnderWay(r, f) \/ NotKnown(f),
         "overlap" \notin seen /\ At(r, "saving")' => act'[r].snap = cache,
         ~Disordered /\ Rebuilding => Rebuilding'
  PROVE  DueTrue'
<1>1. disk' = disk
  BY RunningFacts
<1>2. \A f \in Files : NotKnown(f)' <=> NotKnown(f)
  BY <1>1 DEF NotKnown
<1>3. ASSUME "overlap" \notin seen, ~Disordered, "restored" \notin seen, NEW f \in Files
      PROVE  /\ UnderWay(r, f)' => NotKnown(f)'
             /\ saved'[f] # 0 /\ saved'[f] = disk[f] => Rebuilding' \/ cache'[f] = disk[f]
  <2>1. Due(f)
    BY <1>3 DEF IndexInvariant, DueTrue
  <2> QED BY <1>2, <1>3, <2>1 DEF Due
<1>4. Scheduled
  BY DEF IndexInvariant
<1> QED BY <1>3, <1>4, RunningDue

LEMMA ReadKeeps ==
  ASSUME IndexInvariant, NEW r \in Runs, NEW f \in Files, Read(r, f)
  PROVE  IndexInvariant'
<1> IndexTyped /\ Scheduled
  BY DEF IndexInvariant
<1>1. /\ act[r].pc = "process" /\ work[r][f].st = "todo" /\ disk[f] \in 0..MaxVersion
      /\ UNCHANGED <<trees, head, newest, current, row, chunks, vectors, cache, dirty, saved, act, moves, unembedded, seen>>
  BY TypedIndex DEF Read, Doing, At, world, tables, hashes, ghosts
<1> PICK y \in Processing :
      /\ work' = [work EXCEPT ![r][f] = y] /\ y.st \in {"done", "read"}
      /\ y.st = "done" => disk[f] = 0
      /\ y.st = "read" => disk[f] # 0 /\ y.ver = disk[f]
  <2> PICK x \in Processing : x = work[r][f]
    BY TypedIndex
  <2> PICK v \in 0..MaxVersion : v = disk[f]
    BY <1>1
  <2>1. /\ [x EXCEPT !.st = "done"] \in Processing /\ [x EXCEPT !.st = "read", !.ver = v] \in Processing
        /\ [x EXCEPT !.st = "done"].st = "done"
        /\ [x EXCEPT !.st = "read", !.ver = v].st = "read" /\ [x EXCEPT !.st = "read", !.ver = v].ver = v
    BY DEF Processing
  <2>2. CASE v = 0
    <3>1. work' = [work EXCEPT ![r][f] = [x EXCEPT !.st = "done"]]
      BY <2>2 DEF Read
    <3> QED BY <2>1, <2>2, <3>1
  <2>3. CASE v # 0
    <3>1. work' = [work EXCEPT ![r][f] = [x EXCEPT !.st = "read", !.ver = v]]
      BY <2>3 DEF Read
    <3> QED BY <2>1, <2>3, <3>1
  <2> QED BY <2>2, <2>3
<1>2. /\ work' \in [Runs -> [Files -> Processing]] /\ work'[r][f] = y
      /\ \A q \in Runs \ {r} : work'[q] = work[q]
      /\ \A g \in Files \ {f} : work'[r][g] = work[r][g]
  BY TypedIndex, FileBecomes
<1>3. Running(r)
  BY <1>1, <1>2 DEF Running, Active, At
<1> /\ disk' = disk /\ Present' = Present
    /\ Disordered' <=> Disordered
    /\ Sound' <=> Sound
    /\ Exact' <=> Exact
  BY <1>3, RunningFacts
<1>4. IndexTyped'
  <2>1. \A q \in Runs, g \in Files : work'[q][g].st = "read" => work'[q][g].ver # 0
    BY <1>2, TypedIndex
  <2> QED BY <1>1, <1>2, <2>1, TypedIndex, IndexIsTyped
<1>5. Scheduled'
  BY <1>1, <1>3, RunningScheduled DEF At
<1>6. \A q \in Runs, g \in Files :
        /\ Stored(q, g)' <=> Stored(q, g)
        /\ work'[q][g].st = "read" => work[q][g] = work'[q][g] \/ work'[q][g].ver = disk[g]
  BY <1>1, <1>2 DEF Stored
<1>7. /\ \A g \in Files : \A v : (IsRow(g, v)' <=> IsRow(g, v)) /\ (Pending(g, v)' <=> Pending(g, v)) /\ (Kept(g, v)' <=> Kept(g, v))
      /\ \A g \in Files : Sure(g)' <=> Sure(g)
      /\ Rebuilding' <=> Rebuilding
  BY <1>1, <1>3 DEF IsRow, Pending, Kept, Sure, Rebuilding
<1>8. NoneNewer'
  BY <1>1 DEF IndexInvariant, NoneNewer
<1>9. ProcessedTrue'
  BY <1>1, <1>3, <1>6 DEF IndexInvariant, ProcessedTrue, IsRow, Kept
<1>10. CacheTrue' /\ CacheExact'
  BY <1>1, <1>3, <1>6 DEF IndexInvariant, CacheTrue, CacheExact, IsRow, Kept, Pending, Unsettled
<1>11. SavedTrue' /\ ListedTrue'
  BY <1>1, <1>3, <1>7 DEF IndexInvariant, SavedTrue, ListedTrue, At
<1>12. CleanRuns'
  <2> SUFFICES ASSUME NEW q \in Runs, act'[q].clean /\ (act'[q].kind = "rebuild" \/ ~Disordered') PROVE CleanRun(q)'
    BY DEF CleanRuns
  <2>1. CleanRun(q)
    BY <1>1, <1>3 DEF IndexInvariant, CleanRuns
  <2>2. \A g \in Files : (Known(q, g)' <=> Known(q, g)) /\ (Owed(q, g)' <=> Owed(q, g)) /\ (Settled(q, g)' <=> Settled(q, g))
    BY <1>1 DEF Known, Owed, Settled
  <2>3. ASSUME NEW g \in Files, At(q, "process") PROVE InHand(q, g)'
    <3>1. InHand(q, g)
      BY <2>1, <2>3 DEF CleanRun
    <3>2. ~(q = r /\ g = f) => work'[q][g] = work[q][g]
      BY <1>2
    <3>3. q = r /\ g = f /\ Owed(q, g) => work'[q][g].st = "read" /\ UnderWay(q, g)
      BY <1>1, <1>2 DEF Owed, UnderWay
    <3>4. q = r /\ g = f => UnderWay(q, g)
      BY <1>1 DEF UnderWay
    <3> QED BY <1>1, <2>2, <3>1, <3>2, <3>3, <3>4 DEF InHand, UnderWay
  <2> QED BY <1>1, <1>3, <2>1, <2>2, <2>3 DEF CleanRun, At
<1>13. DueTrue'
  <2>1. \A g \in Files : UnderWay(r, g)' => UnderWay(r, g)
    BY <1>1, <1>2 DEF UnderWay
  <2> QED BY <1>1, <1>3, <1>7, <2>1, RunningSame DEF At
<1> QED BY <1>4, <1>5, <1>8, <1>9, <1>10, <1>11, <1>12, <1>13 DEF IndexInvariant

LEMMA CollectKeeps ==
  ASSUME IndexInvariant, NEW r \in Runs, Collect(r)
  PROVE  IndexInvariant'
<1> IndexTyped /\ Scheduled
  BY DEF IndexInvariant
<1>1. /\ act[r].pc = "collect" /\ act[r].kind \in {"refresh", "rebuild"} /\ disk \in [Files -> 0..MaxVersion]
      /\ UNCHANGED <<trees, head, newest, current, row, chunks, vectors, cache, dirty, saved, moves, unembedded, seen>>
  BY TypedIndex DEF Collect, At, world, tables, hashes, ghosts, Progress
<1>2. act[r].todo = {} /\ \A f \in Files : work[r][f].st = "none"
  BY <1>1 DEF Scheduled, At
<1> PICK x \in Progress :
      /\ act' = [act EXCEPT ![r] = x] /\ x.kind = act[r].kind /\ x.clean = act[r].clean
      /\ x.todo = act[r].todo /\ x.snap = act[r].snap /\ x.failed = act[r].failed
      /\ x.kind = "refresh" => x.pc = "compare" /\ x.listed = Present
      /\ x.kind = "rebuild" => x.pc = "process"
  <2> PICK y \in Progress : y = act[r]
    BY TypedIndex
  <2>1. Present \in SUBSET Files
    BY DEF Present
  <2>2. /\ [y EXCEPT !.pc = "compare", !.listed = Present] \in Progress
        /\ [y EXCEPT !.pc = "process"] \in Progress
    BY <2>1 DEF Progress
  <2>3. act' = [act EXCEPT ![r] = IF y.kind = "refresh" THEN [y EXCEPT !.pc = "compare", !.listed = Present]
                                  ELSE [y EXCEPT !.pc = "process"]]
    BY DEF Collect
  <2>4. CASE y.kind = "refresh"
    <3> PICK z \in Progress : z = [y EXCEPT !.pc = "compare", !.listed = Present]
      BY <2>2
    <3>1. act' = [act EXCEPT ![r] = z]
      BY <2>3, <2>4
    <3>2. z.pc = "compare" /\ z.listed = Present /\ z.kind = y.kind /\ z.clean = y.clean /\ z.todo = y.todo /\ z.snap = y.snap
          /\ z.failed = y.failed
      BY DEF Progress
    <3> QED BY <2>4, <3>1, <3>2
  <2>5. CASE y.kind # "refresh"
    <3> PICK z \in Progress : z = [y EXCEPT !.pc = "process"]
      BY <2>2
    <3>1. act' = [act EXCEPT ![r] = z]
      BY <2>3, <2>5
    <3>2. z.pc = "process" /\ z.kind = y.kind /\ z.clean = y.clean /\ z.todo = y.todo /\ z.snap = y.snap
          /\ z.failed = y.failed
      BY DEF Progress
    <3> QED BY <2>5, <3>1, <3>2
  <2> QED BY <2>4, <2>5
<1>3. act' \in [Runs -> Progress] /\ act'[r] = x /\ \A q \in Runs \ {r} : act'[q] = act[q]
  BY TypedIndex, RunBecomes
<1>4. /\ work' \in [Runs -> [Files -> Processing]]
      /\ \A q \in Runs \ {r} : work'[q] = work[q]
      /\ \A f \in Files : work'[r][f].st \in {"none", "todo"}
      /\ x.kind = "refresh" => \A f \in Files : work'[r][f].st = "none"
      /\ x.kind = "rebuild" => \A f \in Files : work'[r][f].st = "todo" <=> f \in Present
  <2>1. CASE x.kind = "refresh"
    BY <1>2, <2>1, TypedIndex DEF Collect
  <2>2. CASE x.kind = "rebuild"
    <3>1. [f \in Files |-> [Untouched EXCEPT !.st = IF f \in Present THEN "todo" ELSE "none"]] \in [Files -> Processing]
      <4>1. 0 \in 0..MaxVersion
        BY IndexAssumption
      <4>2. [Untouched EXCEPT !.st = "todo"] \in Processing /\ [Untouched EXCEPT !.st = "none"] \in Processing
        BY <4>1 DEF Untouched, Processing
      <4> QED BY <4>2
    <3> PICK w \in [Files -> Processing] :
          w = [f \in Files |-> [Untouched EXCEPT !.st = IF f \in Present THEN "todo" ELSE "none"]]
      BY <3>1
    <3>2. work' = [work EXCEPT ![r] = w]
      BY <2>2 DEF Collect
    <3>3. \A f \in Files : w[f].st = IF f \in Present THEN "todo" ELSE "none"
      BY DEF Untouched
    <3> QED BY <2>2, <3>2, <3>3, TypedIndex, WorkBecomes DEF Present
  <2> QED BY <1>1, <2>1, <2>2
<1>5. Running(r)
  BY <1>1, <1>3, <1>4 DEF Running, Active, At
<1> /\ disk' = disk /\ Present' = Present
    /\ Disordered' <=> Disordered
    /\ Sound' <=> Sound
    /\ Exact' <=> Exact
  BY <1>5, RunningFacts
<1>6. IndexTyped'
  <2>1. \A q \in Runs, g \in Files : work'[q][g].st = "read" => work'[q][g].ver # 0
    <3> SUFFICES ASSUME NEW q \in Runs, NEW g \in Files, work'[q][g].st = "read" PROVE work'[q][g].ver # 0
      OBVIOUS
    <3>1. q # r
      BY <1>4
    <3>2. work[q][g].ver # 0
      BY <1>4, <3>1 DEF IndexTyped
    <3> QED BY <1>4, <3>1, <3>2
  <2> QED BY <1>1, <1>3, <1>4, <2>1, TypedIndex, IndexIsTyped
<1> act[r].failed = {}
  BY <1>1 DEF Scheduled
<1>7. Scheduled'
  BY <1>1, <1>2, <1>3, <1>4, <1>5, RunningScheduled DEF At
<1>8. /\ \A q \in Runs, g \in Files :
           /\ Stored(q, g)' <=> Stored(q, g)
           /\ work'[q][g].st = "read" => work[q][g] = work'[q][g]
      /\ \A q \in Runs : act'[q].todo = act[q].todo /\ act'[q].snap = act[q].snap /\ (At(q, "saving")' <=> At(q, "saving"))
  <2>1. ASSUME NEW q \in Runs, NEW g \in Files
        PROVE  (Stored(q, g)' <=> Stored(q, g)) /\ (work'[q][g].st = "read" => work[q][g] = work'[q][g])
    <3>1. CASE q = r
      BY <1>2, <1>4, <3>1 DEF Stored
    <3>2. CASE q # r
      BY <1>4, <3>2 DEF Stored
    <3> QED BY <3>1, <3>2
  <2>2. \A q \in Runs : act'[q].todo = act[q].todo /\ act'[q].snap = act[q].snap /\ (At(q, "saving")' <=> At(q, "saving"))
    BY <1>1, <1>3 DEF At
  <2> QED BY <2>1, <2>2
<1>9. /\ \A g \in Files : \A v : (IsRow(g, v)' <=> IsRow(g, v)) /\ (Pending(g, v)' <=> Pending(g, v)) /\ (Kept(g, v)' <=> Kept(g, v))
      /\ \A g \in Files : Sure(g)' <=> Sure(g)
  BY <1>1, <1>8 DEF IsRow, Pending, Kept, Sure
<1>10. Rebuilding' <=> Rebuilding
  BY <1>1, <1>3 DEF Rebuilding
<1>11. NoneNewer'
  BY <1>1, <1>8 DEF IndexInvariant, NoneNewer
<1>12. ProcessedTrue'
  BY <1>1, <1>8 DEF IndexInvariant, ProcessedTrue, IsRow, Kept
<1>13. CacheTrue' /\ CacheExact'
  <2>1. \A g \in Files : Unsettled(g)' <=> Unsettled(g)
    BY <1>3, <1>8 DEF Unsettled
  <2> QED BY <1>1, <1>8, <2>1 DEF IndexInvariant, CacheTrue, CacheExact, IsRow, Kept, Pending
<1>14. SavedTrue'
  BY <1>1, <1>8, <1>9, <1>10 DEF IndexInvariant, SavedTrue
<1>15. ListedTrue'
  BY <1>1, <1>3 DEF IndexInvariant, ListedTrue, At
<1>16. CleanRuns'
  <2> SUFFICES ASSUME NEW q \in Runs, act'[q].clean /\ (act'[q].kind = "rebuild" \/ ~Disordered') PROVE CleanRun(q)'
    BY DEF CleanRuns
  <2>1. CleanRun(q) /\ q = r
    BY <1>1, <1>5 DEF IndexInvariant, CleanRuns, Scheduled, Running
  <2>2. ASSUME NEW g \in Files, At(r, "process")' PROVE InHand(r, g)'
    <3>1. act[r].kind = "rebuild" /\ cache[g] = 0
      BY <1>1, <1>3, <2>1, <2>2 DEF CleanRun, At
    <3>2. work'[r][g].st = "todo" <=> disk[g] # 0
      BY <1>3, <1>4, <3>1 DEF Present
    <3> QED BY <1>1, <1>3, <1>4, <3>1, <3>2 DEF InHand, Known, Owed, UnderWay
  <2> QED BY <1>1, <1>3, <2>1, <2>2 DEF CleanRun, At
<1>17. DueTrue'
  <2>1. ASSUME "overlap" \notin seen, NEW g \in Files, UnderWay(r, g)' PROVE NotKnown(g)
    <3>1. act[r].kind = "rebuild"
      BY <1>1, <1>3, <1>4, <2>1 DEF UnderWay
    <3> QED BY <1>1, <2>1, <3>1 DEF IndexInvariant, DueTrue, NotKnown, At
  <2>2. ~At(r, "collect")' /\ ~At(r, "saving")'
    BY <1>1, <1>3 DEF At
  <2> QED BY <1>1, <1>5, <1>10, <2>1, <2>2, RunningSame
<1> QED BY <1>6, <1>7, <1>11, <1>12, <1>13, <1>14, <1>15, <1>16, <1>17 DEF IndexInvariant

LEMMA KindsAre ==
  ASSUME IndexTyped, NEW r \in Runs
  PROVE  act[r].kind \in {"refresh", "rebuild"} /\ act[r].clean \in BOOLEAN
BY TypedIndex DEF Progress

(* What two runs that are under way at once imply.                         *)
LEMMA TogetherFacts ==
  ASSUME IndexTyped, Scheduled, NEW r \in Runs, r \in Active, NEW q \in Runs, q # r, q \in Active
  PROVE  /\ "overlap" \in seen /\ ~act[q].clean
         /\ ~Disordered => "listingStale" \notin seen /\ act[q].kind = "refresh"
<1>1. "overlap" \in seen /\ ~act[q].clean
  BY DEF Scheduled
<1>2. ~Disordered => "listingStale" \notin seen
  BY <1>1 DEF Disordered
<1>3. ~Disordered => "rebuildOverlap" \notin seen
  BY DEF Disordered, Upset
<1>4. "rebuildOverlap" \notin seen => act[q].kind # "rebuild"
  BY DEF Scheduled
<1> QED BY <1>1, <1>2, <1>3, <1>4, KindsAre

LEMMA CompareKeeps ==
  ASSUME IndexInvariant, NEW r \in Runs, Compare(r)
  PROVE  IndexInvariant'
<1> IndexTyped /\ Scheduled
  BY DEF IndexInvariant
<1> DEFINE listed == act[r].listed
           gone == Removed(listed)
           new == Changed(listed)
<1>1. /\ act[r].pc = "compare" /\ act[r].kind = "refresh" /\ disk \in [Files -> 0..MaxVersion]
      /\ UNCHANGED <<trees, head, newest, current, chunks, vectors, saved, moves, unembedded, seen>>
  BY TypedIndex DEF Compare, At, world, ghosts, Scheduled
<1>2. act[r].todo = {} /\ \A f \in Files : work[r][f].st = "none"
  BY <1>1 DEF Scheduled, At
<1>3. /\ row' = [f \in Files |-> IF f \in gone /\ row[f].branch = current THEN NoRow ELSE row[f]]
      /\ cache' = [f \in Files |-> IF f \in gone THEN 0 ELSE cache[f]]
      /\ dirty' = (dirty \/ gone # {})
      /\ work' = [work EXCEPT ![r] = [f \in Files |-> [Untouched EXCEPT !.st = IF f \in new THEN "todo" ELSE "none"]]]
      /\ act' = [act EXCEPT ![r].pc = "process", ![r].listed = {}]
  BY DEF Compare
<1>4. \A f \in Files : f \in gone <=> cache[f] # 0 /\ f \notin listed
  BY DEF Removed
<1>5. \A f \in Files : f \in new <=> f \in listed /\ (cache[f] = 0 \/ (disk[f] # 0 /\ disk[f] # cache[f]))
  BY DEF Changed
<1> HIDE DEF gone, new
<1> PICK x \in Progress :
      /\ act' = [act EXCEPT ![r] = x] /\ x.kind = "refresh" /\ x.clean = act[r].clean
      /\ x.todo = {} /\ x.snap = act[r].snap /\ x.pc = "process" /\ x.failed = act[r].failed
  <2> PICK y \in Progress : y = act[r]
    BY TypedIndex
  <2>1. [y EXCEPT !.pc = "process", !.listed = {}] \in Progress
    BY DEF Progress
  <2>2. act' = [act EXCEPT ![r] = [y EXCEPT !.pc = "process", !.listed = {}]]
    BY <1>3, TypedIndex
  <2> QED BY <1>1, <1>2, <2>1, <2>2 DEF Progress
<1>6. act' \in [Runs -> Progress] /\ act'[r] = x /\ \A q \in Runs \ {r} : act'[q] = act[q]
  BY TypedIndex, RunBecomes
<1> PICK w \in [Files -> Processing] :
      /\ work' = [work EXCEPT ![r] = w]
      /\ \A f \in Files : w[f].st = IF f \in new THEN "todo" ELSE "none"
  <2>1. 0 \in 0..MaxVersion
    BY IndexAssumption
  <2>2. [Untouched EXCEPT !.st = "todo"] \in Processing /\ [Untouched EXCEPT !.st = "none"] \in Processing
    BY <2>1 DEF Untouched, Processing
  <2>3. [f \in Files |-> [Untouched EXCEPT !.st = IF f \in new THEN "todo" ELSE "none"]] \in [Files -> Processing]
    BY <2>2
  <2> PICK w \in [Files -> Processing] :
        w = [f \in Files |-> [Untouched EXCEPT !.st = IF f \in new THEN "todo" ELSE "none"]]
    BY <2>3
  <2>4. work' = [work EXCEPT ![r] = w]
    BY <1>3
  <2>5. \A f \in Files : w[f].st = IF f \in new THEN "todo" ELSE "none"
    BY DEF Untouched
  <2> QED BY <2>4, <2>5
<1>7. /\ work' \in [Runs -> [Files -> Processing]] /\ work'[r] = w
      /\ \A q \in Runs \ {r} : work'[q] = work[q]
  BY TypedIndex, WorkBecomes
<1>8. Running(r)
  BY <1>1, <1>6, <1>7 DEF Running, Active, At
<1> /\ disk' = disk /\ Present' = Present
    /\ Disordered' <=> Disordered
    /\ Sound' <=> Sound
    /\ Exact' <=> Exact
  BY <1>8, RunningFacts
<1>9. r \in Active /\ (Sound => ~Disordered)
  BY <1>1, <1>8 DEF Running, Sound, Healing, Scheduled
<1>10. IndexTyped'
  <2>1. \A q \in Runs, g \in Files : work'[q][g].st = "read" => work'[q][g].ver # 0
    <3> SUFFICES ASSUME NEW q \in Runs, NEW g \in Files, work'[q][g].st = "read" PROVE work'[q][g].ver # 0
      OBVIOUS
    <3>1. q # r
      BY <1>7
    <3>2. work[q][g].ver # 0
      BY <1>7, <3>1 DEF IndexTyped
    <3> QED BY <1>7, <3>1, <3>2
  <2>2. row' \in [Files -> [branch : Branches, ver : 1..MaxVersion] \cup {NoRow}]
    BY <1>3, TypedIndex
  <2>3. cache' \in [Files -> 0..MaxVersion] /\ dirty' \in BOOLEAN
    BY <1>3, TypedIndex, IndexAssumption
  <2> QED BY <1>1, <1>6, <1>7, <2>1, <2>2, <2>3, TypedIndex, IndexIsTyped
<1> act[r].failed = {}
  BY <1>1 DEF Scheduled
<1>11. Scheduled'
  <2>1. dirty' = dirty \/ dirty' = TRUE
    BY <1>3, TypedIndex
  <2> QED BY <1>1, <1>2, <1>6, <1>7, <1>8, <2>1, RunningScheduled DEF At
<1>12. /\ \A q \in Runs, g \in Files :
           /\ Stored(q, g)' <=> Stored(q, g)
           /\ Stored(q, g) => q # r /\ q \in Active
           /\ work'[q][g].st = "read" => work[q][g] = work'[q][g]
       /\ \A q \in Runs : act'[q].todo = act[q].todo /\ act'[q].snap = act[q].snap /\ (At(q, "saving")' <=> At(q, "saving"))
  BY <1>1, <1>2, <1>6, <1>7 DEF Stored, At, Active, Scheduled
<1>13. /\ \A g \in Files : g \notin gone => row'[g] = row[g] /\ cache'[g] = cache[g]
       /\ \A g \in Files : g \in gone => row'[g].branch # current /\ cache'[g] = 0
  BY <1>3, TypedIndex, IndexAssumption DEF NoRow
<1>14. /\ \A g \in Files \ gone : \A v : IsRow(g, v)' <=> IsRow(g, v)
       /\ \A g \in Files : \A v : (Pending(g, v)' <=> Pending(g, v)) /\ (Kept(g, v)' <=> Kept(g, v))
       /\ \A g \in Files \ gone : Sure(g)' <=> Sure(g)
  BY <1>1, <1>12, <1>13 DEF IsRow, Pending, Kept, Sure
<1>15. Rebuilding' <=> Rebuilding
  BY <1>1, <1>6 DEF Rebuilding
<1>16. ~Disordered /\ "listingStale" \notin seen => gone \cap Present = {}
  BY <1>1, <1>4 DEF IndexInvariant, ListedTrue, At, Present
<1>17. NoneNewer'
  <2>1. 0 <= newest
    BY TypedIndex, IndexAssumption
  <2> QED BY <1>1, <1>12, <1>13, <2>1 DEF IndexInvariant, NoneNewer
<1>18. ProcessedTrue'
  <2> SUFFICES ASSUME Sound, NEW q \in Runs, NEW g \in Files
               PROVE  /\ work'[q][g].st = "read" => work'[q][g].ver = disk[g]
                      /\ Stored(q, g)' => disk[g] # 0 /\ IsRow(g, disk[g])' /\ (Kept(g, disk[g])' \/ <<g, disk[g]>> \in act'[q].todo)
    BY <1>1 DEF ProcessedTrue, IsRow, Kept
  <2>1. ASSUME work'[q][g].st = "read" PROVE work'[q][g].ver = disk[g]
    <3>1. work[q][g] = work'[q][g]
      BY <1>12, <2>1
    <3>2. work[q][g].st = "read" => work[q][g].ver = disk[g]
      BY DEF IndexInvariant, ProcessedTrue
    <3> QED BY <2>1, <3>1, <3>2
  <2>2. ASSUME Stored(q, g)
        PROVE  disk[g] # 0 /\ IsRow(g, disk[g])' /\ (Kept(g, disk[g])' \/ <<g, disk[g]>> \in act'[q].todo)
    <3>1. disk[g] # 0 /\ IsRow(g, disk[g]) /\ (Kept(g, disk[g]) \/ <<g, disk[g]>> \in act[q].todo)
      BY <2>2 DEF IndexInvariant, ProcessedTrue
    <3>2. g \notin gone
      BY <1>9, <1>12, <1>16, <2>2, <3>1, TogetherFacts DEF Present
    <3> QED BY <1>1, <1>12, <1>14, <3>1, <3>2
  <2> QED BY <1>12, <2>1, <2>2
<1>19. CacheTrue'
  <2> SUFFICES ASSUME Sound, NEW g \in Files, cache'[g] # 0, cache'[g] = disk[g]
               PROVE  IsRow(g, disk[g])' /\ ("overlap" \in seen \/ Kept(g, disk[g])' \/ Pending(g, disk[g])')
    BY <1>1 DEF CacheTrue, IsRow, Kept, Pending
  <2> QED BY <1>13, <1>14 DEF IndexInvariant, CacheTrue
<1>20. CacheExact'
  <2> SUFFICES ASSUME Exact', NEW g \in Files
               PROVE  /\ \/ Unsettled(g)'
                         \/ (cache[g] = 0 /\ row[g].branch # current)'
                         \/ (cache[g] # 0 /\ IsRow(g, cache[g]))'
                      /\ (cache[g] # 0 => Kept(g, cache[g]) \/ Pending(g, cache[g]))'
    BY DEF CacheExact
  <2>1. CASE g \in gone
    BY <1>1, <1>13, <2>1
  <2>2. CASE g \notin gone
    <3>1. cache'[g] = cache[g] /\ row'[g] = row[g]
      BY <1>13, <2>2
    <3>2. /\ \/ Unsettled(g)
             \/ cache[g] = 0 /\ row[g].branch # current
             \/ cache[g] # 0 /\ IsRow(g, cache[g])
          /\ cache[g] # 0 => Kept(g, cache[g]) \/ Pending(g, cache[g])
      BY DEF IndexInvariant, CacheExact
    <3>3. Unsettled(g) => Unsettled(g)'
      BY <1>6, <1>12 DEF Unsettled
    <3>4. cache[g] # 0 /\ IsRow(g, cache[g]) => (cache[g] # 0 /\ IsRow(g, cache[g]))'
      BY <1>1, <3>1 DEF IsRow
    <3>5. (cache[g] # 0 => Kept(g, cache[g]) \/ Pending(g, cache[g])) => (cache[g] # 0 => Kept(g, cache[g]) \/ Pending(g, cache[g]))'
      BY <1>1, <1>12, <3>1 DEF Kept, Pending
    <3> QED BY <1>1, <3>1, <3>2, <3>3, <3>4, <3>5
  <2> QED BY <2>1, <2>2
<1>21. SavedTrue'
  <2> SUFFICES ASSUME ~Disordered, "restored" \notin seen, NEW g \in Files
               PROVE  /\ saved[g] # 0 /\ saved[g] = disk[g] => Rebuilding' \/ Sure(g)'
                      /\ \A q \in Runs : At(q, "saving") /\ act[q].snap[g] # 0 /\ act[q].snap[g] = disk[g] => Sure(g)'
    BY <1>1, <1>12 DEF SavedTrue
  <2>1. ASSUME g \notin gone
        PROVE  /\ saved[g] # 0 /\ saved[g] = disk[g] => Rebuilding' \/ Sure(g)'
               /\ \A q \in Runs : At(q, "saving") /\ act[q].snap[g] # 0 /\ act[q].snap[g] = disk[g] => Sure(g)'
    BY <1>14, <1>15, <2>1 DEF IndexInvariant, SavedTrue
  <2>2. ASSUME saved[g] # 0, saved[g] = disk[g] PROVE g \notin gone
    BY <1>1, <1>4, <2>2 DEF IndexInvariant, ListedTrue, At, Present
  <2>3. ASSUME NEW q \in Runs, At(q, "saving"), act[q].snap[g] # 0, act[q].snap[g] = disk[g] PROVE g \notin gone
    <3>1. q # r /\ q \in Active
      BY <1>1, <2>3 DEF At, Active
    <3>2. "listingStale" \notin seen
      BY <1>9, <3>1, TogetherFacts
    <3> QED BY <1>16, <2>3, <3>2 DEF Present
  <2> QED BY <2>1, <2>2, <2>3
<1>22. ListedTrue'
  <2> SUFFICES ASSUME ~Disordered, NEW q \in Runs, At(q, "compare")'
               PROVE  /\ "listingStale" \notin seen => act'[q].listed = Present
                      /\ "restored" \notin seen => \A f \in Present \ act'[q].listed : saved[f] # disk[f] /\ cache'[f] # disk[f]
    BY <1>1 DEF ListedTrue
  <2>1. q # r /\ act'[q] = act[q] /\ At(q, "compare")
    BY <1>6 DEF At
  <2> QED BY <1>13, <2>1 DEF IndexInvariant, ListedTrue, Present
<1>23. CleanRuns'
  <2> SUFFICES ASSUME NEW q \in Runs, act'[q].clean /\ (act'[q].kind = "rebuild" \/ ~Disordered') PROVE CleanRun(q)'
    BY DEF CleanRuns
  <2>1. q = r
    BY <1>1, <1>8, <1>9 DEF IndexInvariant, Scheduled, Running
  <2>2. listed = Present
    BY <1>1, <1>8, <2>1, KindsAre DEF IndexInvariant, CleanRuns, CleanRun, At, Running
  <2>3. ASSUME NEW g \in Files PROVE InHand(r, g)'
    <3>1. \/ cache'[g] = disk[g] /\ w[g].st = "none"
          \/ disk[g] # 0 /\ cache'[g] # disk[g] /\ w[g].st = "todo"
      BY <1>4, <1>5, <1>13, <2>2 DEF Present
    <3> QED BY <1>6, <1>7, <3>1 DEF InHand, Known, Owed, UnderWay
  <2> QED BY <1>1, <1>6, <2>1, <2>3 DEF CleanRun, At
<1>24. DueTrue'
  <2>1. ASSUME "overlap" \notin seen, ~Disordered, "restored" \notin seen, NEW g \in Files
        PROVE  /\ UnderWay(r, g)' => NotKnown(g)'
               /\ saved'[g] # 0 /\ saved'[g] = disk[g] => Rebuilding' \/ cache'[g] = disk[g]
    <3>1. UnderWay(r, g)' => NotKnown(g)'
      BY <1>5, <1>7, <1>13 DEF UnderWay, NotKnown
    <3>2. ASSUME saved[g] # 0, saved[g] = disk[g] PROVE Rebuilding' \/ cache'[g] = disk[g]
      <4>1. g \notin gone
        BY <1>1, <1>4, <2>1, <3>2 DEF IndexInvariant, ListedTrue, At, Present
      <4>2. Due(g)
        BY <2>1 DEF IndexInvariant, DueTrue
      <4> QED BY <1>13, <1>15, <3>2, <4>1, <4>2 DEF Due
    <3> QED BY <1>1, <3>1, <3>2
  <2>2. ~At(r, "collect")' /\ ~At(r, "saving")'
    BY <1>6 DEF At
  <2> QED BY <1>8, <2>1, <2>2, RunningDue
<1> QED BY <1>10, <1>11, <1>17, <1>18, <1>19, <1>20, <1>21, <1>22, <1>23, <1>24 DEF IndexInvariant

LEMMA StoreKeeps ==
  ASSUME IndexInvariant, NEW r \in Runs, NEW f \in Files, Store(r, f)
  PROVE  IndexInvariant'
<1> IndexTyped /\ Scheduled
  BY DEF IndexInvariant
<1> PICK v \in 0..MaxVersion : v = work[r][f].ver
  BY TypedIndex DEF Processing
<1>1. /\ act[r].pc = "process" /\ work[r][f].st = "read" /\ disk \in [Files -> 0..MaxVersion]
      /\ UNCHANGED <<trees, head, newest, current, vectors, cache, dirty, saved, moves, unembedded, seen>>
      /\ row' = [row EXCEPT ![f] = [branch |-> current, ver |-> v]]
      /\ chunks' = [chunks EXCEPT ![f] = [WithoutChunks(f, current) EXCEPT ![v] = current]]
      /\ work' = [work EXCEPT ![r][f] = [Untouched EXCEPT !.st = "stored"]]
  BY TypedIndex DEF Store, Doing, At, world, hashes, ghosts
<1>2. v \in 1..MaxVersion
  BY <1>1, TypedIndex, IndexAssumption DEF Processing
<1>3. f \in Files /\ <<f, v>> \in Versions /\ v # 0
  BY <1>2, IndexAssumption DEF Versions
<1> PICK x \in Progress :
      /\ act' = [act EXCEPT ![r] = x] /\ x.pc = "process" /\ x.kind = act[r].kind /\ x.clean = act[r].clean
      /\ x.snap = act[r].snap /\ x.listed = act[r].listed /\ x.failed = act[r].failed
      /\ act[r].todo \subseteq x.todo /\ (<<f, v>> \in vectors \/ <<f, v>> \in x.todo)
  <2> PICK y \in Progress : y = act[r]
    BY TypedIndex
  <2>1. [y EXCEPT !.todo = @ \cup {<<f, v>>}] \in Progress
    BY <1>3 DEF Progress
  <2>2. act' = (IF chunks[f][v] = current /\ <<f, v>> \in vectors THEN act
                ELSE [act EXCEPT ![r].todo = @ \cup {<<f, v>>}])
    BY DEF Store
  <2>3. CASE chunks[f][v] = current /\ <<f, v>> \in vectors
    <3>1. act' = [act EXCEPT ![r] = y]
      BY <2>2, <2>3, TypedIndex
    <3> QED BY <1>1, <2>3, <3>1
  <2>4. CASE ~(chunks[f][v] = current /\ <<f, v>> \in vectors)
    <3>1. act' = [act EXCEPT ![r] = [y EXCEPT !.todo = @ \cup {<<f, v>>}]]
      BY <2>2, <2>4
    <3> QED BY <1>1, <2>1, <3>1 DEF Progress
  <2> QED BY <2>3, <2>4
<1>4. act' \in [Runs -> Progress] /\ act'[r] = x /\ \A q \in Runs \ {r} : act'[q] = act[q]
  BY TypedIndex, RunBecomes
<1> PICK z \in Processing : z.st = "stored" /\ work' = [work EXCEPT ![r][f] = z]
  <2>1. 0 \in 0..MaxVersion
    BY IndexAssumption
  <2>2. [Untouched EXCEPT !.st = "stored"] \in Processing /\ [Untouched EXCEPT !.st = "stored"].st = "stored"
    BY <2>1 DEF Untouched, Processing
  <2> QED BY <1>1, <2>2
<1>5. /\ work' \in [Runs -> [Files -> Processing]] /\ work'[r][f] = z
      /\ \A q \in Runs \ {r} : work'[q] = work[q]
      /\ \A g \in Files \ {f} : work'[r][g] = work[r][g]
  BY TypedIndex, FileBecomes
<1>6. Running(r)
  BY <1>1, <1>4, <1>5 DEF Running, Active, At
<1> /\ disk' = disk /\ Present' = Present
    /\ Disordered' <=> Disordered
    /\ Sound' <=> Sound
    /\ Exact' <=> Exact
  BY <1>6, RunningFacts
<1>7. /\ row' \in [Files -> [branch : Branches, ver : 1..MaxVersion] \cup {NoRow}]
      /\ chunks' \in [Files -> [1..MaxVersion -> Branches \cup {"none"}]]
      /\ row'[f] = [branch |-> current, ver |-> v] /\ chunks'[f][v] = current
      /\ \A g \in Files \ {f} : row'[g] = row[g] /\ chunks'[g] = chunks[g]
  <2>1. WithoutChunks(f, current) \in [1..MaxVersion -> Branches \cup {"none"}]
    <3>1. WithoutChunks(f, current) = [u \in 1..MaxVersion |-> IF chunks[f][u] = current THEN "none" ELSE chunks[f][u]]
      BY DEF WithoutChunks
    <3> chunks[f] \in [1..MaxVersion -> Branches \cup {"none"}]
      BY TypedIndex
    <3>2. \A u \in 1..MaxVersion : chunks[f][u] \in Branches \cup {"none"}
      OBVIOUS
    <3> QED BY <3>1, <3>2
  <2> PICK c \in [1..MaxVersion -> Branches \cup {"none"}] : c = WithoutChunks(f, current)
    BY <2>1
  <2>2. [c EXCEPT ![v] = current] \in [1..MaxVersion -> Branches \cup {"none"}] /\ [c EXCEPT ![v] = current][v] = current
    BY <1>2, TypedIndex
  <2> PICK d \in [1..MaxVersion -> Branches \cup {"none"}] : d = [c EXCEPT ![v] = current] /\ d[v] = current
    BY <2>2
  <2>3. chunks' = [chunks EXCEPT ![f] = d]
    BY <1>1
  <2>4. [branch |-> current, ver |-> v] \in [branch : Branches, ver : 1..MaxVersion]
    BY <1>2, TypedIndex
  <2> QED BY <1>1, <2>3, <2>4, TypedIndex
<1>8. IndexTyped'
  <2>1. \A q \in Runs, g \in Files : work'[q][g].st = "read" => work'[q][g].ver # 0
    <3> SUFFICES ASSUME NEW q \in Runs, NEW g \in Files, work'[q][g].st = "read" PROVE work'[q][g].ver # 0
      OBVIOUS
    <3>1. work'[q][g] = work[q][g]
      BY <1>5
    <3>2. work[q][g].st = "read" => work[q][g].ver # 0
      BY DEF IndexTyped
    <3> QED BY <3>1, <3>2
  <2> QED BY <1>1, <1>4, <1>5, <1>7, <2>1, TypedIndex, IndexIsTyped
<1>9. Scheduled'
  BY <1>1, <1>4, <1>6, RunningScheduled DEF At
<1>10. \A q \in Runs, g \in Files :
        /\ work'[q][g].st = "read" => work[q][g] = work'[q][g]
        /\ (q = r /\ g = f) \/ (Stored(q, g)' <=> Stored(q, g))
  BY <1>5 DEF Stored
<1>11. \A q \in Runs :
         /\ act[q].todo \subseteq act'[q].todo /\ act'[q].snap = act[q].snap /\ act'[q].pc = act[q].pc
         /\ act'[q].kind = act[q].kind /\ act'[q].listed = act[q].listed
  BY <1>1, <1>4
<1>12. /\ \A g \in Files \ {f} : \A u : IsRow(g, u)' <=> IsRow(g, u)
       /\ IsRow(f, v)'
       /\ \A g \in Files : \A u : (Pending(g, u) => Pending(g, u)') /\ (Kept(g, u)' <=> Kept(g, u))
       /\ Rebuilding' <=> Rebuilding
  <2>1. (\A g \in Files \ {f} : \A u : IsRow(g, u)' <=> IsRow(g, u)) /\ IsRow(f, v)'
    BY <1>1, <1>7 DEF IsRow
  <2>2. \A g \in Files : \A u : (Pending(g, u) => Pending(g, u)')
    BY <1>11 DEF Pending
  <2>3. \A g \in Files : \A u : (Kept(g, u)' <=> Kept(g, u))
    BY <1>1 DEF Kept
  <2>4. Rebuilding' <=> Rebuilding
    BY <1>11 DEF Rebuilding
  <2> QED BY <2>1, <2>2, <2>3, <2>4
<1>13. Sound => v = disk[f]
  BY <1>1 DEF IndexInvariant, ProcessedTrue
<1>14. \A g \in Files : Sound /\ IsRow(g, disk[g]) => IsRow(g, disk[g])'
  BY <1>12, <1>13
<1>15. NoneNewer'
  BY <1>1, <1>11 DEF IndexInvariant, NoneNewer
<1>16. ProcessedTrue'
  <2> SUFFICES ASSUME Sound, NEW q \in Runs, NEW g \in Files
               PROVE  /\ work'[q][g].st = "read" => work'[q][g].ver = disk[g]
                      /\ Stored(q, g)' => disk[g] # 0 /\ IsRow(g, disk[g])' /\ (Kept(g, disk[g])' \/ <<g, disk[g]>> \in act'[q].todo)
    BY <1>1 DEF ProcessedTrue, IsRow, Kept
  <2>1. ASSUME work'[q][g].st = "read" PROVE work'[q][g].ver = disk[g]
    <3>1. work[q][g] = work'[q][g]
      BY <1>10, <2>1
    <3>2. work[q][g].st = "read" => work[q][g].ver = disk[g]
      BY DEF IndexInvariant, ProcessedTrue
    <3> QED BY <2>1, <3>1, <3>2
  <2>2. ASSUME Stored(q, g)'
        PROVE  disk[g] # 0 /\ IsRow(g, disk[g])' /\ (Kept(g, disk[g])' \/ <<g, disk[g]>> \in act'[q].todo)
    <3>1. CASE q = r /\ g = f
      <4>1. IsRow(f, disk[f])' /\ disk[f] # 0
        BY <1>1, <1>3, <1>12, <1>13
      <4>2. Kept(f, v) \/ <<f, v>> \in act'[r].todo
        BY <1>4 DEF Kept
      <4> QED BY <1>12, <1>13, <3>1, <4>1, <4>2
    <3>2. CASE ~(q = r /\ g = f)
      <4>1. Stored(q, g)
        BY <1>10, <2>2, <3>2
      <4>2. disk[g] # 0 /\ IsRow(g, disk[g]) /\ (Kept(g, disk[g]) \/ <<g, disk[g]>> \in act[q].todo)
        BY <4>1 DEF IndexInvariant, ProcessedTrue
      <4> QED BY <1>11, <1>12, <1>14, <4>2
    <3> QED BY <3>1, <3>2
  <2> QED BY <2>1, <2>2
<1>17. CacheTrue'
  <2> SUFFICES ASSUME Sound, NEW g \in Files, cache[g] # 0, cache[g] = disk[g]
               PROVE  IsRow(g, disk[g])' /\ ("overlap" \in seen \/ Kept(g, disk[g])' \/ Pending(g, disk[g])')
    BY <1>1 DEF CacheTrue, IsRow, Kept, Pending
  <2>1. IsRow(g, disk[g]) /\ ("overlap" \in seen \/ Kept(g, disk[g]) \/ Pending(g, disk[g]))
    BY DEF IndexInvariant, CacheTrue
  <2> QED BY <1>12, <1>14, <2>1
<1>18. CacheExact'
  <2> SUFFICES ASSUME Exact, NEW g \in Files
               PROVE  /\ \/ Unsettled(g)'
                         \/ (cache[g] = 0 /\ row[g].branch # current)'
                         \/ (cache[g] # 0 /\ IsRow(g, cache[g]))'
                      /\ (cache[g] # 0 => Kept(g, cache[g]) \/ Pending(g, cache[g]))'
    BY DEF CacheExact
  <2>1. /\ \/ Unsettled(g)
           \/ cache[g] = 0 /\ row[g].branch # current
           \/ cache[g] # 0 /\ IsRow(g, cache[g])
        /\ cache[g] # 0 => Kept(g, cache[g]) \/ Pending(g, cache[g])
    BY DEF IndexInvariant, CacheExact
  <2>2. (cache[g] # 0 => Kept(g, cache[g]) \/ Pending(g, cache[g]))'
    BY <1>1, <1>11, <2>1 DEF Kept, Pending
  <2>3. CASE g = f
    <3>1. Unsettled(f)'
      BY <1>5 DEF Stored, Unsettled
    <3> QED BY <2>2, <2>3, <3>1
  <2>4. CASE g # f
    <3>1. Unsettled(g) => Unsettled(g)'
      BY <1>4, <1>10, <2>4 DEF Unsettled
    <3>2. cache[g] # 0 /\ IsRow(g, cache[g]) => (cache[g] # 0 /\ IsRow(g, cache[g]))'
      BY <1>1, <1>7, <2>4 DEF IsRow
    <3>3. row'[g] = row[g] /\ cache' = cache /\ current' = current
      BY <1>1, <1>7, <2>4
    <3> QED BY <2>1, <2>2, <3>1, <3>2, <3>3
  <2> QED BY <2>3, <2>4
<1>19. SavedTrue'
  <2> SUFFICES ASSUME ~Disordered, "restored" \notin seen, NEW g \in Files
               PROVE  /\ saved[g] # 0 /\ saved[g] = disk[g] => Rebuilding' \/ Sure(g)'
                      /\ \A q \in Runs : At(q, "saving") /\ act[q].snap[g] # 0 /\ act[q].snap[g] = disk[g] => Sure(g)'
    BY <1>1, <1>11 DEF SavedTrue, At
  <2>1. Sure(g) => Sure(g)'
    BY <1>1, <1>12, <1>14 DEF Sure, Sound
  <2> QED BY <1>12, <2>1 DEF IndexInvariant, SavedTrue
<1>20. ListedTrue'
  BY <1>1, <1>11 DEF IndexInvariant, ListedTrue, At
<1>21. CleanRuns'
  <2> SUFFICES ASSUME NEW q \in Runs, act'[q].clean /\ (act'[q].kind = "rebuild" \/ ~Disordered') PROVE CleanRun(q)'
    BY DEF CleanRuns
  <2>1. q = r /\ CleanRun(r)
    BY <1>6 DEF IndexInvariant, Scheduled, CleanRuns, Running
  <2>2. ASSUME NEW g \in Files PROVE InHand(r, g)'
    <3>1. InHand(r, g)
      BY <1>1, <2>1 DEF CleanRun, At
    <3>2. UnderWay(r, g)' <=> UnderWay(r, g)
      BY <1>1, <1>5 DEF UnderWay
    <3> QED BY <1>1, <1>4, <3>1, <3>2 DEF InHand, Known, Owed
  <2> QED BY <1>1, <1>4, <2>1, <2>2 DEF CleanRun, At
<1>22. DueTrue'
  <2>1. \A g \in Files : UnderWay(r, g)' => UnderWay(r, g)
    BY <1>1, <1>5 DEF UnderWay
  <2> QED BY <1>1, <1>4, <1>6, <1>12, <2>1, RunningSame DEF At
<1> QED BY <1>8, <1>9, <1>15, <1>16, <1>17, <1>18, <1>19, <1>20, <1>21, <1>22 DEF IndexInvariant

LEMMA StampKeeps ==
  ASSUME IndexInvariant, NEW r \in Runs, NEW f \in Files, Stamp(r, f)
  PROVE  IndexInvariant'
<1> IndexTyped /\ Scheduled
  BY DEF IndexInvariant
<1>1. /\ act[r].pc = "process" /\ work[r][f].st = "stored" /\ disk \in [Files -> 0..MaxVersion] /\ dirty' = TRUE
      /\ UNCHANGED <<trees, head, newest, current, row, chunks, vectors, saved, act, moves, unembedded, seen>>
      /\ cache' = [cache EXCEPT ![f] = disk[f]]
  BY TypedIndex DEF Stamp, Doing, At, world, tables, ghosts
<1> PICK z \in Processing : z.st = "done" /\ work' = [work EXCEPT ![r][f] = z]
  <2>1. 0 \in 0..MaxVersion
    BY IndexAssumption
  <2>2. [Untouched EXCEPT !.st = "done"] \in Processing /\ [Untouched EXCEPT !.st = "done"].st = "done"
    BY <2>1 DEF Untouched, Processing
  <2> QED BY <2>2 DEF Stamp
<1>2. /\ work' \in [Runs -> [Files -> Processing]] /\ work'[r][f] = z
      /\ \A q \in Runs \ {r} : work'[q] = work[q]
      /\ \A g \in Files \ {f} : work'[r][g] = work[r][g]
  BY TypedIndex, FileBecomes
<1>3. Running(r)
  BY <1>1, <1>2 DEF Running, Active, At
<1> /\ disk' = disk /\ Present' = Present
    /\ Disordered' <=> Disordered
    /\ Sound' <=> Sound
    /\ Exact' <=> Exact
  BY <1>3, RunningFacts
<1>4. /\ cache' \in [Files -> 0..MaxVersion] /\ cache'[f] = disk[f]
      /\ \A g \in Files \ {f} : cache'[g] = cache[g]
  BY <1>1, TypedIndex
<1>5. IndexTyped'
  <2>1. \A q \in Runs, g \in Files : work'[q][g].st = "read" => work'[q][g].ver # 0
    <3> SUFFICES ASSUME NEW q \in Runs, NEW g \in Files, work'[q][g].st = "read" PROVE work'[q][g].ver # 0
      OBVIOUS
    <3>1. work'[q][g] = work[q][g]
      BY <1>2
    <3>2. work[q][g].st = "read" => work[q][g].ver # 0
      BY DEF IndexTyped
    <3> QED BY <3>1, <3>2
  <2> QED BY <1>1, <1>2, <1>4, <2>1, TypedIndex, IndexIsTyped
<1>6. Scheduled'
  BY <1>1, <1>3, RunningScheduled DEF At
<1>7. \A q \in Runs, g \in Files :
        /\ work'[q][g].st = "read" => work[q][g] = work'[q][g]
        /\ Stored(q, g)' => Stored(q, g)
        /\ (q = r /\ g = f) \/ (Stored(q, g)' <=> Stored(q, g))
  BY <1>2 DEF Stored
<1>8. /\ \A g \in Files : \A u : (IsRow(g, u)' <=> IsRow(g, u)) /\ (Pending(g, u)' <=> Pending(g, u)) /\ (Kept(g, u)' <=> Kept(g, u))
      /\ \A g \in Files : Sure(g)' <=> Sure(g)
      /\ Rebuilding' <=> Rebuilding
  BY <1>1 DEF IsRow, Pending, Kept, Sure, Rebuilding
<1>9. Sound => disk[f] # 0 /\ IsRow(f, disk[f]) /\ (Kept(f, disk[f]) \/ Pending(f, disk[f]))
  BY <1>1 DEF IndexInvariant, ProcessedTrue, Stored, Pending
<1>10. NoneNewer'
  BY <1>1, <1>4, TypedIndex DEF IndexInvariant, NoneNewer, disk
<1>11. ProcessedTrue'
  <2> SUFFICES ASSUME Sound, NEW q \in Runs, NEW g \in Files
               PROVE  /\ work'[q][g].st = "read" => work'[q][g].ver = disk[g]
                      /\ Stored(q, g)' => disk[g] # 0 /\ IsRow(g, disk[g])' /\ (Kept(g, disk[g])' \/ <<g, disk[g]>> \in act'[q].todo)
    BY <1>1 DEF ProcessedTrue, IsRow, Kept
  <2>1. ASSUME work'[q][g].st = "read" PROVE work'[q][g].ver = disk[g]
    <3>1. work[q][g] = work'[q][g]
      BY <1>7, <2>1
    <3>2. work[q][g].st = "read" => work[q][g].ver = disk[g]
      BY DEF IndexInvariant, ProcessedTrue
    <3> QED BY <2>1, <3>1, <3>2
  <2>2. Stored(q, g) => disk[g] # 0 /\ IsRow(g, disk[g]) /\ (Kept(g, disk[g]) \/ <<g, disk[g]>> \in act[q].todo)
    BY DEF IndexInvariant, ProcessedTrue
  <2> QED BY <1>1, <1>7, <1>8, <2>1, <2>2
<1>12. CacheTrue'
  <2> SUFFICES ASSUME Sound, NEW g \in Files, cache'[g] # 0, cache'[g] = disk[g]
               PROVE  IsRow(g, disk[g])' /\ ("overlap" \in seen \/ Kept(g, disk[g])' \/ Pending(g, disk[g])')
    BY <1>1 DEF CacheTrue, IsRow, Kept, Pending
  <2>1. IsRow(g, disk[g]) /\ ("overlap" \in seen \/ Kept(g, disk[g]) \/ Pending(g, disk[g]))
    BY <1>4, <1>9 DEF IndexInvariant, CacheTrue
  <2> QED BY <1>8, <2>1
<1>13. CacheExact'
  <2> SUFFICES ASSUME Exact, NEW g \in Files
               PROVE  /\ \/ Unsettled(g)'
                         \/ (cache[g] = 0 /\ row[g].branch # current)'
                         \/ (cache[g] # 0 /\ IsRow(g, cache[g]))'
                      /\ (cache[g] # 0 => Kept(g, cache[g]) \/ Pending(g, cache[g]))'
    BY DEF CacheExact
  <2>1. CASE g = f
    <3>1. (cache[f] # 0 /\ IsRow(f, cache[f]))' /\ (Kept(f, cache[f]) \/ Pending(f, cache[f]))'
      BY <1>1, <1>4, <1>9 DEF Exact, Sound, IsRow, Kept, Pending
    <3> QED BY <2>1, <3>1
  <2>2. CASE g # f
    <3>1. /\ \/ Unsettled(g)
             \/ cache[g] = 0 /\ row[g].branch # current
             \/ cache[g] # 0 /\ IsRow(g, cache[g])
          /\ cache[g] # 0 => Kept(g, cache[g]) \/ Pending(g, cache[g])
      BY DEF IndexInvariant, CacheExact
    <3>2. (cache[g] # 0 => Kept(g, cache[g]) \/ Pending(g, cache[g]))'
      BY <1>1, <1>4, <2>2, <3>1 DEF Kept, Pending
    <3>3. Unsettled(g) => Unsettled(g)'
      BY <1>1, <1>7, <2>2 DEF Unsettled
    <3>4. cache[g] # 0 /\ IsRow(g, cache[g]) => (cache[g] # 0 /\ IsRow(g, cache[g]))'
      BY <1>1, <1>4, <2>2 DEF IsRow
    <3> QED BY <1>1, <1>4, <2>2, <3>1, <3>2, <3>3, <3>4
  <2> QED BY <2>1, <2>2
<1>14. SavedTrue'
  BY <1>1, <1>8 DEF IndexInvariant, SavedTrue, At
<1>15. ListedTrue'
  <2> SUFFICES ASSUME ~Disordered, NEW q \in Runs, At(q, "compare")
               PROVE  /\ "listingStale" \notin seen => act[q].listed = Present
                      /\ "restored" \notin seen => \A g \in Present \ act[q].listed : saved[g] # disk[g] /\ cache'[g] # disk[g]
    BY <1>1 DEF ListedTrue, At
  <2>1. q # r /\ q \in Active /\ r \in Active
    BY <1>1 DEF At, Active
  <2>2. "listingStale" \notin seen
    BY <2>1, TogetherFacts
  <2>3. act[q].listed = Present
    BY <2>2 DEF IndexInvariant, ListedTrue
  <2> QED BY <2>3
<1>16. CleanRuns'
  <2> SUFFICES ASSUME NEW q \in Runs, act'[q].clean /\ (act'[q].kind = "rebuild" \/ ~Disordered') PROVE CleanRun(q)'
    BY DEF CleanRuns
  <2>1. q = r /\ CleanRun(r)
    BY <1>1, <1>3 DEF IndexInvariant, Scheduled, CleanRuns, Running
  <2>2. ASSUME NEW g \in Files PROVE InHand(r, g)'
    <3>1. InHand(r, g)
      BY <1>1, <2>1 DEF CleanRun, At
    <3>2. CASE g = f
      <4>1. f \notin act[r].failed
        BY <1>1, <3>1, <3>2 DEF InHand, UnderWay
      <4> QED BY <1>1, <1>2, <1>4, <3>2, <4>1 DEF InHand, Known, UnderWay
    <3>3. CASE g # f
      BY <1>1, <1>2, <1>4, <3>1, <3>3 DEF InHand, Known, Owed, UnderWay
    <3> QED BY <3>2, <3>3
  <2> QED BY <1>1, <2>1, <2>2 DEF CleanRun, At
<1>17. DueTrue'
  <2>1. ASSUME "overlap" \notin seen, ~Disordered, "restored" \notin seen, NEW g \in Files
        PROVE  /\ UnderWay(r, g)' => NotKnown(g)'
               /\ saved'[g] # 0 /\ saved'[g] = disk[g] => Rebuilding' \/ cache'[g] = disk[g]
    <3>1. Due(g)
      BY <2>1 DEF IndexInvariant, DueTrue
    <3>2. CASE g = f
      BY <1>2, <1>4, <3>2 DEF UnderWay
    <3>3. CASE g # f
      BY <1>1, <1>2, <1>4, <1>8, <3>1, <3>3 DEF Due, UnderWay, NotKnown
    <3> QED BY <3>2, <3>3
  <2>2. ~At(r, "collect")' /\ ~At(r, "saving")'
    BY <1>1 DEF At
  <2> QED BY <1>3, <2>1, <2>2, RunningDue
<1> QED BY <1>5, <1>6, <1>10, <1>11, <1>12, <1>13, <1>14, <1>15, <1>16, <1>17 DEF IndexInvariant

LEMMA FileFailsKeeps ==
  ASSUME IndexInvariant, NEW r \in Runs, NEW f \in Files, ProcessFails(r, f)
  PROVE  IndexInvariant'
<1> IndexTyped /\ Scheduled
  BY DEF IndexInvariant
<1>1. /\ act[r].pc = "process" /\ UnderWay(r, f) /\ r \in Active
      /\ disk' = disk /\ Present' = Present /\ disk \in [Files -> 0..MaxVersion]
      /\ moves < MaxMoves /\ moves' = moves + 1 /\ seen' = seen \cup {"failed"}
      /\ UNCHANGED <<trees, head, newest, current, vectors, saved, unembedded>>
  BY TypedIndex DEF ProcessFails, Move, At, UnderWay, Active, world, disk, Present
<1>2. moves' \in 0..MaxMoves
  <2>1. moves \in 0..MaxMoves /\ MaxMoves \in Nat
    BY TypedIndex, IndexAssumption
  <2> QED BY <1>1, <2>1
<1>3. /\ row' \in [Files -> [branch : Branches, ver : 1..MaxVersion] \cup {NoRow}]
      /\ chunks' \in [Files -> [1..MaxVersion -> Branches \cup {"none"}]]
      /\ \A g \in Files \ {f} : row'[g] = row[g] /\ chunks'[g] = chunks[g]
  <2>1. CASE row' = row /\ chunks' = chunks
    BY <2>1, TypedIndex
  <2>2. CASE /\ work[r][f].st = "read"
             /\ \E left \in Partly(f, work[r][f].ver) :
                  row' = [row EXCEPT ![f] = left[1]] /\ chunks' = [chunks EXCEPT ![f] = left[2]]
    <3> DEFINE Row == [branch : Branches, ver : 1..MaxVersion] \cup {NoRow}
               Chunk == [1..MaxVersion -> Branches \cup {"none"}]
    <3> PICK v \in 0..MaxVersion : v = work[r][f].ver
      BY TypedIndex DEF Processing
    <3>1. v \in 1..MaxVersion
      BY <2>2, TypedIndex, IndexAssumption
    <3>2. row[f] \in Row /\ NoRow \in Row /\ [branch |-> current, ver |-> v] \in Row
      BY <3>1, TypedIndex
    <3> PICK c \in Chunk : c = chunks[f]
      BY TypedIndex
    <3>3. WithoutChunks(f, current) = [u \in 1..MaxVersion |-> IF c[u] = current THEN "none" ELSE c[u]]
      BY DEF WithoutChunks
    <3>4. WithoutChunks(f, current) \in Chunk
      BY <3>3
    <3> PICK d \in Chunk : d = WithoutChunks(f, current)
      BY <3>4
    <3>5. [d EXCEPT ![v] = current] \in Chunk
      BY <3>1, TypedIndex
    <3> PICK e \in Chunk : e = [d EXCEPT ![v] = current]
      BY <3>5
    <3> PICK gone \in Row : gone = IF row[f].branch = current THEN NoRow ELSE row[f]
      BY <3>2
    <3> PICK new \in Row : new = [branch |-> current, ver |-> v]
      BY <3>2
    <3>6. Partly(f, work[r][f].ver) = {<<row[f], c>>, <<gone, c>>, <<gone, d>>, <<new, d>>, <<new, e>>}
      BY DEF Partly
    <3>7. \E p \in Row, q \in Chunk : row' = [row EXCEPT ![f] = p] /\ chunks' = [chunks EXCEPT ![f] = q]
      <4> HIDE DEF Row, Chunk
      <4> PICK mine \in Row : mine = row[f]
        BY <3>2
      <4> PICK left \in Partly(f, work[r][f].ver) :
            row' = [row EXCEPT ![f] = left[1]] /\ chunks' = [chunks EXCEPT ![f] = left[2]]
        BY <2>2
      <4>1. left \in {<<mine, c>>, <<gone, c>>, <<gone, d>>, <<new, d>>, <<new, e>>}
        BY <3>6
      <4>2. left[1] \in Row /\ left[2] \in Chunk
        <5> \E a \in Row, b \in Chunk : left = <<a, b>>
          BY ONLY <4>1, mine \in Row, gone \in Row, new \in Row, c \in Chunk, d \in Chunk, e \in Chunk
        <5> QED OBVIOUS
      <4> QED BY <4>2
    <3> QED BY <3>7, TypedIndex
  <2> QED BY <2>1, <2>2 DEF ProcessFails
<1>4. /\ cache' \in [Files -> 0..MaxVersion] /\ (cache'[f] = cache[f] \/ cache'[f] = 0)
      /\ \A g \in Files \ {f} : cache'[g] = cache[g]
      /\ dirty' = dirty \/ dirty' = TRUE
  <2>1. CASE UNCHANGED <<cache, dirty>>
    BY <2>1, TypedIndex
  <2>2. CASE cache' = [cache EXCEPT ![f] = 0] /\ dirty' = TRUE
    <3>1. 0 \in 0..MaxVersion
      BY IndexAssumption
    <3> QED BY <2>2, <3>1, TypedIndex
  <2> QED BY <2>1, <2>2 DEF ProcessFails
<1> PICK z \in Processing : z.st = "done" /\ work' = [work EXCEPT ![r][f] = z]
  <2>1. 0 \in 0..MaxVersion
    BY IndexAssumption
  <2>2. [Untouched EXCEPT !.st = "done"] \in Processing /\ [Untouched EXCEPT !.st = "done"].st = "done"
    BY <2>1 DEF Untouched, Processing
  <2> QED BY <2>2 DEF ProcessFails
<1>5. /\ work' \in [Runs -> [Files -> Processing]] /\ work'[r][f] = z
      /\ \A q \in Runs \ {r} : work'[q] = work[q]
      /\ \A g \in Files \ {f} : work'[r][g] = work[r][g]
  BY TypedIndex, FileBecomes
<1> PICK x \in Progress :
      /\ act' = [act EXCEPT ![r] = x] /\ x.pc = "process" /\ x.kind = act[r].kind /\ x.clean = act[r].clean
      /\ x.todo = act[r].todo /\ x.snap = act[r].snap /\ x.listed = act[r].listed
      /\ x.failed = act[r].failed \cup {f}
  <2> PICK y \in Progress : y = act[r]
    BY TypedIndex
  <2>1. [y EXCEPT !.failed = @ \cup {f}] \in Progress
    BY DEF Progress
  <2>2. act' = [act EXCEPT ![r] = [y EXCEPT !.failed = @ \cup {f}]]
    BY DEF ProcessFails
  <2> QED BY <1>1, <2>1, <2>2 DEF Progress
<1>6. act' \in [Runs -> Progress] /\ act'[r] = x /\ \A q \in Runs \ {r} : act'[q] = act[q]
  BY TypedIndex, RunBecomes
<1>7. /\ Active' = Active
      /\ \A q \in Runs : /\ act'[q].pc = act[q].pc /\ act'[q].kind = act[q].kind /\ act'[q].clean = act[q].clean
                        /\ act'[q].todo = act[q].todo /\ act'[q].snap = act[q].snap /\ act'[q].listed = act[q].listed
  BY <1>1, <1>6 DEF Active, At
<1>8. IndexTyped'
  <2>1. \A q \in Runs, g \in Files : work'[q][g].st = "read" => work'[q][g].ver # 0
    <3> SUFFICES ASSUME NEW q \in Runs, NEW g \in Files, work'[q][g].st = "read" PROVE work'[q][g].ver # 0
      OBVIOUS
    <3>1. work'[q][g] = work[q][g]
      BY <1>5
    <3>2. work[q][g].st = "read" => work[q][g].ver # 0
      BY DEF IndexTyped
    <3> QED BY <3>1, <3>2
  <2>2. dirty' \in BOOLEAN
    BY <1>4, TypedIndex
  <2> QED BY <1>1, <1>2, <1>3, <1>4, <1>5, <1>6, <2>1, <2>2, TypedIndex, IndexIsTyped
<1>9. NoneNewer'
  <2>1. 0 <= newest
    BY TypedIndex, IndexAssumption
  <2> QED BY <1>1, <1>4, <1>7, <2>1 DEF IndexInvariant, NoneNewer
<1>10. Scheduled'
  <2>1. \A q \in Runs : ~At(q, "process")' => act'[q].todo = {} /\ \A g \in Files : work'[q][g].st = "none"
    BY <1>1, <1>5, <1>6, <1>7 DEF Scheduled, At
  <2>2. \A q \in Runs : act'[q].pc \in {"idle", "compare"} => act'[q].kind = "refresh"
    BY <1>7 DEF Scheduled
  <2>3. \A q \in Active : q \in Runs
    BY DEF Active
  <2>4. /\ \A q \in Runs : act'[q].clean => Active' = {q} /\ current' = head'
        /\ "switch" \notin seen' => current' = head'
        /\ "overlap" \notin seen' => \A p, q \in Active' : p = q
        /\ "rebuildOverlap" \notin seen' => \A p, q \in Active' : act'[p].kind = "rebuild" => p = q
    BY <1>1, <1>7, <2>3 DEF Scheduled
  <2>5. \A q \in Runs : act'[q].kind = "rebuild" /\ act'[q].pc \in {"collect", "process", "save"} =>
          dirty' \/ (~act'[q].clean /\ "rebuildOverlap" \in seen')
    BY <1>1, <1>4, <1>7 DEF Scheduled
  <2>6. \A q \in Runs : act'[q].pc \in {"idle", "collect", "compare"} => act'[q].failed = {}
    BY <1>1, <1>6 DEF Scheduled
  <2> QED BY <1>1, <2>1, <2>2, <2>4, <2>5, <2>6 DEF Scheduled
<1>11. /\ \A q \in Runs : Healing(q)' <=> Healing(q)
       /\ ~Disordered' => ~Disordered /\ "overlap" \notin seen /\ "restored" \notin seen
       /\ Exact' => \E q \in Runs : Healing(q)
       /\ Sound' => Sound
  <2>1. \A q \in Runs : Healing(q)' <=> Healing(q)
    BY <1>7 DEF Healing
  <2>2. ~Disordered' => ~Disordered /\ "overlap" \notin seen /\ "restored" \notin seen
    BY <1>1 DEF Disordered
  <2> QED BY <1>1, <2>1, <2>2 DEF Exact, Sound
(* Whoever is sure of the index is sure that this run is alone.            *)
<1>12. ASSUME Sound' PROVE /\ \A q \in Runs \ {r} : act[q].pc = "idle" /\ \A g \in Files : work[q][g].st = "none"
                           /\ NotKnown(f)
  <2>1. CASE \E q \in Runs : Healing(q)
    <3>1. Healing(r) /\ Active = {r}
      BY <1>1, <2>1 DEF Healing, Scheduled
    <3>2. \A q \in Runs \ {r} : act[q].pc = "idle"
      BY <3>1 DEF Active, At
    <3>3. InHand(r, f)
      BY <1>1, <3>1 DEF IndexInvariant, CleanRuns, CleanRun, Healing, At
    <3>4. cache[f] = 0
      BY <1>1, <3>1, <3>3 DEF InHand, Owed, Healing
    <3> QED BY <3>2, <3>4 DEF Scheduled, At, NotKnown
  <2>2. CASE ~Disordered'
    <3>1. \A q \in Runs \ {r} : act[q].pc = "idle"
      BY <1>1, <1>11, <2>2 DEF Scheduled, Active, At
    <3>2. Due(f)
      BY <1>11, <2>2 DEF IndexInvariant, DueTrue
    <3> QED BY <1>1, <3>1, <3>2 DEF Scheduled, At, Due
  <2> QED BY <1>11, <1>12, <2>1, <2>2 DEF Sound
<1>13. /\ \A g \in Files \ {f} : \A u : IsRow(g, u)' <=> IsRow(g, u)
       /\ \A g \in Files : \A u : (Pending(g, u)' <=> Pending(g, u)) /\ (Kept(g, u)' <=> Kept(g, u))
       /\ Rebuilding' <=> Rebuilding
  BY <1>1, <1>3, <1>7 DEF IsRow, Pending, Kept, Rebuilding
<1>14. ProcessedTrue'
  <2> SUFFICES ASSUME Sound', NEW q \in Runs, NEW g \in Files
               PROVE  /\ work'[q][g].st = "read" => work'[q][g].ver = disk[g]
                      /\ Stored(q, g)' => disk[g] # 0 /\ IsRow(g, disk[g])' /\ (Kept(g, disk[g])' \/ <<g, disk[g]>> \in act'[q].todo)
    BY <1>1 DEF ProcessedTrue, IsRow, Kept
  <2>1. CASE q # r \/ g = f
    <3>1. work'[q][g].st \in {"none", "done"}
      <4>1. CASE q # r
        BY <1>5, <1>12, <4>1
      <4>2. CASE q = r /\ g = f
        BY <1>5, <4>2
      <4> QED BY <2>1, <4>1, <4>2
    <3>2. work'[q][g].st # "read" /\ work'[q][g].st # "stored"
      BY <3>1
    <3>3. ~Stored(q, g)'
      BY <3>2 DEF Stored
    <3> QED BY <3>2, <3>3
  <2>2. CASE q = r /\ g # f
    <3>1. work'[q][g] = work[q][g]
      BY <1>5, <2>2
    <3>2. /\ work[q][g].st = "read" => work[q][g].ver = disk[g]
          /\ Stored(q, g) => disk[g] # 0 /\ IsRow(g, disk[g]) /\ (Kept(g, disk[g]) \/ <<g, disk[g]>> \in act[q].todo)
      BY <1>11 DEF IndexInvariant, ProcessedTrue
    <3>3. Stored(q, g)' => Stored(q, g)
      BY <3>1 DEF Stored
    <3> PICK u : u = disk[g]
      OBVIOUS
    <3>4. /\ IsRow(g, u)' <=> IsRow(g, u)
          /\ Kept(g, u)' <=> Kept(g, u)
          /\ act'[q].todo = act[q].todo
      BY <1>7, <1>13, <2>2
    <3>5. IsRow(g, disk[g])' <=> IsRow(g, u)'
      BY <1>1 DEF IsRow
    <3>6. Kept(g, disk[g])' <=> Kept(g, u)'
      BY <1>1 DEF Kept
    <3> QED BY <3>1, <3>2, <3>3, <3>4, <3>5, <3>6
  <2> QED BY <2>1, <2>2
<1>15. CacheTrue'
  <2> SUFFICES ASSUME Sound', NEW g \in Files, cache'[g] # 0, cache'[g] = disk[g]
               PROVE  IsRow(g, disk[g])' /\ ("overlap" \in seen \/ Kept(g, disk[g])' \/ Pending(g, disk[g])')
    BY <1>1 DEF CacheTrue, IsRow, Kept, Pending
  <2>1. g # f
    BY <1>4, <1>12 DEF NotKnown
  <2>2. IsRow(g, disk[g]) /\ ("overlap" \in seen \/ Kept(g, disk[g]) \/ Pending(g, disk[g]))
    BY <1>4, <1>11, <2>1 DEF IndexInvariant, CacheTrue
  <2> PICK u : u = disk[g]
    OBVIOUS
  <2>3. IsRow(g, u)' /\ ("overlap" \in seen \/ Kept(g, u)' \/ Pending(g, u)')
    BY <1>13, <2>1, <2>2
  <2> QED BY <1>1, <2>3
<1>16. CacheExact'
  <2> SUFFICES ASSUME Exact', NEW g \in Files
               PROVE  /\ \/ Unsettled(g)'
                         \/ (cache[g] = 0 /\ row[g].branch # current)'
                         \/ (cache[g] # 0 /\ IsRow(g, cache[g]))'
                      /\ (cache[g] # 0 => Kept(g, cache[g]) \/ Pending(g, cache[g]))'
    BY DEF CacheExact
  <2>1. /\ \/ Unsettled(g)
           \/ cache[g] = 0 /\ row[g].branch # current
           \/ cache[g] # 0 /\ IsRow(g, cache[g])
        /\ cache[g] # 0 => Kept(g, cache[g]) \/ Pending(g, cache[g])
    BY <1>11 DEF IndexInvariant, CacheExact, Exact
  <2>2. (cache[g] # 0 => Kept(g, cache[g]) \/ Pending(g, cache[g]))'
    BY <1>1, <1>4, <1>7, <2>1 DEF Kept, Pending
  <2>3. CASE g = f
    <3>1. f \in act'[r].failed
      BY <1>6
    <3> QED BY <2>2, <2>3, <3>1 DEF Unsettled
  <2>4. CASE g # f
    <3>1. Unsettled(g) => Unsettled(g)'
      BY <1>5, <1>6, <2>4 DEF Unsettled, Stored
    <3>2. cache[g] # 0 /\ IsRow(g, cache[g]) => (cache[g] # 0 /\ IsRow(g, cache[g]))'
      BY <1>1, <1>3, <1>4, <2>4 DEF IsRow
    <3> QED BY <1>1, <1>3, <1>4, <2>1, <2>2, <2>4, <3>1, <3>2
  <2> QED BY <2>3, <2>4
<1>17. SavedTrue'
  <2> SUFFICES ASSUME ~Disordered', NEW g \in Files
               PROVE  /\ saved[g] # 0 /\ saved[g] = disk[g] => Rebuilding' \/ Sure(g)'
                      /\ \A q \in Runs : At(q, "saving")' /\ act'[q].snap[g] # 0 /\ act'[q].snap[g] = disk[g] => Sure(g)'
    BY <1>1 DEF SavedTrue
  <2>1. Sound'
    BY DEF Sound
  <2>2. \A q \in Runs : ~At(q, "saving")'
    BY <1>1, <1>7, <1>12, <2>1 DEF At
  <2>3. ASSUME saved[g] # 0, saved[g] = disk[g] PROVE Rebuilding' \/ Sure(g)'
    <3>1. Rebuilding \/ cache[g] = disk[g]
      BY <1>11, <2>3 DEF IndexInvariant, DueTrue, Due
    <3>2. CASE g = f
      BY <1>12, <1>13, <2>1, <2>3, <3>1, <3>2 DEF NotKnown
    <3>3. CASE g # f
      <4>1. Rebuilding \/ Sure(g)
        BY <1>11, <2>3 DEF IndexInvariant, SavedTrue
      <4>2. Sure(g) => Sure(g)'
        BY <1>1, <1>3, <3>3 DEF Sure, IsRow, Kept
      <4> QED BY <1>13, <4>1, <4>2
    <3> QED BY <3>2, <3>3
  <2> QED BY <2>2, <2>3
<1>18. DueTrue'
  <2> SUFFICES ASSUME "overlap" \notin seen PROVE DueTrue'
    BY <1>1 DEF DueTrue
  <2>1. /\ \A q \in Runs : ~At(q, "collect")' /\ ~At(q, "saving")'
    BY <1>1, <1>7 DEF Scheduled, Active, At
  <2>2. ASSUME ~Disordered', NEW g \in Files PROVE Due(g)'
    <3>1. Due(g)
      BY <1>11, <2>2 DEF IndexInvariant, DueTrue
    <3>2. \A q \in Runs : UnderWay(q, g)' => UnderWay(q, g) /\ (q # r \/ g # f)
      BY <1>5 DEF UnderWay
    <3>3. NotKnown(g) => NotKnown(g)'
      BY <1>1, <1>4 DEF NotKnown
    <3>4. g # f => cache'[g] = cache[g]
      BY <1>4
    <3>5. g = f /\ saved[g] # 0 /\ saved[g] = disk[g] => Rebuilding'
      BY <1>1, <1>13, <3>1 DEF Due, NotKnown
    <3> QED BY <1>1, <1>13, <3>1, <3>2, <3>3, <3>4, <3>5 DEF Due
  <2> QED BY <2>1, <2>2 DEF DueTrue
<1>19. ListedTrue'
  <2> SUFFICES ASSUME ~Disordered', NEW q \in Runs, At(q, "compare")' PROVE FALSE
    BY DEF ListedTrue
  <2> QED BY <1>1, <1>7, <1>12 DEF Sound, At
<1>20. CleanRuns'
  <2> SUFFICES ASSUME NEW q \in Runs, act'[q].clean /\ (act'[q].kind = "rebuild" \/ ~Disordered') PROVE CleanRun(q)'
    BY DEF CleanRuns
  <2>1. q = r /\ CleanRun(r)
    BY <1>1, <1>7, <1>11 DEF IndexInvariant, Scheduled, CleanRuns
  <2>2. ASSUME NEW g \in Files PROVE InHand(r, g)'
    <3>1. InHand(r, g)
      BY <1>1, <2>1 DEF CleanRun, At
    <3>2. CASE g = f
      <4>1. Owed(r, f)
        BY <1>1, <3>1, <3>2 DEF InHand
      <4>2. Owed(r, f)' /\ ~UnderWay(r, f)' /\ f \in act'[r].failed
        BY <1>1, <1>4, <1>5, <1>6, <4>1 DEF Owed, UnderWay
      <4> QED BY <3>2, <4>2 DEF InHand
    <3>3. CASE g # f
      BY <1>1, <1>4, <1>5, <1>6, <3>1, <3>3 DEF InHand, Known, Owed, UnderWay
    <3> QED BY <3>2, <3>3
  <2> QED BY <1>1, <1>7, <2>1, <2>2 DEF CleanRun, At
<1> QED BY <1>8, <1>9, <1>10, <1>14, <1>15, <1>16, <1>17, <1>18, <1>19, <1>20 DEF IndexInvariant

LEMMA EmbedKeeps ==
  ASSUME IndexInvariant, NEW r \in Runs, Embed(r)
  PROVE  IndexInvariant'
<1> IndexTyped /\ Scheduled
  BY DEF IndexInvariant
<1>1. /\ act[r].pc = "process" /\ \A g \in Files : work[r][g].st \in {"none", "done"}
      /\ UNCHANGED <<trees, head, newest, current, row, chunks, cache, dirty, saved, moves, seen>>
      /\ act' = [act EXCEPT ![r].todo = {}, ![r].pc = "save"]
      /\ work' = [work EXCEPT ![r] = [f \in Files |-> Untouched]]
  BY DEF Embed, Processed, At, world, hashes
<1> PICK failed \in SUBSET act[r].todo :
      /\ vectors' = vectors \cup (act[r].todo \ failed)
      /\ unembedded' = unembedded \cup failed
  BY DEF Embed
<1> PICK x \in Progress :
      /\ act' = [act EXCEPT ![r] = x] /\ x.pc = "save" /\ x.kind = act[r].kind /\ x.clean = act[r].clean
      /\ x.snap = act[r].snap /\ x.todo = {} /\ x.failed = act[r].failed
  <2> PICK y \in Progress : y = act[r]
    BY TypedIndex
  <2>1. [y EXCEPT !.todo = {}, !.pc = "save"] \in Progress
    BY DEF Progress
  <2>2. act' = [act EXCEPT ![r] = [y EXCEPT !.todo = {}, !.pc = "save"]]
    BY <1>1, TypedIndex
  <2> QED BY <2>1, <2>2 DEF Progress
<1>2. act' \in [Runs -> Progress] /\ act'[r] = x /\ \A q \in Runs \ {r} : act'[q] = act[q]
  BY TypedIndex, RunBecomes
<1> PICK w \in [Files -> Processing] : work' = [work EXCEPT ![r] = w] /\ \A g \in Files : w[g].st = "none"
  <2>1. Untouched \in Processing /\ Untouched.st = "none"
    BY IndexAssumption DEF Untouched, Processing
  <2>2. [f \in Files |-> Untouched] \in [Files -> Processing]
    BY <2>1
  <2> PICK w \in [Files -> Processing] : w = [f \in Files |-> Untouched]
    BY <2>2
  <2>3. \A g \in Files : w[g].st = "none"
    BY <2>1
  <2>4. work' = [work EXCEPT ![r] = w]
    BY <1>1
  <2> QED BY <2>3, <2>4
<1>3. /\ work' \in [Runs -> [Files -> Processing]] /\ work'[r] = w
      /\ \A q \in Runs \ {r} : work'[q] = work[q]
  BY TypedIndex, WorkBecomes
<1>4. Running(r)
  BY <1>1, <1>2, <1>3 DEF Running, Active, At
<1> /\ disk' = disk /\ Present' = Present
    /\ Disordered' <=> Disordered
    /\ Sound' <=> Sound
    /\ Exact' <=> Exact
  BY <1>4, RunningFacts
<1>5. IndexTyped'
  <2>1. \A q \in Runs, g \in Files : work'[q][g].st = "read" => work'[q][g].ver # 0
    <3> SUFFICES ASSUME NEW q \in Runs, NEW g \in Files, work'[q][g].st = "read" PROVE work'[q][g].ver # 0
      OBVIOUS
    <3>1. work'[q][g] = work[q][g]
      BY <1>3
    <3>2. work[q][g].st = "read" => work[q][g].ver # 0
      BY DEF IndexTyped
    <3> QED BY <3>1, <3>2
  <2>2. vectors' \subseteq Versions /\ unembedded' \subseteq Versions
    BY TypedIndex DEF Progress
  <2> QED BY <1>1, <1>2, <1>3, <2>1, <2>2, TypedIndex, IndexIsTyped
<1>6. Scheduled'
  BY <1>1, <1>2, <1>3, <1>4, RunningScheduled DEF At
<1>7. \A q \in Runs, g \in Files :
        /\ work'[q][g].st = "read" => work[q][g] = work'[q][g]
        /\ Stored(q, g)' <=> Stored(q, g)
        /\ Stored(q, g) => q # r
  BY <1>1, <1>3 DEF Stored
<1>8. \A q \in Runs : act'[q].snap = act[q].snap /\ (At(q, "saving")' <=> At(q, "saving"))
  BY <1>1, <1>2 DEF At
<1>9. /\ \A g \in Files : \A u : IsRow(g, u)' <=> IsRow(g, u)
      /\ \A g \in Files : \A u : Kept(g, u) => Kept(g, u)'
      /\ \A g \in Files : \A u : Pending(g, u) => Pending(g, u)' \/ Kept(g, u)'
      /\ Rebuilding' <=> Rebuilding
  <2>1. \A g \in Files : \A u : Pending(g, u) => Pending(g, u)' \/ Kept(g, u)'
    <3> SUFFICES ASSUME NEW g \in Files, NEW u, NEW q \in Runs, <<g, u>> \in act[q].todo
                 PROVE  Pending(g, u)' \/ Kept(g, u)'
      BY DEF Pending
    <3>1. CASE q = r
      BY <3>1 DEF Kept
    <3>2. CASE q # r
      BY <1>2, <3>2 DEF Pending
    <3> QED BY <3>1, <3>2
  <2> QED BY <1>1, <1>2, <2>1 DEF IsRow, Kept, Rebuilding
<1>10. NoneNewer'
  BY <1>1, <1>8 DEF IndexInvariant, NoneNewer
<1>11. ProcessedTrue'
  <2> SUFFICES ASSUME Sound, NEW q \in Runs, NEW g \in Files
               PROVE  /\ work'[q][g].st = "read" => work'[q][g].ver = disk[g]
                      /\ Stored(q, g)' => disk[g] # 0 /\ IsRow(g, disk[g])' /\ (Kept(g, disk[g])' \/ <<g, disk[g]>> \in act'[q].todo)
    BY <1>1 DEF ProcessedTrue, IsRow, Kept
  <2>1. ASSUME work'[q][g].st = "read" PROVE work'[q][g].ver = disk[g]
    <3>1. work[q][g] = work'[q][g]
      BY <1>7, <2>1
    <3>2. work[q][g].st = "read" => work[q][g].ver = disk[g]
      BY DEF IndexInvariant, ProcessedTrue
    <3> QED BY <2>1, <3>1, <3>2
  <2>2. Stored(q, g) => disk[g] # 0 /\ IsRow(g, disk[g]) /\ (Kept(g, disk[g]) \/ <<g, disk[g]>> \in act[q].todo)
    BY DEF IndexInvariant, ProcessedTrue
  <2>3. Stored(q, g) => act'[q] = act[q]
    BY <1>2, <1>7
  <2> QED BY <1>7, <1>9, <2>1, <2>2, <2>3
<1>12. CacheTrue'
  <2> SUFFICES ASSUME Sound, NEW g \in Files, cache[g] # 0, cache[g] = disk[g]
               PROVE  IsRow(g, disk[g])' /\ ("overlap" \in seen \/ Kept(g, disk[g])' \/ Pending(g, disk[g])')
    BY <1>1 DEF CacheTrue, IsRow, Kept, Pending
  <2>1. IsRow(g, disk[g]) /\ ("overlap" \in seen \/ Kept(g, disk[g]) \/ Pending(g, disk[g]))
    BY DEF IndexInvariant, CacheTrue
  <2> QED BY <1>9, <2>1
<1>13. CacheExact'
  <2> SUFFICES ASSUME Exact, NEW g \in Files
               PROVE  /\ \/ Unsettled(g)'
                         \/ (cache[g] = 0 /\ row[g].branch # current)'
                         \/ (cache[g] # 0 /\ IsRow(g, cache[g]))'
                      /\ (cache[g] # 0 => Kept(g, cache[g]) \/ Pending(g, cache[g]))'
    BY DEF CacheExact
  <2>1. /\ \/ Unsettled(g)
           \/ cache[g] = 0 /\ row[g].branch # current
           \/ cache[g] # 0 /\ IsRow(g, cache[g])
        /\ cache[g] # 0 => Kept(g, cache[g]) \/ Pending(g, cache[g])
    BY DEF IndexInvariant, CacheExact
  <2> PICK u : u = cache[g] /\ u = cache'[g]
    BY <1>1
  <2>2. /\ cache[g] # 0 => Kept(g, u)' \/ Pending(g, u)'
        /\ IsRow(g, cache[g]) => IsRow(g, u)'
    BY <1>9, <2>1
  <2>3. (cache[g] # 0 => Kept(g, cache[g]) \/ Pending(g, cache[g]))'
    BY <1>1, <2>2 DEF Kept, Pending
  <2>4. (cache[g] # 0 /\ IsRow(g, cache[g])) => (cache[g] # 0 /\ IsRow(g, cache[g]))'
    BY <1>1, <2>2 DEF IsRow
  <2>5. Unsettled(g) => Unsettled(g)'
    BY <1>2, <1>7 DEF Unsettled
  <2> QED BY <1>1, <2>1, <2>3, <2>4, <2>5
<1>14. SavedTrue'
  <2> SUFFICES ASSUME ~Disordered, "restored" \notin seen, NEW g \in Files
               PROVE  /\ saved[g] # 0 /\ saved[g] = disk[g] => Rebuilding' \/ Sure(g)'
                      /\ \A q \in Runs : At(q, "saving") /\ act[q].snap[g] # 0 /\ act[q].snap[g] = disk[g] => Sure(g)'
    BY <1>1, <1>8 DEF SavedTrue
  <2>1. Sure(g) => Sure(g)'
    BY <1>1, <1>9 DEF Sure
  <2> QED BY <1>9, <2>1 DEF IndexInvariant, SavedTrue
<1>15. ListedTrue'
  BY <1>1, <1>2 DEF IndexInvariant, ListedTrue, At
<1>16. CleanRuns'
  <2> SUFFICES ASSUME NEW q \in Runs, act'[q].clean /\ (act'[q].kind = "rebuild" \/ ~Disordered') PROVE CleanRun(q)'
    BY DEF CleanRuns
  <2>1. q = r /\ CleanRun(r)
    BY <1>4 DEF IndexInvariant, Scheduled, CleanRuns, Running
  <2>2. ASSUME NEW g \in Files PROVE Settled(r, g)'
    <3>1. InHand(r, g) /\ ~UnderWay(r, g)
      BY <1>1, <2>1 DEF CleanRun, At, UnderWay
    <3> QED BY <1>1, <1>2, <3>1 DEF InHand, Settled, Known, Owed
  <2> QED BY <1>1, <1>2, <2>1, <2>2 DEF CleanRun, At
<1>17. DueTrue'
  <2>1. \A g \in Files : ~UnderWay(r, g)'
    BY <1>3 DEF UnderWay
  <2> QED BY <1>1, <1>2, <1>4, <1>9, <2>1, RunningSame DEF At
<1> QED BY <1>5, <1>6, <1>10, <1>11, <1>12, <1>13, <1>14, <1>15, <1>16, <1>17 DEF IndexInvariant

LEMMA SaveBeginsKeeps ==
  ASSUME IndexInvariant, NEW r \in Runs, SaveBegins(r)
  PROVE  IndexInvariant'
<1> IndexTyped /\ Scheduled
  BY DEF IndexInvariant
<1>1. /\ act[r].pc = "save"
      /\ UNCHANGED <<trees, head, newest, current, row, chunks, vectors, cache, dirty, saved, work, moves, unembedded, seen>>
  BY DEF SaveBegins, At, world, tables, hashes, ghosts
<1>2. act[r].todo = {} /\ \A g \in Files : work[r][g].st = "none"
  BY <1>1 DEF Scheduled, At
<1> PICK x \in Progress :
      /\ act' = [act EXCEPT ![r] = x] /\ x.kind = act[r].kind /\ x.clean = act[r].clean /\ x.todo = act[r].todo
      /\ x.failed = act[r].failed
      /\ \/ dirty /\ x.pc = "saving" /\ x.snap = cache
         \/ ~dirty /\ x.pc = "returned" /\ x.snap = act[r].snap
  <2> PICK y \in Progress : y = act[r]
    BY TypedIndex
  <2> PICK c \in [Files -> 0..MaxVersion] : c = cache
    BY TypedIndex
  <2>1. CASE dirty
    <3>1. act' = [act EXCEPT ![r] = [y EXCEPT !.snap = c, !.pc = "saving"]]
      BY <2>1, TypedIndex DEF SaveBegins
    <3>2. [y EXCEPT !.snap = c, !.pc = "saving"] \in Progress
      BY DEF Progress
    <3> QED BY <2>1, <3>1, <3>2 DEF Progress
  <2>2. CASE ~dirty
    <3>1. act' = [act EXCEPT ![r] = [y EXCEPT !.pc = "returned"]]
      BY <2>2 DEF SaveBegins
    <3>2. [y EXCEPT !.pc = "returned"] \in Progress
      BY DEF Progress
    <3> QED BY <2>2, <3>1, <3>2 DEF Progress
  <2> QED BY <2>1, <2>2
<1>3. act' \in [Runs -> Progress] /\ act'[r] = x /\ \A q \in Runs \ {r} : act'[q] = act[q]
  BY TypedIndex, RunBecomes
<1>4. Running(r)
  BY <1>1, <1>3 DEF Running, Active, At
<1> /\ disk' = disk /\ Present' = Present
    /\ Disordered' <=> Disordered
    /\ Sound' <=> Sound
    /\ Exact' <=> Exact
  BY <1>4, RunningFacts
<1>5. IndexTyped'
  BY <1>1, <1>3, TypedIndex, IndexIsTyped
<1>6. Scheduled'
  BY <1>1, <1>2, <1>3, <1>4, RunningScheduled DEF At
<1>7. \A q \in Runs : act'[q].todo = act[q].todo
  BY <1>3
<1>8. /\ \A g \in Files : \A u : (IsRow(g, u)' <=> IsRow(g, u)) /\ (Pending(g, u)' <=> Pending(g, u)) /\ (Kept(g, u)' <=> Kept(g, u))
      /\ \A g \in Files : Sure(g)' <=> Sure(g)
      /\ \A q \in Runs, g \in Files : Stored(q, g)' <=> Stored(q, g)
  BY <1>1, <1>7 DEF IsRow, Pending, Kept, Sure, Stored
<1>9. ~Disordered => (Rebuilding' <=> Rebuilding)
  <2>1. ASSUME ~Disordered, act[r].kind = "rebuild" PROVE dirty
    BY <1>1, <2>1 DEF Scheduled, Disordered, Upset
  <2>2. ASSUME ~Disordered PROVE Rebuilding' <=> Rebuilding
    BY <1>1, <1>3, <2>1, <2>2 DEF Rebuilding
  <2> QED BY <2>2
<1>10. NoneNewer'
  <2>1. \A q \in Runs, g \in Files : act'[q].snap[g] <= newest
    BY <1>3 DEF IndexInvariant, NoneNewer
  <2> QED BY <1>1, <2>1 DEF IndexInvariant, NoneNewer
<1>11. ProcessedTrue'
  BY <1>1, <1>7 DEF IndexInvariant, ProcessedTrue, IsRow, Kept, Stored
<1>12. CacheTrue' /\ CacheExact'
  <2>1. \A g \in Files : Unsettled(g)' <=> Unsettled(g)
    BY <1>3, <1>8 DEF Unsettled
  <2> QED BY <1>1, <1>7, <2>1 DEF IndexInvariant, CacheTrue, CacheExact, IsRow, Kept, Pending
<1>13. SavedTrue'
  <2> SUFFICES ASSUME ~Disordered, "restored" \notin seen, NEW g \in Files
               PROVE  /\ saved[g] # 0 /\ saved[g] = disk[g] => Rebuilding' \/ Sure(g)'
                      /\ \A q \in Runs : At(q, "saving")' /\ act'[q].snap[g] # 0 /\ act'[q].snap[g] = disk[g] => Sure(g)'
    BY <1>1 DEF SavedTrue
  <2>1. saved[g] # 0 /\ saved[g] = disk[g] => Rebuilding' \/ Sure(g)'
    BY <1>8, <1>9 DEF IndexInvariant, SavedTrue
  <2>2. ASSUME NEW q \in Runs, At(q, "saving")', act'[q].snap[g] # 0, act'[q].snap[g] = disk[g] PROVE Sure(g)
    <3>1. CASE q # r
      BY <1>3, <2>2, <3>1 DEF IndexInvariant, SavedTrue, At
    <3>2. CASE q = r
      <4>1. cache[g] # 0 /\ cache[g] = disk[g]
        BY <1>3, <2>2, <3>2 DEF At
      <4>2. IsRow(g, disk[g]) /\ ("overlap" \in seen \/ Kept(g, disk[g]) \/ Pending(g, disk[g]))
        BY <4>1 DEF IndexInvariant, CacheTrue, Sound
      <4>3. Pending(g, disk[g]) => "overlap" \in seen
        <5> SUFFICES ASSUME NEW p \in Runs, <<g, disk[g]>> \in act[p].todo PROVE "overlap" \in seen
          BY DEF Pending
        <5>1. p # r /\ p \in Active /\ r \in Active
          BY <1>1, <1>2 DEF At, Active, Scheduled
        <5> QED BY <5>1, TogetherFacts
      <4> QED BY <4>2, <4>3 DEF Sure
    <3> QED BY <3>1, <3>2
  <2> QED BY <1>8, <2>1, <2>2
<1>14. ListedTrue'
  BY <1>1, <1>3 DEF IndexInvariant, ListedTrue, At
<1>15. CleanRuns'
  <2> SUFFICES ASSUME NEW q \in Runs, act'[q].clean /\ (act'[q].kind = "rebuild" \/ ~Disordered') PROVE CleanRun(q)'
    BY DEF CleanRuns
  <2>1. q = r /\ CleanRun(r) /\ act[r].clean
    BY <1>4 DEF IndexInvariant, Scheduled, CleanRuns, Running
  <2>2. \A g \in Files : Settled(r, g)'
    BY <1>1, <1>3, <2>1 DEF CleanRun, At, Settled, Known, Owed
  <2>3. act[r].kind = "rebuild" => dirty
    BY <1>1, <2>1 DEF Scheduled
  <2> QED BY <1>1, <1>3, <2>1, <2>2, <2>3 DEF CleanRun, At
<1>16. DueTrue'
  <2>1. \A g \in Files : UnderWay(r, g)' => UnderWay(r, g)
    BY <1>1 DEF UnderWay
  <2>2. ~At(r, "collect")' /\ (At(r, "saving")' => act'[r].snap = cache)
    BY <1>3 DEF At
  <2> QED BY <1>1, <1>4, <1>9, <2>1, <2>2, RunningSame
<1> QED BY <1>5, <1>6, <1>10, <1>11, <1>12, <1>13, <1>14, <1>15, <1>16 DEF IndexInvariant

LEMMA SaveEndsKeeps ==
  ASSUME IndexInvariant, NEW r \in Runs, SaveEnds(r)
  PROVE  IndexInvariant'
<1> IndexTyped /\ Scheduled
  BY DEF IndexInvariant
<1>1. /\ act[r].pc = "saving" /\ saved' = act[r].snap /\ dirty' = FALSE
      /\ UNCHANGED <<trees, head, newest, current, row, chunks, vectors, cache, work, moves, unembedded, seen>>
      /\ act' = [act EXCEPT ![r].pc = "returned", ![r].snap = Empty]
  BY DEF SaveEnds, At, world, tables, ghosts
<1>2. act[r].todo = {} /\ \A g \in Files : work[r][g].st = "none"
  BY <1>1 DEF Scheduled, At
<1>3. Empty \in [Files -> 0..MaxVersion] /\ \A g \in Files : Empty[g] = 0
  BY IndexAssumption DEF Empty
<1> PICK x \in Progress :
      /\ act' = [act EXCEPT ![r] = x] /\ x.kind = act[r].kind /\ x.clean = act[r].clean /\ x.todo = act[r].todo
      /\ x.pc = "returned" /\ x.snap = Empty /\ x.failed = act[r].failed
  <2> PICK y \in Progress : y = act[r]
    BY TypedIndex
  <2>1. act' = [act EXCEPT ![r] = [y EXCEPT !.pc = "returned", !.snap = Empty]]
    BY <1>1, TypedIndex
  <2>2. [y EXCEPT !.pc = "returned", !.snap = Empty] \in Progress
    BY <1>3 DEF Progress
  <2> QED BY <2>1, <2>2 DEF Progress
<1>4. act' \in [Runs -> Progress] /\ act'[r] = x /\ \A q \in Runs \ {r} : act'[q] = act[q]
  BY TypedIndex, RunBecomes
<1>5. Running(r)
  BY <1>1, <1>4 DEF Running, Active, At
<1> /\ disk' = disk /\ Present' = Present
    /\ Disordered' <=> Disordered
    /\ Sound' <=> Sound
    /\ Exact' <=> Exact
  BY <1>5, RunningFacts
<1>6. IndexTyped'
  <2>1. saved' \in [Files -> 0..MaxVersion]
    BY <1>1, TypedIndex DEF Progress
  <2>2. /\ trees' = trees /\ head' = head /\ current' = current /\ row' = row /\ chunks' = chunks
        /\ vectors' = vectors /\ unembedded' = unembedded /\ cache' = cache /\ work' = work
        /\ newest' = newest /\ moves' = moves /\ dirty' \in BOOLEAN
    BY <1>1, TypedIndex
  <2>3. /\ vectors \subseteq Versions /\ unembedded \subseteq Versions /\ cache \in [Files -> 0..MaxVersion]
        /\ work \in [Runs -> [Files -> Processing]]
        /\ \A q \in Runs, g \in Files : work[q][g].st = "read" => work[q][g].ver # 0
    BY TypedIndex
  <2> QED BY <1>4, <2>1, <2>2, <2>3, TypedIndex, IndexIsTyped
<1>7. Scheduled'
  BY <1>1, <1>2, <1>4, <1>5, RunningScheduled DEF At
<1>8. \A q \in Runs : act'[q].todo = act[q].todo
  BY <1>4
<1>9. /\ \A g \in Files : \A u : (IsRow(g, u)' <=> IsRow(g, u)) /\ (Pending(g, u)' <=> Pending(g, u)) /\ (Kept(g, u)' <=> Kept(g, u))
      /\ \A g \in Files : Sure(g)' <=> Sure(g)
  BY <1>1, <1>8 DEF IsRow, Pending, Kept, Sure
<1>10. NoneNewer'
  <2>1. 0 <= newest
    BY TypedIndex, IndexAssumption
  <2>2. \A q \in Runs, g \in Files : act'[q].snap[g] <= newest
    BY <1>3, <1>4, <2>1 DEF IndexInvariant, NoneNewer
  <2> QED BY <1>1, <2>2 DEF IndexInvariant, NoneNewer
<1>11. ProcessedTrue'
  BY <1>1, <1>8 DEF IndexInvariant, ProcessedTrue, IsRow, Kept, Stored
<1>12. CacheTrue' /\ CacheExact'
  <2>1. \A g \in Files : Unsettled(g)' <=> Unsettled(g)
    BY <1>1, <1>4 DEF Unsettled, Stored
  <2> QED BY <1>1, <1>8, <2>1 DEF IndexInvariant, CacheTrue, CacheExact, IsRow, Kept, Pending
<1>13. SavedTrue'
  <2> SUFFICES ASSUME ~Disordered, "restored" \notin seen, NEW g \in Files
               PROVE  /\ saved'[g] # 0 /\ saved'[g] = disk[g] => Sure(g)'
                      /\ \A q \in Runs : At(q, "saving")' /\ act'[q].snap[g] # 0 /\ act'[q].snap[g] = disk[g] => Sure(g)'
    BY <1>1 DEF SavedTrue
  <2>1. \A q \in Runs : At(q, "saving")' => q # r /\ At(q, "saving") /\ act'[q] = act[q]
    BY <1>4 DEF At
  <2> QED BY <1>1, <1>9, <2>1 DEF IndexInvariant, SavedTrue, At
<1>14. ListedTrue'
  <2> SUFFICES ASSUME ~Disordered, NEW q \in Runs, At(q, "compare")'
               PROVE  /\ "listingStale" \notin seen => act'[q].listed = Present
                      /\ "restored" \notin seen => \A g \in Present \ act'[q].listed : saved'[g] # disk[g] /\ cache[g] # disk[g]
    BY <1>1 DEF ListedTrue
  <2>1. q # r /\ q \in Active /\ r \in Active /\ act'[q] = act[q] /\ At(q, "compare")
    BY <1>1, <1>4 DEF At, Active
  <2>2. "listingStale" \notin seen
    BY <2>1, TogetherFacts
  <2>3. act[q].listed = Present
    BY <2>1, <2>2 DEF IndexInvariant, ListedTrue
  <2> QED BY <2>1, <2>3
<1>15. CleanRuns'
  <2> SUFFICES ASSUME NEW q \in Runs, act'[q].clean /\ (act'[q].kind = "rebuild" \/ ~Disordered') PROVE CleanRun(q)'
    BY DEF CleanRuns
  <2>1. q = r /\ CleanRun(r)
    BY <1>5 DEF IndexInvariant, Scheduled, CleanRuns, Running
  <2>2. /\ \A g \in Files : Settled(r, g)
        /\ act[r].kind = "rebuild" => act[r].snap = cache
    BY <1>1, <2>1 DEF CleanRun, At
  <2>3. \A g \in Files : Settled(r, g)'
    BY <1>1, <1>4, <2>2 DEF Settled, Known, Owed
  <2> QED BY <1>1, <1>4, <2>1, <2>2, <2>3 DEF CleanRun, At
<1>16. DueTrue'
  <2>1. ASSUME "overlap" \notin seen, ~Disordered, "restored" \notin seen, NEW g \in Files
        PROVE  /\ UnderWay(r, g)' => NotKnown(g)'
               /\ saved'[g] # 0 /\ saved'[g] = disk[g] => Rebuilding' \/ cache'[g] = disk[g]
    <3>1. saved' = cache
      BY <1>1, <2>1 DEF IndexInvariant, DueTrue, At
    <3> QED BY <1>1, <1>2, <3>1 DEF UnderWay
  <2>2. ~At(r, "collect")' /\ ~At(r, "saving")'
    BY <1>4 DEF At
  <2> QED BY <1>5, <2>1, <2>2, RunningDue
<1> QED BY <1>6, <1>7, <1>10, <1>11, <1>12, <1>13, <1>14, <1>15, <1>16 DEF IndexInvariant

(* Once a branch was switched, nothing is known until a rebuild begins that *)
(* nobody disturbs.                                                         *)
LEMMA NothingKnown ==
  ASSUME IndexTyped', NoneNewer', Scheduled', DueTrue', Disordered', \A r \in Runs : ~act'[r].clean
  PROVE  IndexInvariant'
<1>1. ~Sound' /\ ~Exact'
  BY DEF Sound, Exact, Healing
<1>2. ProcessedTrue' /\ CacheTrue' /\ CacheExact'
  BY <1>1 DEF ProcessedTrue, CacheTrue, CacheExact
<1>3. SavedTrue' /\ ListedTrue' /\ CleanRuns'
  BY DEF SavedTrue, ListedTrue, CleanRuns
<1> QED BY <1>2, <1>3 DEF IndexInvariant

LEMMA PollKeeps ==
  ASSUME IndexInvariant, Poll
  PROVE  IndexInvariant'
<1> IndexTyped /\ Scheduled
  BY DEF IndexInvariant
<1>1. /\ current # head /\ current' = head
      /\ UNCHANGED <<trees, head, newest, row, chunks, vectors, cache, dirty, saved, act, work, moves, unembedded, seen>>
  BY DEF Poll, world, tables, hashes, ghosts
<1>2. "switch" \in seen /\ \A r \in Runs : ~act[r].clean
  BY <1>1 DEF Scheduled
<1>3. IndexTyped'
  BY <1>1, TypedIndex, IndexIsTyped
<1>4. NoneNewer'
  BY <1>1 DEF IndexInvariant, NoneNewer
<1>5. Scheduled'
  BY <1>1, <1>2 DEF Scheduled, At, Active
<1>6. Disordered'
  BY <1>1, <1>2 DEF Disordered, Upset
<1>7. DueTrue'
  BY <1>1, <1>6 DEF IndexInvariant, DueTrue, At
<1> QED BY <1>1, <1>2, <1>3, <1>4, <1>5, <1>6, <1>7, NothingKnown

LEMMA NotClean ==
  ASSUME NEW x \in Progress
  PROVE  LET y == [x EXCEPT !.clean = FALSE]
         IN /\ y \in Progress /\ ~y.clean /\ y.pc = x.pc /\ y.kind = x.kind /\ y.todo = x.todo
            /\ y.snap = x.snap /\ y.listed = x.listed /\ y.failed = x.failed
BY DEF Progress

LEMMA DisturbedFacts ==
  ASSUME IndexTyped, act' = Disturbed
  PROVE  /\ act' \in [Runs -> Progress]
         /\ \A r \in Runs :
              /\ ~act'[r].clean /\ act'[r].pc = act[r].pc /\ act'[r].kind = act[r].kind
              /\ act'[r].todo = act[r].todo /\ act'[r].snap = act[r].snap /\ act'[r].listed = act[r].listed
              /\ act'[r].failed = act[r].failed
<1>1. act' = [r \in Runs |-> [act[r] EXCEPT !.clean = FALSE]]
  BY DEF Disturbed
<1>2. \A r \in Runs : act[r] \in Progress
  BY TypedIndex
<1>3. \A r \in Runs : [act[r] EXCEPT !.clean = FALSE] \in Progress
  BY <1>2, NotClean
<1>4. \A r \in Runs :
        /\ ~act'[r].clean /\ act'[r].pc = act[r].pc /\ act'[r].kind = act[r].kind
        /\ act'[r].todo = act[r].todo /\ act'[r].snap = act[r].snap /\ act'[r].listed = act[r].listed
        /\ act'[r].failed = act[r].failed
  <2> SUFFICES ASSUME NEW r \in Runs
               PROVE  /\ ~act'[r].clean /\ act'[r].pc = act[r].pc /\ act'[r].kind = act[r].kind
                      /\ act'[r].todo = act[r].todo /\ act'[r].snap = act[r].snap /\ act'[r].listed = act[r].listed
                      /\ act'[r].failed = act[r].failed
    OBVIOUS
  <2> PICK x \in Progress : x = act[r]
    BY <1>2
  <2>1. act'[r] = [x EXCEPT !.clean = FALSE]
    BY <1>1
  <2> QED BY <2>1, NotClean
<1> QED BY <1>1, <1>3, <1>4

LEMMA SwitchKeeps ==
  ASSUME IndexInvariant, NEW b \in Branches, Switch(b)
  PROVE  IndexInvariant'
<1> IndexTyped /\ Scheduled
  BY DEF IndexInvariant
<1>1. /\ head' = b /\ act' = Disturbed /\ seen' = seen \cup {"switch"} /\ moves' \in 0..MaxMoves
      /\ UNCHANGED <<trees, newest, current, row, chunks, vectors, cache, dirty, saved, work, unembedded>>
  BY TypedIndex, IndexAssumption DEF Switch, Move, tables, hashes
<1>2. act' \in [Runs -> Progress]
  BY <1>1, DisturbedFacts
<1>3. \A r \in Runs :
        /\ ~act'[r].clean /\ act'[r].pc = act[r].pc /\ act'[r].kind = act[r].kind /\ act'[r].todo = act[r].todo
        /\ act'[r].snap = act[r].snap /\ act'[r].failed = act[r].failed
  BY <1>1, DisturbedFacts
<1>4. IndexTyped'
  BY <1>1, <1>2, TypedIndex, IndexIsTyped
<1>5. NoneNewer'
  BY <1>1, <1>3 DEF IndexInvariant, NoneNewer
<1>6. Active' = Active
  BY <1>3 DEF Active, At
<1>7. Scheduled'
  <2>1. \A r \in Active : r \in Runs
    BY DEF Active
  <2>2. /\ \A r \in Runs : ~At(r, "process")' => act'[r].todo = {} /\ \A f \in Files : work'[r][f].st = "none"
        /\ \A r \in Runs : act'[r].pc \in {"idle", "compare"} => act'[r].kind = "refresh"
    BY <1>1, <1>3 DEF Scheduled, At
  <2>3. /\ "overlap" \notin seen' => \A r, q \in Active' : r = q
        /\ "rebuildOverlap" \notin seen' => \A r, q \in Active' : act'[r].kind = "rebuild" => r = q
    BY <1>1, <1>3, <1>6, <2>1 DEF Scheduled
  <2>4. \A r \in Runs : act'[r].kind = "rebuild" /\ act'[r].pc \in {"collect", "process", "save"} =>
          dirty' \/ (~act'[r].clean /\ "rebuildOverlap" \in seen')
    BY <1>1, <1>3 DEF Scheduled
  <2>5. /\ \A r \in Runs : act'[r].pc \in {"idle", "collect", "compare"} => act'[r].failed = {}
        /\ "failed" \notin seen' => \A r \in Runs : act'[r].failed = {}
    BY <1>1, <1>3 DEF Scheduled
  <2> QED BY <1>1, <1>3, <2>2, <2>3, <2>4, <2>5 DEF Scheduled
<1>8. Disordered'
  BY <1>1 DEF Disordered, Upset
<1>9. DueTrue'
  BY <1>1, <1>3, <1>8 DEF IndexInvariant, DueTrue, At
<1> QED BY <1>3, <1>4, <1>5, <1>7, <1>8, <1>9, NothingKnown

LEMMA IdleTyped == Idle \in Progress
BY IndexAssumption DEF Idle, Progress, Empty

LEMMA ReturnKeeps ==
  ASSUME IndexInvariant, NEW r \in Runs, Return(r)
  PROVE  IndexInvariant'
<1> IndexTyped /\ Scheduled
  BY DEF IndexInvariant
<1>1. /\ act[r].pc = "returned" /\ act' = [act EXCEPT ![r] = Idle]
      /\ seen' = IF act[r].kind = "rebuild" /\ act[r].clean
                 THEN IF act[r].failed = {} THEN {} ELSE {"failed"} ELSE seen
      /\ UNCHANGED <<trees, head, newest, current, row, chunks, vectors, cache, dirty, saved, work, moves, unembedded>>
  BY DEF Return, At, world, tables, hashes
<1>2. act[r].todo = {} /\ \A g \in Files : work[r][g].st = "none"
  BY <1>1 DEF Scheduled, At
<1>3. act' \in [Runs -> Progress] /\ act'[r] = Idle /\ \A q \in Runs \ {r} : act'[q] = act[q]
  BY <1>1, TypedIndex, IdleTyped, RunBecomes
<1>4. /\ Idle.pc = "idle" /\ Idle.kind = "refresh" /\ Idle.todo = {} /\ Idle.clean = FALSE
      /\ Idle.failed = {}
      /\ \A g \in Files : Idle.snap[g] = 0
  BY DEF Idle, Empty
<1>5. IndexTyped'
  BY <1>1, <1>3, TypedIndex, IndexIsTyped
<1>6. NoneNewer'
  <2>1. 0 <= newest
    BY TypedIndex, IndexAssumption
  <2>2. \A q \in Runs, g \in Files : act'[q].snap[g] <= newest
    BY <1>3, <1>4, <2>1 DEF IndexInvariant, NoneNewer
  <2> QED BY <1>1, <2>2 DEF IndexInvariant, NoneNewer
<1>7. Active' = Active \ {r} /\ r \in Active
  BY <1>1, <1>3, <1>4 DEF Active, At
<1>8. disk' = disk /\ Present' = Present
  BY <1>1 DEF disk, Present
<1>9. \A q \in Runs : act'[q].todo = act[q].todo
  BY <1>2, <1>3, <1>4
<1>10. /\ \A g \in Files : \A u : (IsRow(g, u)' <=> IsRow(g, u)) /\ (Pending(g, u)' <=> Pending(g, u)) /\ (Kept(g, u)' <=> Kept(g, u))
       /\ Rebuilding' <=> Rebuilding
  BY <1>1, <1>3, <1>4, <1>9 DEF IsRow, Pending, Kept, Rebuilding
<1>11. \A q \in Runs : At(q, "saving")' \/ At(q, "compare")' => q # r /\ act'[q] = act[q]
  BY <1>3, <1>4 DEF At
<1>12. CASE act[r].kind = "rebuild" /\ act[r].clean
  <2>1. /\ Active' = {} /\ current = head
        /\ seen' \subseteq {"failed"} /\ ("failed" \notin seen' => act[r].failed = {})
    BY <1>1, <1>7, <1>12 DEF Scheduled
  <2>2. \A q \in Runs :
          /\ act'[q].pc = "idle" /\ act'[q].todo = {} /\ act'[q].failed = {} /\ ~act'[q].clean
          /\ \A g \in Files : work'[q][g].st = "none"
    <3>1. \A q \in Runs \ {r} : act[q].pc = "idle" /\ act[q].failed = {} /\ ~act[q].clean
      BY <1>3, <2>1, <1>7 DEF Active, At, Scheduled
    <3>2. \A q \in Runs : act[q].todo = {} /\ \A g \in Files : work[q][g].st = "none"
      BY <1>2, <3>1 DEF Scheduled, At
    <3> QED BY <1>1, <1>3, <1>4, <1>9, <3>1, <3>2
  <2>3. Scheduled'
    <3>1. \A q \in Runs : act'[q].kind = "refresh"
      BY <1>3, <1>4, <2>1, <1>7, <2>2 DEF Scheduled, Active, At
    <3> QED BY <1>1, <2>1, <2>2, <3>1 DEF Scheduled
  <2>4. Sound /\ Exact /\ CleanRun(r)
    BY <1>12 DEF Sound, Exact, Healing, IndexInvariant, CleanRuns
  <2>5. saved = cache /\ \A g \in Files : Settled(r, g)
    BY <1>1, <1>12, <2>4 DEF CleanRun, At
  <2>6. \A g \in Files : ~Pending(g, cache[g])
    BY <1>9, <2>2 DEF Pending
  <2>7. \A g \in Files : cache[g] # 0 => cache[g] = disk[g] /\ IsRow(g, disk[g]) /\ Kept(g, disk[g])
    <3>1. \A g \in Files : cache[g] # 0 => cache[g] = disk[g]
      BY <1>12, <2>5 DEF Settled, Known, Owed
    <3> QED BY <2>4, <2>6, <3>1 DEF IndexInvariant, CacheTrue, CacheExact
  <2>8. act[r].failed = {} => \A g \in Files : ~Unsettled(g)
    <3>1. \A q \in Runs, g \in Files : ~Stored(q, g)
      BY <1>1, <2>2 DEF Stored
    <3>2. act[r].failed = {} => \A q \in Runs : act[q].failed = {}
      BY <1>3, <2>2
    <3> QED BY <3>1, <3>2 DEF Unsettled
  <2>9. ProcessedTrue'
    BY <2>2 DEF ProcessedTrue, Stored
  <2>10. CacheTrue'
    BY <1>1, <1>8, <2>7 DEF CacheTrue, IsRow, Kept
  <2>11. CacheExact'
    <3> SUFFICES ASSUME Exact' PROVE CacheExact'
      BY DEF CacheExact
    <3>1. act[r].failed = {}
      BY <2>1, <2>2 DEF Exact, Healing
    <3>2. \A g \in Files :
            /\ \/ cache[g] = 0 /\ row[g].branch # current
               \/ cache[g] # 0 /\ IsRow(g, cache[g])
            /\ cache[g] # 0 => Kept(g, cache[g])
      BY <2>4, <2>7, <2>8, <3>1 DEF IndexInvariant, CacheExact
    <3> QED BY <1>1, <3>2 DEF CacheExact, IsRow, Kept
  <2>12. SavedTrue'
    <3>1. \A g \in Files : saved[g] # 0 => Sure(g)'
      BY <1>1, <1>8, <2>5, <2>7 DEF Sure, IsRow, Kept
    <3> QED BY <1>1, <2>2, <3>1 DEF SavedTrue, At
  <2>13. ListedTrue' /\ CleanRuns'
    BY <2>2 DEF ListedTrue, CleanRuns, At
  <2>14. DueTrue'
    <3>1. \A g \in Files : Due(g)'
      BY <1>1, <1>8, <2>2, <2>5 DEF Due, UnderWay
    <3> QED BY <2>2, <3>1 DEF DueTrue, At
  <2> QED BY <1>5, <1>6, <2>3, <2>9, <2>10, <2>11, <2>12, <2>13, <2>14 DEF IndexInvariant
<1>13. CASE ~(act[r].kind = "rebuild" /\ act[r].clean)
  <2>1. seen' = seen
    BY <1>1, <1>13
  <2>2. /\ \A q \in Runs : Healing(q)' <=> Healing(q)
        /\ Disordered' <=> Disordered
    BY <1>3, <1>4, <1>13, <2>1 DEF Healing, Disordered
  <2>3. (Sound' <=> Sound) /\ (Exact' <=> Exact)
    BY <2>1, <2>2 DEF Sound, Exact
  <2>4. Scheduled'
    <3>1. \A q \in Active' : q \in Runs /\ q \in Active /\ act'[q] = act[q]
      BY <1>3, <1>7 DEF Active
    <3>2. /\ \A q \in Runs : ~At(q, "process")' => act'[q].todo = {} /\ \A f \in Files : work'[q][f].st = "none"
          /\ \A q \in Runs : act'[q].pc \in {"idle", "compare"} => act'[q].kind = "refresh"
      BY <1>1, <1>2, <1>3, <1>4 DEF Scheduled, At
    <3>3. \A q \in Runs : act'[q].clean => Active' = {q} /\ current' = head'
      <4> SUFFICES ASSUME NEW q \in Runs, act'[q].clean PROVE FALSE
        OBVIOUS
      <4>1. q # r /\ act[q].clean
        BY <1>3, <1>4
      <4> QED BY <1>7, <4>1 DEF Scheduled
    <3>4. /\ "overlap" \notin seen' => \A p, q \in Active' : p = q
          /\ "rebuildOverlap" \notin seen' => \A p, q \in Active' : act'[p].kind = "rebuild" => p = q
      BY <2>1, <3>1 DEF Scheduled
    <3>5. \A q \in Runs : act'[q].kind = "rebuild" /\ act'[q].pc \in {"collect", "process", "save"} =>
            dirty' \/ (~act'[q].clean /\ "rebuildOverlap" \in seen')
      BY <1>1, <1>3, <1>4, <2>1 DEF Scheduled
    <3>6. /\ \A q \in Runs : act'[q].pc \in {"idle", "collect", "compare"} => act'[q].failed = {}
          /\ "failed" \notin seen' => \A q \in Runs : act'[q].failed = {}
      BY <1>3, <1>4, <2>1 DEF Scheduled
    <3> QED BY <1>1, <2>1, <3>2, <3>3, <3>4, <3>5, <3>6 DEF Scheduled
  <2>5. ProcessedTrue'
    BY <1>1, <1>8, <1>9, <2>3 DEF IndexInvariant, ProcessedTrue, IsRow, Kept, Stored
  <2>6. CacheTrue' /\ CacheExact'
    <3>1. CacheTrue'
      BY <1>1, <1>8, <1>9, <2>1, <2>3 DEF IndexInvariant, CacheTrue, IsRow, Kept, Pending
    <3>2. ASSUME Exact, NEW g \in Files, Unsettled(g) PROVE Unsettled(g)'
      <4>1. \A q \in Runs : ~Healing(q)
        <5> SUFFICES ASSUME NEW q \in Runs, act[q].clean, act[q].kind = "rebuild" PROVE FALSE
          BY DEF Healing
        <5>1. q = r
          BY <1>7 DEF Scheduled
        <5> QED BY <1>13, <5>1
      <4>2. act[r].failed = {}
        BY <3>2, <4>1 DEF Exact, Scheduled
      <4> QED BY <1>1, <1>3, <3>2, <4>2 DEF Unsettled, Stored
    <3> QED BY <1>1, <1>9, <2>3, <3>1, <3>2 DEF IndexInvariant, CacheExact, IsRow, Kept, Pending
  <2>7. SavedTrue'
    <3>1. \A g \in Files : Sure(g)' <=> Sure(g)
      BY <1>1, <1>8, <1>10, <2>1 DEF Sure
    <3> QED BY <1>1, <1>8, <1>10, <1>11, <2>1, <2>2, <3>1 DEF IndexInvariant, SavedTrue, At
  <2>8. ListedTrue'
    BY <1>1, <1>8, <1>11, <2>1, <2>2 DEF IndexInvariant, ListedTrue, At
  <2>9. CleanRuns'
    <3> SUFFICES ASSUME NEW q \in Runs, act'[q].clean PROVE FALSE
      BY DEF CleanRuns
    <3>1. q # r /\ act[q].clean
      BY <1>3, <1>4
    <3> QED BY <1>7, <3>1 DEF Scheduled
  <2>10. DueTrue'
    <3>1. \A g \in Files : Due(g) => Due(g)'
      BY <1>1, <1>8, <1>10 DEF Due, UnderWay, NotKnown
    <3>2. /\ \A q \in Runs : At(q, "collect")' /\ act'[q].kind = "rebuild" => At(q, "collect") /\ act[q].kind = "rebuild"
          /\ \A q \in Runs : At(q, "saving")' => At(q, "saving") /\ act'[q].snap = act[q].snap
      BY <1>3, <1>4 DEF At
    <3> QED BY <1>1, <2>1, <2>2, <3>1, <3>2 DEF IndexInvariant, DueTrue
  <2> QED BY <1>5, <1>6, <2>4, <2>5, <2>6, <2>7, <2>8, <2>9, <2>10 DEF IndexInvariant
<1> QED BY <1>12, <1>13

LEMMA StartFacts ==
  ASSUME IndexTyped, NEW r \in Runs, NEW kind \in {"refresh", "rebuild"}, Start(r, kind)
  PROVE  /\ act[r].pc = "idle" /\ r \notin Active /\ Active' = Active \cup {r}
         /\ act' \in [Runs -> Progress] /\ moves' \in 0..MaxMoves
         /\ act'[r].pc = "collect" /\ act'[r].kind = kind /\ act'[r].todo = {} /\ act'[r].snap = Empty
         /\ act'[r].failed = {}
         /\ act'[r].clean <=> Active = {} /\ current = head
         /\ \A q \in Runs \ {r} :
              /\ ~act'[q].clean /\ act'[q].pc = act[q].pc /\ act'[q].kind = act[q].kind
              /\ act'[q].todo = act[q].todo /\ act'[q].snap = act[q].snap /\ act'[q].listed = act[q].listed
              /\ act'[q].failed = act[q].failed
         /\ seen \subseteq seen' /\ seen' \subseteq seen \cup {"overlap", "rebuildOverlap"}
         /\ Active # {} => "overlap" \in seen'
         /\ \A q \in Active : "rebuild" \in {kind, act[q].kind} => "rebuildOverlap" \in seen'
<1>1. /\ act[r].pc = "idle" /\ moves < MaxMoves /\ moves' = moves + 1
      /\ act' = [q \in Runs |-> IF q = r THEN [Idle EXCEPT !.pc = "collect", !.kind = kind,
                                                          !.clean = (Others(r) = {} /\ current = head)]
                                ELSE [act[q] EXCEPT !.clean = FALSE]]
      /\ seen' = seen \cup (IF Others(r) = {} THEN {} ELSE {"overlap"})
                      \cup (IF \E q \in Others(r) : "rebuild" \in {kind, act[q].kind} THEN {"rebuildOverlap"} ELSE {})
  BY DEF Start, Move, At
<1>2. r \notin Active /\ Others(r) = Active
  BY <1>1 DEF Active, Others, At
<1>3. moves' \in 0..MaxMoves
  <2>1. moves \in 0..MaxMoves /\ MaxMoves \in Nat
    BY TypedIndex, IndexAssumption
  <2>2. moves < MaxMoves /\ moves' = moves + 1
    BY <1>1
  <2> QED BY <2>1, <2>2
<1> PICK alone \in BOOLEAN : alone <=> (Active = {} /\ current = head)
  OBVIOUS
<1> PICK x \in Progress :
      /\ x = [Idle EXCEPT !.pc = "collect", !.kind = kind, !.clean = (Others(r) = {} /\ current = head)]
      /\ x.pc = "collect" /\ x.kind = kind /\ x.todo = {} /\ x.snap = Empty /\ x.failed = {} /\ (x.clean <=> alone)
  <2>1. [Idle EXCEPT !.pc = "collect", !.kind = kind, !.clean = alone] \in Progress
    BY IdleTyped DEF Progress
  <2>2. (Others(r) = {} /\ current = head) = alone
    BY <1>2
  <2>3. [Idle EXCEPT !.pc = "collect", !.kind = kind, !.clean = alone].todo = {}
        /\ [Idle EXCEPT !.pc = "collect", !.kind = kind, !.clean = alone].snap = Empty
        /\ [Idle EXCEPT !.pc = "collect", !.kind = kind, !.clean = alone].failed = {}
    BY DEF Idle
  <2>4. [Idle EXCEPT !.pc = "collect", !.kind = kind, !.clean = alone].pc = "collect"
        /\ [Idle EXCEPT !.pc = "collect", !.kind = kind, !.clean = alone].kind = kind
        /\ [Idle EXCEPT !.pc = "collect", !.kind = kind, !.clean = alone].clean = alone
    BY IdleTyped DEF Progress
  <2>5. [Idle EXCEPT !.pc = "collect", !.kind = kind, !.clean = (Others(r) = {} /\ current = head)]
        = [Idle EXCEPT !.pc = "collect", !.kind = kind, !.clean = alone]
    BY <2>2
  <2> QED BY <2>1, <2>3, <2>4, <2>5
<1>4. act' = [q \in Runs |-> IF q = r THEN x ELSE [act[q] EXCEPT !.clean = FALSE]]
  BY <1>1
<1>5. \A q \in Runs : act[q] \in Progress
  BY TypedIndex
<1>6. \A q \in Runs : [act[q] EXCEPT !.clean = FALSE] \in Progress
  BY <1>5, NotClean
<1>7. act' \in [Runs -> Progress] /\ act'[r] = x
  BY <1>4, <1>6
<1>8. \A q \in Runs \ {r} :
        /\ ~act'[q].clean /\ act'[q].pc = act[q].pc /\ act'[q].kind = act[q].kind
        /\ act'[q].todo = act[q].todo /\ act'[q].snap = act[q].snap /\ act'[q].listed = act[q].listed
        /\ act'[q].failed = act[q].failed
  <2> SUFFICES ASSUME NEW q \in Runs \ {r}
               PROVE  /\ ~act'[q].clean /\ act'[q].pc = act[q].pc /\ act'[q].kind = act[q].kind
                      /\ act'[q].todo = act[q].todo /\ act'[q].snap = act[q].snap /\ act'[q].listed = act[q].listed
                      /\ act'[q].failed = act[q].failed
    OBVIOUS
  <2> PICK y \in Progress : y = act[q]
    BY <1>5
  <2>1. act'[q] = [y EXCEPT !.clean = FALSE]
    BY <1>4
  <2> QED BY <2>1, NotClean
<1>9. Active' = Active \cup {r}
  BY <1>7, <1>8 DEF Active, At
<1>10. /\ seen \subseteq seen' /\ seen' \subseteq seen \cup {"overlap", "rebuildOverlap"}
       /\ Active # {} => "overlap" \in seen'
       /\ \A q \in Active : "rebuild" \in {kind, act[q].kind} => "rebuildOverlap" \in seen'
  BY <1>1, <1>2
<1> QED BY <1>1, <1>2, <1>3, <1>7, <1>8, <1>9, <1>10

LEMMA StartScheduled ==
  ASSUME IndexTyped, Scheduled, NEW r \in Runs, NEW kind \in {"refresh", "rebuild"}, Start(r, kind),
         current' = current, head' = head, work' = work, kind = "rebuild" => dirty', dirty => dirty'
  PROVE  Scheduled'
<1>1. \A q \in Runs : ~At(q, "process")' => act'[q].todo = {} /\ \A f \in Files : work'[q][f].st = "none"
  <2>1. ~At(r, "process")
    BY StartFacts DEF At
  <2> QED BY <2>1, StartFacts DEF Scheduled, At
<1>2. \A q \in Runs : act'[q].pc \in {"idle", "compare"} => act'[q].kind = "refresh"
  BY StartFacts DEF Scheduled
<1>3. \A q \in Runs : act'[q].clean => Active' = {q} /\ current' = head'
  BY StartFacts
<1>4. "switch" \notin seen' => current' = head'
  BY StartFacts DEF Scheduled
<1>5. "overlap" \notin seen' => \A p, q \in Active' : p = q
  BY StartFacts
<1>6. "rebuildOverlap" \notin seen' => \A p, q \in Active' : act'[p].kind = "rebuild" => p = q
  <2>1. \A q \in Active : q \in Runs /\ q # r
    BY StartFacts DEF Active
  <2> QED BY <2>1, StartFacts
<1>7. \A q \in Runs : act'[q].kind = "rebuild" /\ act'[q].pc \in {"collect", "process", "save"} =>
        dirty' \/ (~act'[q].clean /\ "rebuildOverlap" \in seen')
  BY StartFacts DEF Scheduled
<1>8. /\ \A q \in Runs : act'[q].pc \in {"idle", "collect", "compare"} => act'[q].failed = {}
      /\ "failed" \notin seen' => \A q \in Runs : act'[q].failed = {}
  BY StartFacts DEF Scheduled
<1> QED BY <1>1, <1>2, <1>3, <1>4, <1>5, <1>6, <1>7, <1>8 DEF Scheduled

LEMMA RefreshKeeps ==
  ASSUME IndexInvariant, NEW r \in Runs, Refresh(r)
  PROVE  IndexInvariant'
<1> IndexTyped /\ Scheduled
  BY DEF IndexInvariant
<1>1. /\ Start(r, "refresh")
      /\ UNCHANGED <<trees, head, newest, current, row, chunks, vectors, cache, dirty, saved, work, unembedded>>
  BY DEF Refresh, world, tables, hashes
<1>2. /\ act[r].pc = "idle" /\ r \notin Active /\ Active' = Active \cup {r}
      /\ act' \in [Runs -> Progress] /\ moves' \in 0..MaxMoves
      /\ act'[r].pc = "collect" /\ act'[r].kind = "refresh" /\ act'[r].todo = {} /\ act'[r].snap = Empty
      /\ act'[r].failed = {} /\ (Active # {} => "overlap" \in seen')
      /\ \A q \in Runs \ {r} :
           /\ ~act'[q].clean /\ act'[q].pc = act[q].pc /\ act'[q].kind = act[q].kind
           /\ act'[q].todo = act[q].todo /\ act'[q].snap = act[q].snap /\ act'[q].listed = act[q].listed
           /\ act'[q].failed = act[q].failed
      /\ seen \subseteq seen' /\ seen' \subseteq seen \cup {"overlap", "rebuildOverlap"}
  BY <1>1, StartFacts
<1>3. IndexTyped'
  BY <1>1, <1>2, TypedIndex, IndexIsTyped
<1>4. NoneNewer'
  <2>1. 0 <= newest /\ \A g \in Files : Empty[g] = 0
    BY TypedIndex, IndexAssumption DEF Empty
  <2>2. \A q \in Runs, g \in Files : act'[q].snap[g] <= newest
    BY <1>2, <2>1 DEF IndexInvariant, NoneNewer
  <2> QED BY <1>1, <2>2 DEF IndexInvariant, NoneNewer
<1>5. Scheduled'
  BY <1>1, StartScheduled
<1>6. disk' = disk /\ Present' = Present
  BY <1>1 DEF disk, Present
<1>7. \A q \in Runs : act'[q].todo = act[q].todo
  BY <1>2 DEF Scheduled, At
<1>8. \A q \in Runs : At(q, "saving")' \/ At(q, "compare")' => q # r /\ (At(q, "saving")' <=> At(q, "saving")) /\ (At(q, "compare")' <=> At(q, "compare"))
  BY <1>2 DEF At
<1>9. Rebuilding' <=> Rebuilding
  BY <1>2 DEF Rebuilding
<1>10. Disordered => Disordered'
  BY <1>2 DEF Disordered
<1>11. (Sound' => Sound) /\ (Exact' => Exact)
  <2>1. \A q \in Runs : ~Healing(q)'
    BY <1>2 DEF Healing
  <2> QED BY <1>2, <1>10, <2>1 DEF Sound, Exact
<1>12. ProcessedTrue'
  BY <1>1, <1>6, <1>7, <1>11 DEF IndexInvariant, ProcessedTrue, IsRow, Kept, Stored
<1>13. CacheTrue'
  BY <1>1, <1>2, <1>6, <1>7, <1>11 DEF IndexInvariant, CacheTrue, IsRow, Kept, Pending
<1>14. CacheExact'
  <2>1. \A g \in Files : Unsettled(g) => Unsettled(g)'
    BY <1>1, <1>2 DEF Unsettled, Stored, Scheduled
  <2> QED BY <1>1, <1>7, <1>11, <2>1 DEF IndexInvariant, CacheExact, IsRow, Kept, Pending
<1>15. SavedTrue'
  <2>1. \A g \in Files : Sure(g) => Sure(g)'
    BY <1>1, <1>2, <1>6 DEF Sure, IsRow, Kept
  <2> SUFFICES ASSUME ~Disordered', "restored" \notin seen', NEW g \in Files
               PROVE  /\ saved[g] # 0 /\ saved[g] = disk[g] => Rebuilding' \/ Sure(g)'
                      /\ \A q \in Runs : At(q, "saving")' /\ act'[q].snap[g] # 0 /\ act'[q].snap[g] = disk[g] => Sure(g)'
    BY <1>1, <1>6 DEF SavedTrue
  <2>2. ~Disordered /\ "restored" \notin seen
    BY <1>2, <1>10
  <2>3. \A q \in Runs : At(q, "saving")' => At(q, "saving") /\ act'[q].snap = act[q].snap
    BY <1>2, <1>8
  <2> QED BY <1>9, <2>1, <2>2, <2>3 DEF IndexInvariant, SavedTrue
<1>16. ListedTrue'
  <2> SUFFICES ASSUME ~Disordered', NEW q \in Runs, At(q, "compare")'
               PROVE  /\ "listingStale" \notin seen' => act'[q].listed = Present
                      /\ "restored" \notin seen' => \A g \in Present \ act'[q].listed : saved[g] # disk[g] /\ cache[g] # disk[g]
    BY <1>1, <1>6 DEF ListedTrue
  <2>1. ~Disordered /\ At(q, "compare") /\ act'[q].listed = act[q].listed
    BY <1>2, <1>8, <1>10
  <2> QED BY <1>2, <2>1 DEF IndexInvariant, ListedTrue
<1>17. CleanRuns'
  BY <1>2 DEF CleanRuns, CleanRun, At
<1>18. DueTrue'
  <2> SUFFICES ASSUME "overlap" \notin seen' PROVE DueTrue'
    BY DEF DueTrue
  <2>1. Active = {} /\ "overlap" \notin seen
    BY <1>2
  <2>2. \A q \in Runs \ {r} : act'[q].pc = "idle"
    BY <1>2, <2>1 DEF Active, At
  <2>3. \A g \in Files : Due(g) => Due(g)'
    BY <1>1, <1>6, <1>9 DEF Due, UnderWay, NotKnown
  <2>4. ~Disordered' /\ "restored" \notin seen' => ~Disordered /\ "restored" \notin seen
    BY <1>2, <1>10
  <2> QED BY <1>2, <2>1, <2>2, <2>3, <2>4 DEF IndexInvariant, DueTrue, At
<1> QED BY <1>3, <1>4, <1>5, <1>12, <1>13, <1>14, <1>15, <1>16, <1>17, <1>18 DEF IndexInvariant

LEMMA RebuildKeeps ==
  ASSUME IndexInvariant, NEW r \in Runs, Rebuild(r)
  PROVE  IndexInvariant'
<1> IndexTyped /\ Scheduled
  BY DEF IndexInvariant
<1>1. /\ Start(r, "rebuild") /\ cache' = Empty /\ dirty' = TRUE
      /\ row' = [f \in Files |-> IF row[f].branch = current THEN NoRow ELSE row[f]]
      /\ UNCHANGED <<trees, head, newest, current, chunks, vectors, saved, work, unembedded>>
  BY DEF Rebuild, world
<1>2. /\ act[r].pc = "idle" /\ r \notin Active /\ Active' = Active \cup {r}
      /\ act' \in [Runs -> Progress] /\ moves' \in 0..MaxMoves
      /\ act'[r].pc = "collect" /\ act'[r].kind = "rebuild" /\ act'[r].todo = {} /\ act'[r].snap = Empty
      /\ Active # {} => "overlap" \in seen'
      /\ act'[r].clean <=> Active = {} /\ current = head
      /\ \A q \in Runs \ {r} :
           /\ ~act'[q].clean /\ act'[q].pc = act[q].pc /\ act'[q].kind = act[q].kind
           /\ act'[q].todo = act[q].todo /\ act'[q].snap = act[q].snap /\ act'[q].listed = act[q].listed
           /\ act'[q].failed = act[q].failed
      /\ seen \subseteq seen'
      /\ Active # {} => "rebuildOverlap" \in seen'
  BY <1>1, StartFacts
<1>3. /\ Empty \in [Files -> 0..MaxVersion] /\ \A g \in Files : Empty[g] = 0
      /\ \A g \in Files : row'[g].branch # current
      /\ row' \in [Files -> [branch : Branches, ver : 1..MaxVersion] \cup {NoRow}]
  BY <1>1, TypedIndex, IndexAssumption DEF Empty, NoRow
<1>4. IndexTyped'
  BY <1>1, <1>2, <1>3, TypedIndex, IndexIsTyped
<1>5. NoneNewer'
  <2>1. 0 <= newest
    BY TypedIndex, IndexAssumption
  <2>2. \A q \in Runs, g \in Files : act'[q].snap[g] <= newest
    BY <1>2, <1>3, <2>1 DEF IndexInvariant, NoneNewer
  <2> QED BY <1>1, <1>3, <2>1, <2>2 DEF IndexInvariant, NoneNewer
<1>6. Scheduled'
  BY <1>1, StartScheduled
<1>9. DueTrue'
  <2> SUFFICES ASSUME "overlap" \notin seen' PROVE DueTrue'
    BY DEF DueTrue
  <2>1. Active = {}
    BY <1>2
  <2>2. \A q \in Runs \ {r} : act'[q].pc = "idle"
    BY <1>2, <2>1 DEF Active, At
  <2>3. \A q \in Runs, g \in Files : work'[q][g].st = "none"
    BY <1>2, <1>6, <2>2 DEF Scheduled, At
  <2>4. \A g \in Files : cache'[g] = 0
    BY <1>1, <1>3
  <2>5. Rebuilding'
    BY <1>2 DEF Rebuilding
  <2>6. \A g \in Files : Due(g)'
    BY <2>3, <2>5 DEF Due, UnderWay
  <2> QED BY <1>2, <2>2, <2>4, <2>6 DEF DueTrue, At
<1>7. CASE act'[r].clean
  <2>1. \A q \in Runs \ {r} : act'[q].pc = "idle"
    BY <1>2, <1>7 DEF Active, At
  <2>2. \A q \in Runs, g \in Files : work'[q][g].st = "none"
    BY <1>2, <1>6, <2>1 DEF Scheduled, At
  <2>3. ProcessedTrue' /\ CacheTrue' /\ CacheExact'
    BY <1>1, <1>3, <2>2 DEF ProcessedTrue, CacheTrue, CacheExact, Stored
  <2>4. Rebuilding'
    BY <1>2 DEF Rebuilding
  <2>5. SavedTrue' /\ ListedTrue'
    BY <1>2, <2>1, <2>4 DEF SavedTrue, ListedTrue, At
  <2>6. CleanRuns'
    BY <1>1, <1>2, <1>3 DEF CleanRuns, CleanRun, At
  <2> QED BY <1>4, <1>5, <1>6, <2>3, <2>5, <2>6, <1>9 DEF IndexInvariant
<1>8. CASE ~act'[r].clean
  <2>1. Disordered'
    BY <1>2, <1>8 DEF Disordered, Upset, Scheduled
  <2> QED BY <1>2, <1>4, <1>5, <1>6, <1>8, <1>9, <2>1, NothingKnown
<1> QED BY <1>7, <1>8

LEMMA EditKeepsIndex ==
  ASSUME IndexInvariant, NEW f \in Files, NEW v \in 0..newest + (IF newest < MaxVersion THEN 1 ELSE 0), Edit(f, v)
  PROVE  IndexInvariant'
<1> IndexTyped /\ Scheduled
  BY DEF IndexInvariant
<1>1. /\ moves < MaxMoves /\ moves' = moves + 1 /\ v # disk[f] /\ act' = Disturbed
      /\ trees' = [trees EXCEPT ![head][f] = v]
      /\ newest' = IF v > newest THEN v ELSE newest
      /\ UNCHANGED <<head, current, row, chunks, vectors, cache, dirty, saved, work, unembedded>>
  BY DEF Edit, Move, tables, hashes
<1>2. seen' = seen
         \cup (IF \E r \in Runs : work[r][f].st \in {"read", "stored"} THEN {"editUnderway"} ELSE {})
         \cup (IF \E r \in Runs : At(r, "compare") THEN {"listingStale"} ELSE {})
         \cup (IF v \in 1..newest THEN {"restored"} ELSE {})
  BY DEF Edit
<1>3. /\ seen \subseteq seen' /\ seen' \subseteq seen \cup {"editUnderway", "listingStale", "restored"}
      /\ "editUnderway" \notin seen' => \A r \in Runs : work[r][f].st \notin {"read", "stored"}
      /\ "listingStale" \notin seen' => \A r \in Runs : ~At(r, "compare")
      /\ "restored" \notin seen' => v \notin 1..newest
  BY <1>2
<1>4. /\ newest \in 0..MaxVersion /\ MaxVersion \in Nat /\ moves \in 0..MaxMoves /\ MaxMoves \in Nat
      /\ trees \in [Branches -> [Files -> 0..MaxVersion]] /\ head \in Branches
  BY TypedIndex, IndexAssumption
<1>5. /\ v \in 0..MaxVersion /\ newest' \in 0..MaxVersion /\ moves' \in 0..MaxMoves /\ newest <= newest' /\ v <= newest'
      /\ v \notin 1..newest /\ v # 0 => v > newest
  BY <1>1, <1>4
<1>6. /\ act' \in [Runs -> Progress]
      /\ \A r \in Runs :
           /\ ~act'[r].clean /\ act'[r].pc = act[r].pc /\ act'[r].kind = act[r].kind
           /\ act'[r].todo = act[r].todo /\ act'[r].snap = act[r].snap /\ act'[r].listed = act[r].listed
           /\ act'[r].failed = act[r].failed
  BY <1>1, DisturbedFacts
<1>7. /\ trees' \in [Branches -> [Files -> 0..MaxVersion]]
      /\ disk'[f] = v /\ \A g \in Files \ {f} : disk'[g] = disk[g]
      /\ \A b \in Branches, g \in Files : trees'[b][g] = trees[b][g] \/ trees'[b][g] = v
  <2> PICK t \in [Files -> 0..MaxVersion] : t = trees[head]
    BY <1>4
  <2> PICK u \in [Files -> 0..MaxVersion] : u = [t EXCEPT ![f] = v]
    BY <1>5
  <2>1. trees' = [trees EXCEPT ![head] = u]
    BY <1>1
  <2> QED BY <1>1, <1>4, <1>5, <2>1 DEF disk
<1>8. IndexTyped'
  BY <1>1, <1>5, <1>6, <1>7, TypedIndex, IndexIsTyped
<1>9. NoneNewer'
  <2>1. \A b \in Branches, g \in Files : trees[b][g] \in 0..MaxVersion /\ trees[b][g] <= newest
    BY <1>4 DEF IndexInvariant, NoneNewer
  <2>2. \A b \in Branches, g \in Files : trees'[b][g] <= newest'
    BY <1>4, <1>5, <1>7, <2>1
  <2>3. \A g \in Files : cache[g] \in 0..MaxVersion /\ saved[g] \in 0..MaxVersion /\ cache[g] <= newest /\ saved[g] <= newest
    BY TypedIndex DEF IndexInvariant, NoneNewer
  <2>4. \A r \in Runs, g \in Files : act[r].snap[g] \in 0..MaxVersion /\ act[r].snap[g] <= newest
    BY TypedIndex DEF IndexInvariant, NoneNewer, Progress
  <2>5. \A g \in Files : cache'[g] <= newest' /\ saved'[g] <= newest'
    BY <1>1, <1>4, <1>5, <2>3
  <2>6. \A r \in Runs, g \in Files : act'[r].snap[g] <= newest'
    BY <1>4, <1>5, <1>6, <2>4
  <2> QED BY <2>2, <2>5, <2>6 DEF NoneNewer
<1>10. Active' = Active
  BY <1>6 DEF Active, At
<1>11. Scheduled'
  <2>1. \A r \in Active : r \in Runs
    BY DEF Active
  <2>2. /\ \A r \in Runs : ~At(r, "process")' => act'[r].todo = {} /\ \A g \in Files : work'[r][g].st = "none"
        /\ \A r \in Runs : act'[r].pc \in {"idle", "compare"} => act'[r].kind = "refresh"
    BY <1>1, <1>6 DEF Scheduled, At
  <2>3. /\ "overlap" \notin seen' => \A r, q \in Active' : r = q
        /\ "rebuildOverlap" \notin seen' => \A r, q \in Active' : act'[r].kind = "rebuild" => r = q
        /\ "switch" \notin seen' => current' = head'
    BY <1>1, <1>3, <1>6, <1>10, <2>1 DEF Scheduled
  <2>4. \A r \in Runs : act'[r].kind = "rebuild" /\ act'[r].pc \in {"collect", "process", "save"} =>
          dirty' \/ (~act'[r].clean /\ "rebuildOverlap" \in seen')
    BY <1>1, <1>3, <1>6 DEF Scheduled
  <2>5. /\ \A r \in Runs : act'[r].pc \in {"idle", "collect", "compare"} => act'[r].failed = {}
        /\ "failed" \notin seen' => \A r \in Runs : act'[r].failed = {}
    BY <1>3, <1>6 DEF Scheduled
  <2> QED BY <1>6, <2>2, <2>3, <2>4, <2>5 DEF Scheduled
<1>12. /\ Sound' => ~Disordered'
       /\ Exact' => ~Disordered' /\ "crash" \notin seen' /\ "failed" \notin seen'
       /\ ~Disordered' => ~Disordered /\ Sound
       /\ Exact' => Exact
  <2>1. \A q \in Runs : ~Healing(q)'
    BY <1>6 DEF Healing
  <2>2. Disordered => Disordered'
    BY <1>3 DEF Disordered
  <2> QED BY <1>3, <2>1, <2>2 DEF Sound, Exact
<1>13. ~Disordered' => \A r \in Runs : work[r][f].st \notin {"read", "stored"}
  BY <1>3 DEF Disordered, Upset
<1>14. /\ \A g \in Files : \A u : (IsRow(g, u)' <=> IsRow(g, u)) /\ (Pending(g, u)' <=> Pending(g, u)) /\ (Kept(g, u)' <=> Kept(g, u))
       /\ Rebuilding' <=> Rebuilding
  BY <1>1, <1>6 DEF IsRow, Pending, Kept, Rebuilding
<1>15. ProcessedTrue'
  <2> SUFFICES ASSUME ~Disordered', NEW r \in Runs, NEW g \in Files
               PROVE  /\ work[r][g].st = "read" => work[r][g].ver = disk'[g]
                      /\ Stored(r, g) => disk'[g] # 0 /\ IsRow(g, disk'[g]) /\ (Kept(g, disk'[g]) \/ <<g, disk'[g]>> \in act[r].todo)
    BY <1>1, <1>6, <1>12 DEF ProcessedTrue, IsRow, Kept, Stored
  <2>1. CASE g = f
    BY <1>13, <2>1 DEF Stored
  <2>2. CASE g # f
    BY <1>7, <1>12, <2>2 DEF IndexInvariant, ProcessedTrue
  <2> QED BY <2>1, <2>2
<1>16. CacheExact'
  <2>1. \A g \in Files : Unsettled(g)' <=> Unsettled(g)
    BY <1>1, <1>6 DEF Unsettled, Stored
  <2> QED BY <1>1, <1>6, <1>12, <2>1 DEF IndexInvariant, CacheExact, IsRow, Kept, Pending
<1>17. CacheTrue'
  <2> SUFFICES ASSUME ~Disordered', NEW g \in Files, cache[g] # 0, cache[g] = disk'[g]
               PROVE  IsRow(g, disk'[g]) /\ ("overlap" \in seen' \/ Kept(g, disk'[g]) \/ Pending(g, disk'[g]))
    BY <1>1, <1>6, <1>12 DEF CacheTrue, IsRow, Kept, Pending
  <2>1. CASE g = f
    <3>1. v # 0 /\ cache[f] = v /\ cache[f] <= newest /\ cache[f] \in 0..MaxVersion
      BY <1>7, <2>1, TypedIndex DEF IndexInvariant, NoneNewer
    <3>2. "restored" \in seen'
      BY <1>3, <1>4, <1>5, <3>1
    <3>3. Exact /\ "failed" \notin seen
      BY <1>3, <1>12, <3>2 DEF Disordered, Exact
    <3>4. ~Unsettled(f)
      BY <1>13, <3>3 DEF Stored, Unsettled, Scheduled
    <3>5. IsRow(f, cache[f]) /\ (Kept(f, cache[f]) \/ Pending(f, cache[f]))
      BY <2>1, <3>3, <3>4 DEF IndexInvariant, CacheExact
    <3> QED BY <2>1, <3>5
  <2>2. CASE g # f
    BY <1>3, <1>7, <1>12, <2>2 DEF IndexInvariant, CacheTrue
  <2> QED BY <2>1, <2>2
<1>18. SavedTrue'
  <2> SUFFICES ASSUME ~Disordered', "restored" \notin seen', NEW g \in Files
               PROVE  /\ saved[g] # 0 /\ saved[g] = disk'[g] => Rebuilding' \/ Sure(g)'
                      /\ \A r \in Runs : At(r, "saving") /\ act[r].snap[g] # 0 /\ act[r].snap[g] = disk'[g] => Sure(g)'
    BY <1>1, <1>6 DEF SavedTrue, At
  <2>1. CASE g = f
    <3>1. v = 0 \/ v > newest
      BY <1>3, <1>5
    <3>2. saved[f] <= newest /\ saved[f] \in 0..MaxVersion
      BY TypedIndex DEF IndexInvariant, NoneNewer
    <3>3. \A r \in Runs : act[r].snap[f] <= newest /\ act[r].snap[f] \in 0..MaxVersion
      BY TypedIndex DEF IndexInvariant, NoneNewer, Progress
    <3>4. saved[f] # v \/ saved[f] = 0
      BY <1>4, <1>5, <3>1, <3>2
    <3>5. \A r \in Runs : act[r].snap[f] # v \/ act[r].snap[f] = 0
      BY <1>4, <1>5, <3>1, <3>3
    <3> QED BY <1>7, <2>1, <3>4, <3>5
  <2>2. CASE g # f
    <3>1. Sure(g) => Sure(g)'
      BY <1>1, <1>3, <1>7, <2>2 DEF Sure, IsRow, Kept
    <3> QED BY <1>3, <1>7, <1>12, <1>14, <2>2, <3>1 DEF IndexInvariant, SavedTrue
  <2> QED BY <2>1, <2>2
<1>19. ListedTrue'
  <2> SUFFICES ASSUME ~Disordered', NEW r \in Runs, At(r, "compare"), "restored" \notin seen',
                      NEW g \in Files, disk'[g] # 0, g \notin act[r].listed
               PROVE  saved[g] # disk'[g] /\ cache[g] # disk'[g]
    BY <1>1, <1>3, <1>6 DEF ListedTrue, At, Present
  <2>1. CASE g = f
    <3>1. v > newest
      BY <1>3, <1>5, <1>7, <2>1
    <3>2. saved[f] <= newest /\ saved[f] \in 0..MaxVersion /\ cache[f] <= newest /\ cache[f] \in 0..MaxVersion
      BY TypedIndex DEF IndexInvariant, NoneNewer
    <3>3. saved[f] # v /\ cache[f] # v
      BY <1>4, <1>5, <3>1, <3>2
    <3> QED BY <1>7, <2>1, <3>3
  <2>2. CASE g # f
    <3>1. g \in Present \ act[r].listed
      BY <1>7, <2>2 DEF Present
    <3> QED BY <1>3, <1>7, <1>12, <2>2, <3>1 DEF IndexInvariant, ListedTrue
  <2> QED BY <2>1, <2>2
<1>20. CleanRuns'
  BY <1>6 DEF CleanRuns
<1>21. DueTrue'
  <2> SUFFICES ASSUME "overlap" \notin seen PROVE DueTrue'
    BY <1>3 DEF DueTrue
  <2>1. /\ \A r \in Runs : At(r, "collect")' /\ act'[r].kind = "rebuild" => \A g \in Files : cache'[g] = 0
        /\ \A r \in Runs : At(r, "saving")' => act'[r].snap = cache'
    BY <1>1, <1>6 DEF IndexInvariant, DueTrue, At
  <2>2. ASSUME ~Disordered', "restored" \notin seen', NEW g \in Files PROVE Due(g)'
    <3>1. Due(g)
      BY <1>3, <1>12, <2>2 DEF IndexInvariant, DueTrue
    <3>2. CASE g = f
      <4>1. v = 0 \/ v > newest
        BY <1>3, <1>5, <2>2
      <4>2. saved[f] <= newest /\ saved[f] \in 0..MaxVersion /\ cache[f] <= newest /\ cache[f] \in 0..MaxVersion
        BY TypedIndex DEF IndexInvariant, NoneNewer
      <4>3. (saved[f] # v \/ saved[f] = 0) /\ (cache[f] # v \/ cache[f] = 0)
        BY <1>4, <1>5, <4>1, <4>2
      <4> QED BY <1>1, <1>7, <3>2, <4>3 DEF Due, NotKnown
    <3>3. CASE g # f
      BY <1>1, <1>7, <1>14, <3>1, <3>3 DEF Due, NotKnown, UnderWay
    <3> QED BY <3>2, <3>3
  <2> QED BY <2>1, <2>2 DEF DueTrue
<1> QED BY <1>8, <1>9, <1>11, <1>15, <1>16, <1>17, <1>18, <1>19, <1>20, <1>21 DEF IndexInvariant

LEMMA CrashKeeps ==
  ASSUME IndexInvariant, Crash
  PROVE  IndexInvariant'
<1> IndexTyped /\ Scheduled
  BY DEF IndexInvariant
<1>1. /\ moves < MaxMoves /\ moves' = moves + 1 /\ dirty' = FALSE /\ current' = head
      /\ act' = [r \in Runs |-> Idle] /\ work' = [r \in Runs |-> [f \in Files |-> Untouched]]
      /\ seen' = seen \cup {"crash"} \cup (IF \E r \in Active : act[r].kind = "rebuild" THEN {"rebuildCrash"} ELSE {})
      /\ UNCHANGED <<trees, head, newest, row, chunks, vectors, unembedded>>
  BY DEF Crash, Move, tables
<1> PICK old \in {saved} \cup UNION {{act[r].snap, Empty} : r \in {q \in Runs : At(q, "saving")}} :
      cache' = old /\ saved' = old
  BY DEF Crash
<1>2. \/ old = saved \/ old = Empty
      \/ \E r \in Runs : At(r, "saving") /\ old = act[r].snap
  OBVIOUS
<1>3. Empty \in [Files -> 0..MaxVersion] /\ \A g \in Files : Empty[g] = 0
  BY IndexAssumption DEF Empty
<1>4. old \in [Files -> 0..MaxVersion]
  BY <1>2, <1>3, TypedIndex DEF Progress
<1>5. moves' \in 0..MaxMoves
  <2>1. moves \in 0..MaxMoves /\ MaxMoves \in Nat
    BY TypedIndex, IndexAssumption
  <2> QED BY <1>1, <2>1
<1>6. /\ act' \in [Runs -> Progress] /\ work' \in [Runs -> [Files -> Processing]]
      /\ \A r \in Runs :
           /\ act'[r].pc = "idle" /\ act'[r].kind = "refresh" /\ act'[r].todo = {} /\ act'[r].snap = Empty /\ ~act'[r].clean
           /\ act'[r].failed = {}
           /\ \A g \in Files : work'[r][g].st = "none"
  <2>1. Untouched \in Processing /\ Untouched.st = "none"
    BY IndexAssumption DEF Untouched, Processing
  <2>2. Idle.pc = "idle" /\ Idle.kind = "refresh" /\ Idle.todo = {} /\ Idle.snap = Empty /\ Idle.clean = FALSE
        /\ Idle.failed = {}
    BY DEF Idle
  <2> QED BY <1>1, <2>1, <2>2, IdleTyped
<1>7. IndexTyped'
  BY <1>1, <1>4, <1>5, <1>6, TypedIndex, IndexIsTyped
<1>8. NoneNewer'
  <2>1. 0 <= newest
    BY TypedIndex, IndexAssumption
  <2>2. \A g \in Files : old[g] <= newest
    BY <1>2, <1>3, <2>1 DEF IndexInvariant, NoneNewer
  <2> QED BY <1>1, <1>3, <1>6, <2>1, <2>2 DEF IndexInvariant, NoneNewer
<1>9. Active' = {}
  BY <1>6 DEF Active, At
<1>10. Scheduled'
  BY <1>1, <1>6, <1>9 DEF Scheduled
<1>11. ~Sound' \/ ~Disordered'
  BY <1>6 DEF Sound, Healing
<1>12. ASSUME ~Disordered'
       PROVE  ~Disordered /\ current' = current /\ "restored" \notin seen /\ ~Rebuilding
  <2>1. ~Disordered /\ "restored" \notin seen /\ "switch" \notin seen /\ "rebuildCrash" \notin seen'
    BY <1>1, <1>12 DEF Disordered, Upset
  <2>2. ~Rebuilding
    BY <1>1, <2>1 DEF Rebuilding, Active, At
  <2> QED BY <1>1, <2>1, <2>2 DEF Scheduled
<1>13. ASSUME ~Disordered', NEW g \in Files, old[g] # 0, old[g] = disk[g] PROVE Sure(g)'
  <2>1. Sure(g)
    BY <1>2, <1>3, <1>12, <1>13 DEF IndexInvariant, SavedTrue
  <2> QED BY <1>1, <1>12, <1>13, <2>1 DEF Sure, IsRow, Kept, disk
<1>14. disk' = disk
  BY <1>1 DEF disk
<1>15. ProcessedTrue' /\ ListedTrue' /\ CleanRuns'
  BY <1>6 DEF ProcessedTrue, ListedTrue, CleanRuns, Stored, At
<1>16. CacheTrue'
  BY <1>11, <1>13, <1>14 DEF CacheTrue, Sure
<1>17. CacheExact'
  BY <1>1, <1>6 DEF CacheExact, Exact, Healing
<1>18. SavedTrue'
  BY <1>6, <1>13, <1>14 DEF SavedTrue, At
<1>19. DueTrue'
  <2>1. \A g \in Files : Due(g)'
    BY <1>1, <1>6, <1>14 DEF Due, UnderWay
  <2> QED BY <1>6, <2>1 DEF DueTrue, At
<1> QED BY <1>7, <1>8, <1>10, <1>15, <1>16, <1>17, <1>18, <1>19 DEF IndexInvariant
-----------------------------------------------------------------------------
LEMMA IndexBegins == Init => IndexInvariant
<1> SUFFICES ASSUME Init PROVE IndexInvariant
  OBVIOUS
<1>1. /\ trees = Trees /\ head = Main /\ current = Main /\ dirty = FALSE /\ moves = 0 /\ seen = {}
      /\ act = [r \in Runs |-> Idle] /\ work = [r \in Runs |-> [f \in Files |-> Untouched]]
  BY DEF Init
<1>2. /\ newest \in 0..MaxVersion /\ \A b \in Branches, f \in Files : Trees[b][f] <= newest
      /\ Main \in Branches /\ "none" \notin Branches /\ MaxVersion \in Nat /\ MaxMoves \in Nat
      /\ Trees \in [Branches -> [Files -> 0..MaxVersion]]
  BY IndexAssumption DEF Init
<1>3. /\ act \in [Runs -> Progress] /\ work \in [Runs -> [Files -> Processing]]
      /\ \A r \in Runs :
           /\ act[r].pc = "idle" /\ act[r].kind = "refresh" /\ act[r].todo = {} /\ act[r].snap = Empty /\ ~act[r].clean
           /\ act[r].failed = {}
           /\ \A g \in Files : work[r][g].st = "none"
  <2>1. Untouched \in Processing /\ Untouched.st = "none"
    BY IndexAssumption DEF Untouched, Processing
  <2>2. Idle.pc = "idle" /\ Idle.kind = "refresh" /\ Idle.todo = {} /\ Idle.snap = Empty /\ Idle.clean = FALSE
        /\ Idle.failed = {}
    BY DEF Idle
  <2> QED BY <1>1, <2>1, <2>2, IdleTyped
<1>4. disk \in [Files -> 0..MaxVersion] /\ \A f \in Files : disk[f] <= newest
  BY <1>1, <1>2 DEF disk
<1>5. Empty \in [Files -> 0..MaxVersion] /\ \A g \in Files : Empty[g] = 0
  BY <1>2 DEF Empty
<1>6. /\ row \in [Files -> [branch : Branches, ver : 1..MaxVersion] \cup {NoRow}]
      /\ chunks \in [Files -> [1..MaxVersion -> Branches \cup {"none"}]]
      /\ cache \in [Files -> 0..MaxVersion] /\ saved = cache
      /\ vectors \subseteq Versions /\ unembedded \subseteq Versions
      /\ \A f \in Files :
           /\ cache[f] = 0 \/ cache[f] = disk[f]
           /\ cache[f] = 0 => row[f].branch # current
           /\ cache[f] # 0 => IsRow(f, disk[f]) /\ Kept(f, disk[f])
  <2>1. CASE /\ row = [f \in Files |-> NoRow]
             /\ chunks = [f \in Files |-> [v \in 1..MaxVersion |-> "none"]]
             /\ cache = Empty /\ saved = Empty /\ vectors = {} /\ unembedded = {}
    BY <1>1, <1>2, <1>5, <2>1 DEF NoRow
  <2>2. CASE /\ row = [f \in Files |-> IF f \in Present THEN [branch |-> Main, ver |-> disk[f]] ELSE NoRow]
             /\ chunks = [f \in Files |-> [v \in 1..MaxVersion |-> IF v = disk[f] THEN Main ELSE "none"]]
             /\ cache = disk /\ saved = disk
             /\ vectors \in {{}, {<<f, disk[f]>> : f \in Present}}
             /\ unembedded = {<<f, disk[f]>> : f \in Present} \ vectors
    <3>1. \A f \in Present : f \in Files /\ disk[f] \in 1..MaxVersion
      BY <1>2, <1>4 DEF Present
    <3>2. {<<f, disk[f]>> : f \in Present} \subseteq Versions
      BY <3>1 DEF Versions
    <3>3. vectors \subseteq Versions /\ unembedded \subseteq Versions
      BY <2>2, <3>2
    <3>4. row \in [Files -> [branch : Branches, ver : 1..MaxVersion] \cup {NoRow}]
      BY <1>2, <2>2, <3>1
    <3>5. chunks \in [Files -> [1..MaxVersion -> Branches \cup {"none"}]]
      BY <1>2, <2>2
    <3>6. \A f \in Files : cache[f] = 0 => row[f].branch # current
      BY <1>1, <1>2, <2>2 DEF Present, NoRow
    <3>7. ASSUME NEW f \in Files, cache[f] # 0 PROVE IsRow(f, disk[f]) /\ Kept(f, disk[f])
      <4>1. f \in Present
        BY <2>2, <3>7 DEF Present
      <4>2. IsRow(f, disk[f])
        BY <1>1, <2>2, <3>1, <4>1 DEF IsRow
      <4>3. <<f, disk[f]>> \in vectors \cup unembedded
        BY <2>2, <4>1
      <4> QED BY <4>2, <4>3 DEF Kept
    <3> QED BY <1>4, <2>2, <3>3, <3>4, <3>5, <3>6, <3>7
  <2> QED BY <2>1, <2>2 DEF Init
<1>7. IndexTyped
  <2>1. /\ trees \in [Branches -> [Files -> 0..MaxVersion]] /\ head \in Branches /\ current \in Branches
        /\ dirty \in BOOLEAN /\ moves \in 0..MaxMoves /\ newest \in 0..MaxVersion
    <3>1. moves \in 0..MaxMoves
      <4>1. moves = 0 /\ MaxMoves \in Nat
        BY <1>1, <1>2
      <4> QED BY <4>1
    <3>2. trees \in [Branches -> [Files -> 0..MaxVersion]] /\ head \in Branches /\ current \in Branches /\ dirty \in BOOLEAN
      <4>1. trees = Trees /\ head = Main /\ current = Main /\ dirty = FALSE
        BY <1>1
      <4>2. Trees \in [Branches -> [Files -> 0..MaxVersion]] /\ Main \in Branches
        BY <1>2
      <4> QED BY <4>1, <4>2
    <3> QED BY <1>2, <3>1, <3>2
  <2>2. \A r \in Runs : act[r] \in Progress
    BY <1>3
  <2>3. TypeOK
    BY <1>3, <1>6, <2>1, <2>2 DEF TypeOK, Progress, Versions
  <2> QED BY <1>3, <2>3 DEF IndexTyped
<1>8. NoneNewer
  <2>1. 0 <= newest
    BY <1>2
  <2>2. \A f \in Files : cache[f] <= newest
    BY <1>4, <1>6, <2>1
  <2> QED BY <1>1, <1>2, <1>3, <1>5, <1>6, <2>1, <2>2 DEF NoneNewer
<1>9. Active = {}
  BY <1>3 DEF Active, At
<1>10. Scheduled
  BY <1>1, <1>3, <1>9 DEF Scheduled, At
<1>11. ProcessedTrue /\ ListedTrue /\ CleanRuns
  BY <1>3 DEF ProcessedTrue, ListedTrue, CleanRuns, Stored, At
<1>12. CacheTrue /\ CacheExact
  BY <1>6 DEF CacheTrue, CacheExact
<1>13. SavedTrue
  BY <1>3, <1>6 DEF SavedTrue, Sure, At
<1>14. DueTrue
  BY <1>3, <1>6 DEF DueTrue, Due, UnderWay, At
<1> QED BY <1>7, <1>8, <1>10, <1>11, <1>12, <1>13, <1>14 DEF IndexInvariant

LEMMA IndexStep == IndexInvariant /\ [Next]_vars => IndexInvariant'
<1> SUFFICES ASSUME IndexInvariant, [Next]_vars PROVE IndexInvariant'
  OBVIOUS
<1>1. CASE UNCHANGED vars
  <2>1. /\ UNCHANGED <<trees, head, newest, current, row, chunks, vectors, cache, dirty, saved, act, work, moves, unembedded, seen>>
    BY <1>1 DEF vars, world, tables, hashes, ghosts
  <2>2. /\ disk' = disk /\ Present' = Present /\ Active' = Active
        /\ Disordered' <=> Disordered
        /\ Sound' <=> Sound
        /\ Exact' <=> Exact
        /\ Rebuilding' <=> Rebuilding
        /\ \A f \in Files : Sure(f)' <=> Sure(f)
        /\ \A r \in Runs : CleanRun(r)' <=> CleanRun(r)
        /\ \A f \in Files : (Due(f)' <=> Due(f)) /\ (Unsettled(f)' <=> Unsettled(f))
    BY <2>1 DEF disk, Present, Active, At, Disordered, Sound, Exact, Healing, Rebuilding, Sure, IsRow, Kept, CleanRun,
                InHand, Settled, Known, Owed, UnderWay, Due, NotKnown, Unsettled, Stored
  <2>3. IndexTyped' /\ NoneNewer' /\ Scheduled'
    <3>1. IndexTyped'
      <4>1. IndexTyped
        BY DEF IndexInvariant
      <4> QED BY <2>1, <4>1, TypedIndex, IndexIsTyped
    <3>2. NoneNewer'
      BY <2>1 DEF IndexInvariant, NoneNewer
    <3>3. Scheduled'
      BY <2>1, <2>2 DEF IndexInvariant, Scheduled, At
    <3> QED BY <3>1, <3>2, <3>3
  <2>4. ProcessedTrue' /\ CacheTrue' /\ CacheExact'
    BY <2>1, <2>2 DEF IndexInvariant, ProcessedTrue, CacheTrue, CacheExact, IsRow, Kept, Pending, Stored
  <2>5. SavedTrue' /\ DueTrue' /\ ListedTrue' /\ CleanRuns'
    BY <2>1, <2>2 DEF IndexInvariant, SavedTrue, DueTrue, ListedTrue, CleanRuns, At
  <2> QED BY <2>3, <2>4, <2>5 DEF IndexInvariant
<1>2. CASE Next
  <2>1. CASE \E r \in Runs : Refresh(r) \/ Rebuild(r) \/ Collect(r) \/ Compare(r)
    BY <2>1, RefreshKeeps, RebuildKeeps, CollectKeeps, CompareKeeps
  <2>2. CASE \E r \in Runs : Embed(r) \/ SaveBegins(r) \/ SaveEnds(r) \/ Return(r)
    BY <2>2, EmbedKeeps, SaveBeginsKeeps, SaveEndsKeeps, ReturnKeeps
  <2>3. CASE \E r \in Runs, f \in Files : Process(r, f)
    BY <2>3, ReadKeeps, StoreKeeps, StampKeeps, FileFailsKeeps DEF Process
  <2>4. CASE \E f \in Files, v \in 0..newest + (IF newest < MaxVersion THEN 1 ELSE 0) : Edit(f, v)
    BY <2>4, EditKeepsIndex
  <2>5. CASE (\E b \in Branches : Switch(b)) \/ Poll \/ Crash
    BY <2>5, SwitchKeeps, PollKeeps, CrashKeeps
  <2> QED BY <1>2, <2>1, <2>2, <2>3, <2>4, <2>5 DEF Next
<1> QED BY <1>1, <1>2

LEMMA IndexedFromInvariant == IndexInvariant => SkippedIsIndexed
<1> SUFFICES ASSUME IndexInvariant PROVE SkippedIsIndexed
  OBVIOUS
<1>1. SkippedNow
  <2> SUFFICES ASSUME ~Disordered, NEW f \in Present, cache[f] = disk[f]
               PROVE  /\ Indexed(f)
                      /\ Embedded(f) \/ "overlap" \in seen \/ \E r \in Runs : <<f, disk[f]>> \in act[r].todo
    BY DEF SkippedNow
  <2>1. f \in Files /\ disk[f] # 0
    BY DEF Present
  <2>2. IsRow(f, disk[f]) /\ ("overlap" \in seen \/ Kept(f, disk[f]) \/ Pending(f, disk[f]))
    BY <2>1 DEF IndexInvariant, CacheTrue, Sound
  <2> QED BY <2>2 DEF IsRow, Kept, Pending, Indexed, Embedded
<1>2. SkippedAfterRestart
  <2> SUFFICES ASSUME seen \cap (Upset \cup {"overlap", "restored"}) = {}, NEW f \in Present, saved[f] = disk[f]
               PROVE  (Indexed(f) /\ Embedded(f)) \/ \E r \in Active : act[r].kind = "rebuild"
    BY DEF SkippedAfterRestart
  <2>1. f \in Files /\ disk[f] # 0
    BY DEF Present
  <2>2. ~Disordered /\ "restored" \notin seen /\ "overlap" \notin seen
    BY DEF Disordered
  <2>3. Rebuilding \/ Sure(f)
    BY <2>1, <2>2 DEF IndexInvariant, SavedTrue
  <2>4. Rebuilding => \E r \in Active : act[r].kind = "rebuild"
    BY DEF Rebuilding, Active, At
  <2> QED BY <2>2, <2>3, <2>4 DEF Sure, IsRow, Kept, Indexed, Embedded
<1> QED BY <1>1, <1>2 DEF SkippedIsIndexed

(* When a run that nobody disturbed is done, every file is settled.        *)
LEMMA DoneIsUpToDate ==
  ASSUME IndexInvariant, NEW r \in Runs, At(r, "returned"), act[r].clean, act[r].kind = "rebuild" \/ ~Disordered
  PROVE  /\ \A f \in Files : Settled(r, f)
         /\ act[r].kind = "rebuild" => saved = cache
         /\ \A f \in Present \ act[r].failed : Indexed(f)
         /\ Exact => \A f \in Files \ Present : row[f].branch # current
<1>1. CleanRun(r) /\ Active = {r} /\ Sound
  BY DEF IndexInvariant, CleanRuns, Scheduled, Sound, Healing
<1>2. /\ \A f \in Files : Settled(r, f)
      /\ act[r].kind = "rebuild" => saved = cache
  BY <1>1 DEF CleanRun, At
<1>3. ASSUME NEW f \in Present \ act[r].failed PROVE Indexed(f)
  <2>1. f \in Files /\ disk[f] # 0
    BY DEF Present
  <2>2. cache[f] = disk[f]
    BY <1>2, <2>1 DEF Settled, Known
  <2> QED BY <1>1, <2>1, <2>2 DEF IndexInvariant, CacheTrue, IsRow, Indexed
<1>4. ASSUME Exact, NEW f \in Files \ Present PROVE row[f].branch # current
  <2>1. cache[f] = 0 /\ f \notin act[r].failed
    BY <1>2 DEF Present, Settled, Known, Owed
  <2>2. ~Unsettled(f)
    <3>1. \A q \in Runs \ {r} : act[q].pc = "idle"
      BY <1>1 DEF Active, At
    <3>2. \A q \in Runs : ~At(q, "process") /\ f \notin act[q].failed
      BY <2>1, <3>1 DEF IndexInvariant, Scheduled, At
    <3> QED BY <3>2 DEF IndexInvariant, Scheduled, Stored, Unsettled
  <2> QED BY <1>4, <2>1, <2>2 DEF IndexInvariant, CacheExact
<1> QED BY <1>2, <1>3, <1>4

LEMMA RefreshFromInvariant == IndexInvariant => RefreshCatchesUp
<1> SUFFICES ASSUME IndexInvariant, NEW r \in Runs, At(r, "returned"), act[r].kind = "refresh", act[r].clean, ~Disordered
             PROVE  UpToDate(act[r].failed) /\ act[r].failed \subseteq Changed(Present)
  BY DEF RefreshCatchesUp
<1>1. seen \cap {"crash", "failed"} # {} \/ Exact
  BY DEF Exact
<1>2. act[r].failed \subseteq Changed(Present)
  <2> SUFFICES ASSUME NEW f \in act[r].failed PROVE f \in Changed(Present)
    OBVIOUS
  <2>1. f \in Files
    BY TypedIndex DEF IndexInvariant, Progress
  <2>2. disk[f] # 0 /\ cache[f] # disk[f]
    BY <2>1, DoneIsUpToDate DEF Settled, Known, Owed
  <2> QED BY <2>1, <2>2 DEF Changed, Present
<1> QED BY <1>1, <1>2, DoneIsUpToDate DEF UpToDate

LEMMA RebuildFromInvariant == IndexInvariant => RebuildHeals
<1> SUFFICES ASSUME IndexInvariant, NEW r \in Runs, At(r, "returned"), act[r].kind = "rebuild", act[r].clean
             PROVE  /\ UpToDate(act[r].failed) /\ \A f \in Files \ Present : row[f].branch # current
                    /\ cache = [f \in Files |-> IF f \in act[r].failed THEN 0 ELSE disk[f]] /\ saved = cache
  BY DEF RebuildHeals
<1>1. Exact
  BY DEF Exact, Healing
<1>2. \A f \in Files : cache[f] = IF f \in act[r].failed THEN 0 ELSE disk[f]
  BY DoneIsUpToDate DEF Settled, Known, Owed
<1>3. cache = [f \in Files |-> IF f \in act[r].failed THEN 0 ELSE disk[f]]
  <2>1. cache \in [Files -> 0..MaxVersion]
    BY TypedIndex DEF IndexInvariant
  <2> QED BY <1>2, <2>1
<1> QED BY <1>1, <1>3, DoneIsUpToDate DEF UpToDate

LEMMA IndexInvariantHolds == Spec => []IndexInvariant
BY IndexBegins, IndexStep, PTL DEF Spec

(* A file whose hash is in the cache, or in the cache file after a crash,  *)
(* has its symbols, chunks and embeddings, as long as nothing has happened *)
(* that refresh and rebuild (index-manager.ts) are not protected from.     *)
THEOREM SkippedFilesAreIndexed == Spec => []SkippedIsIndexed
BY IndexInvariantHolds, IndexedFromInvariant, PTL

(* A refresh that nobody disturbed leaves the symbols and chunks of the    *)
(* current branch equal to the disk, but for the files it failed on, and   *)
(* those the next refresh takes up (refresh, index-manager.ts).            *)
THEOREM RefreshIsComplete == Spec => []RefreshCatchesUp
BY IndexInvariantHolds, RefreshFromInvariant, PTL

(* A rebuild that nobody disturbed makes the index, the cache and its file *)
(* equal to the disk, whatever happened before, but for the files it       *)
(* failed on, which it leaves out of the cache (rebuild, index-manager.ts). *)
THEOREM RebuildIsComplete == Spec => []RebuildHeals
BY IndexInvariantHolds, RebuildFromInvariant, PTL
=============================================================================
