----------------------------- MODULE CodeIndex ------------------------------
(***************************************************************************)
(* The code index, src/packages/code-intel/src/indexing: refresh and       *)
(* rebuild (index-manager.ts), which the tools code_intel_refresh and      *)
(* code_intel_rebuild may run at once, the hash cache that says which      *)
(* files are unchanged (fast-sync-cache.ts), the branch poll               *)
(* (branch-manager.ts) and the embedding of chunks (batch-processor.ts),   *)
(* while files are edited and branches are switched under it.              *)
(* Left out: edges, keywords, full-text rows and file records, written and *)
(* deleted beside the symbols; the semaphore, wider than a run's files     *)
(* here; the watcher, which nothing starts.                                *)
(***************************************************************************)
EXTENDS Integers, FiniteSets

CONSTANTS
  Files, Branches,
  Main,        \* the branch checked out at first
  Trees,       \* branch -> file -> content, 0 where the file is absent
  Runs,        \* runs that may be under way at once
  MaxVersion,  \* bound: contents; an edit takes the next one or an old one
  MaxMoves     \* bound: runs begun, files failed, edits, switches and crashes

ASSUME IndexAssumption ==
  /\ Main \in Branches /\ "none" \notin Branches
  /\ Trees \in [Branches -> [Files -> 0..MaxVersion]]
  /\ MaxVersion \in Nat /\ MaxMoves \in Nat

VARIABLES
  trees,    \* the files of each branch
  head,     \* the branch checked out
  current,  \* currentBranch of the index manager
  row,      \* file -> its symbols: branch and content, keyed by an id without branch
  chunks,   \* file -> content -> the branch its chunks belong to
  vectors,  \* file and content of the chunks that have embeddings
  cache,    \* file -> content hashed in the sync cache, 0 if none
  dirty,    \* the cache differs from its file
  saved,    \* file -> content in the cache file
  act,      \* run -> its progress
  work,     \* run -> file -> its processing
  newest,   \* the newest content
  moves,    \* runs begun, files failed, edits, switches and crashes
  unembedded, \* chunks whose embedding has failed
  seen      \* what has happened to the index that it does not guard against

tables == <<row, chunks, vectors>>
hashes == <<cache, dirty, saved>>
world == <<trees, head, newest>>
ghosts == <<unembedded, seen>>
vars == <<world, current, tables, hashes, act, work, moves, ghosts>>

disk == trees[head]
Present == {f \in Files : disk[f] # 0}
NoRow == [branch |-> "none", ver |-> 0]
Empty == [f \in Files |-> 0]
Untouched == [st |-> "none", ver |-> 0]
Idle == [pc |-> "idle", kind |-> "refresh", listed |-> {}, todo |-> {}, snap |-> Empty, clean |-> FALSE,
         failed |-> {}]

(* The process has just started: nothing is indexed yet, or an earlier one *)
(* has indexed the files, with or without their embeddings.                *)
Init ==
  /\ trees = Trees /\ head = Main /\ current = Main /\ dirty = FALSE
  /\ \/ /\ row = [f \in Files |-> NoRow]
        /\ chunks = [f \in Files |-> [v \in 1..MaxVersion |-> "none"]]
        /\ cache = Empty /\ saved = Empty /\ vectors = {} /\ unembedded = {}
     \/ /\ row = [f \in Files |-> IF f \in Present THEN [branch |-> Main, ver |-> disk[f]] ELSE NoRow]
        /\ chunks = [f \in Files |-> [v \in 1..MaxVersion |-> IF v = disk[f] THEN Main ELSE "none"]]
        /\ cache = disk /\ saved = disk
        /\ vectors \in {{}, {<<f, disk[f]>> : f \in Present}}
        /\ unembedded = {<<f, disk[f]>> : f \in Present} \ vectors
  /\ act = [r \in Runs |-> Idle]
  /\ work = [r \in Runs |-> [f \in Files |-> Untouched]]
  /\ newest \in {v \in 0..MaxVersion :
       /\ \A b \in Branches, f \in Files : Trees[b][f] <= v
       /\ \E b \in Branches, f \in Files : Trees[b][f] = v}
  /\ moves = 0 /\ seen = {}

-----------------------------------------------------------------------------
At(r, pc) == act[r].pc = pc
Move == moves < MaxMoves /\ moves' = moves + 1
Active == {r \in Runs : ~At(r, "idle")}
Others(r) == Active \ {r}

(* deleteByFilePath and upsertMany of chunks.                              *)
WithoutChunks(f, b) == [v \in 1..MaxVersion |-> IF chunks[f][v] = b THEN "none" ELSE chunks[f][v]]

(* A run begins: those under way are no longer alone.                      *)
Start(r, kind) ==
  /\ At(r, "idle") /\ Move
  /\ act' = [q \in Runs |->
       IF q = r THEN [Idle EXCEPT !.pc = "collect", !.kind = kind,
                                  !.clean = (Others(r) = {} /\ current = head)]
       ELSE [act[q] EXCEPT !.clean = FALSE]]
  /\ seen' = seen \cup (IF Others(r) = {} THEN {} ELSE {"overlap"})
                  \cup (IF \E q \in Others(r) : "rebuild" \in {kind, act[q].kind}
                        THEN {"rebuildOverlap"} ELSE {})

Refresh(r) ==
  /\ Start(r, "refresh")
  /\ UNCHANGED <<world, current, tables, hashes, work, unembedded>>

(* Mutant of Rebuild: the cache is not cleared.                            *)
RebuildKeepingCache(r) ==
  /\ Start(r, "rebuild")
  /\ row' = [f \in Files |-> IF row[f].branch = current THEN NoRow ELSE row[f]]
  /\ UNCHANGED <<world, current, chunks, vectors, hashes, work, unembedded>>

(* rebuild clears the symbols of the branch and the cache, not the chunks. *)
Rebuild(r) ==
  /\ Start(r, "rebuild")
  /\ row' = [f \in Files |-> IF row[f].branch = current THEN NoRow ELSE row[f]]
  /\ cache' = Empty /\ dirty' = TRUE
  /\ UNCHANGED <<world, current, chunks, vectors, saved, work, unembedded>>

(* collectFiles                                                            *)
Collect(r) ==
  /\ At(r, "collect")
  /\ act' = [act EXCEPT ![r] = IF @.kind = "refresh" THEN [@ EXCEPT !.pc = "compare", !.listed = Present]
                               ELSE [@ EXCEPT !.pc = "process"]]
  /\ work' = IF act[r].kind = "refresh" THEN work
             ELSE [work EXCEPT ![r] = [f \in Files |->
                     [Untouched EXCEPT !.st = IF f \in Present THEN "todo" ELSE "none"]]]
  /\ UNCHANGED <<world, current, tables, hashes, moves, ghosts>>

(* Mutant of Changed: files the cache does not know are not looked at.     *)
ChangedKnown(listed) == {f \in listed : cache[f] # 0 /\ disk[f] # 0 /\ disk[f] # cache[f]}

(* findChangedFiles, which an edit precedes or follows file by file, and   *)
(* the removal of what is gone.                                            *)
Changed(listed) == {f \in listed : cache[f] = 0 \/ (disk[f] # 0 /\ disk[f] # cache[f])}

Removed(listed) == {f \in Files : cache[f] # 0} \ listed

Compare(r) ==
  LET gone == Removed(act[r].listed)
      new == Changed(act[r].listed)
  IN /\ At(r, "compare")
     /\ row' = [f \in Files |-> IF f \in gone /\ row[f].branch = current THEN NoRow ELSE row[f]]
     /\ cache' = [f \in Files |-> IF f \in gone THEN 0 ELSE cache[f]]
     /\ dirty' = (dirty \/ gone # {})
     /\ work' = [work EXCEPT ![r] = [f \in Files |->
          [Untouched EXCEPT !.st = IF f \in new THEN "todo" ELSE "none"]]]
     /\ act' = [act EXCEPT ![r].pc = "process", ![r].listed = {}]
     /\ UNCHANGED <<world, current, chunks, vectors, saved, moves, ghosts>>

-----------------------------------------------------------------------------
(* processFileInternal                                                     *)
Doing(r, f, st) == At(r, "process") /\ work[r][f].st = st

Read(r, f) ==
  /\ Doing(r, f, "todo")
  /\ work' = [work EXCEPT ![r][f] =
       IF disk[f] = 0 THEN [@ EXCEPT !.st = "done"] ELSE [@ EXCEPT !.st = "read", !.ver = disk[f]]]
  /\ UNCHANGED <<world, current, tables, hashes, act, moves, ghosts>>

(* Mutant of Store: the extractor is not given the branch.                 *)
StoreUnbranched(r, f) ==
  LET v == work[r][f].ver
      reuse == chunks[f][v] = current /\ <<f, v>> \in vectors
  IN /\ Doing(r, f, "read")
     /\ row' = [row EXCEPT ![f] = [branch |-> NoRow.branch, ver |-> v]]
     /\ chunks' = [chunks EXCEPT ![f] = [WithoutChunks(f, current) EXCEPT ![v] = current]]
     /\ work' = [work EXCEPT ![r][f] = [Untouched EXCEPT !.st = "stored"]]
     /\ act' = IF reuse THEN act ELSE [act EXCEPT ![r].todo = @ \cup {<<f, v>>}]
     /\ UNCHANGED <<world, current, vectors, hashes, moves, ghosts>>

(* Mutant of Store: the old rows go after the new ones are written.        *)
StoreThenDelete(r, f) ==
  LET v == work[r][f].ver
  IN /\ Doing(r, f, "read")
     /\ row' = [row EXCEPT ![f] = NoRow]
     /\ chunks' = [chunks EXCEPT ![f] = WithoutChunks(f, current)]
     /\ work' = [work EXCEPT ![r][f] = [Untouched EXCEPT !.st = "stored"]]
     /\ act' = [act EXCEPT ![r].todo = @ \cup {<<f, v>>}]
     /\ UNCHANGED <<world, current, vectors, hashes, moves, ghosts>>

(* Old rows of the current branch go, new ones are written (the awaits of  *)
(* the extractors are not for I/O); a chunk whose old row had an embedding *)
(* keeps it, the others wait for phase B.                                  *)
Store(r, f) ==
  LET v == work[r][f].ver
      reuse == chunks[f][v] = current /\ <<f, v>> \in vectors
  IN /\ Doing(r, f, "read")
     /\ row' = [row EXCEPT ![f] = [branch |-> current, ver |-> v]]
     /\ chunks' = [chunks EXCEPT ![f] = [WithoutChunks(f, current) EXCEPT ![v] = current]]
     /\ work' = [work EXCEPT ![r][f] = [Untouched EXCEPT !.st = "stored"]]
     /\ act' = IF reuse THEN act ELSE [act EXCEPT ![r].todo = @ \cup {<<f, v>>}]
     /\ UNCHANGED <<world, current, vectors, hashes, moves, ghosts>>

(* updateEntry hashes the file as it is now.                               *)
Stamp(r, f) ==
  /\ Doing(r, f, "stored")
  /\ cache' = [cache EXCEPT ![f] = disk[f]] /\ dirty' = TRUE
  /\ work' = [work EXCEPT ![r][f] = [Untouched EXCEPT !.st = "done"]]
  /\ UNCHANGED <<world, current, tables, saved, act, moves, ghosts>>

(* What may be left of a file that fails once it was read: nothing has     *)
(* changed, the old symbols are gone, or the old chunks too, or the new    *)
(* symbols are written, or all of it is, but nothing waits for phase B.    *)
Partly(f, v) ==
  LET gone == IF row[f].branch = current THEN NoRow ELSE row[f]
      bare == WithoutChunks(f, current)
      new == [branch |-> current, ver |-> v]
  IN {<<row[f], chunks[f]>>, <<gone, chunks[f]>>, <<gone, bare>>, <<new, bare>>,
      <<new, [bare EXCEPT ![v] = current]>>}

(* An error is caught, the file is left as it is without a hash, and the   *)
(* run goes on; or updateEntry cannot hash or find what was stored.  A file *)
(* that cannot be read, or hashed when it is compared, has nothing changed. *)
ProcessFails(r, f) ==
  /\ At(r, "process") /\ Move
  /\ \/ /\ work[r][f].st = "read"
        /\ \E left \in Partly(f, work[r][f].ver) :
             row' = [row EXCEPT ![f] = left[1]] /\ chunks' = [chunks EXCEPT ![f] = left[2]]
        /\ UNCHANGED <<cache, dirty>>
     \/ /\ work[r][f].st = "stored"
        /\ \/ UNCHANGED <<cache, dirty>>
           \/ cache' = [cache EXCEPT ![f] = 0] /\ dirty' = TRUE
        /\ UNCHANGED <<row, chunks>>
  /\ work' = [work EXCEPT ![r][f] = [Untouched EXCEPT !.st = "done"]]
  /\ act' = [act EXCEPT ![r].failed = @ \cup {f}]
  /\ seen' = seen \cup {"failed"}
  /\ UNCHANGED <<world, current, vectors, saved, unembedded>>

Process(r, f) == Read(r, f) \/ Store(r, f) \/ Stamp(r, f) \/ ProcessFails(r, f)

Processed(r) == At(r, "process") /\ \A f \in Files : work[r][f].st \in {"none", "done"}

(* Phase B: the batches that fail after their retries are left out, and    *)
(* the run goes on without their embeddings.                               *)
Embed(r) ==
  /\ Processed(r)
  /\ \E failed \in SUBSET act[r].todo :
       /\ vectors' = vectors \cup (act[r].todo \ failed)
       /\ unembedded' = unembedded \cup failed
  /\ act' = [act EXCEPT ![r].todo = {}, ![r].pc = "save"]
  /\ work' = [work EXCEPT ![r] = [f \in Files |-> Untouched]]
  /\ UNCHANGED <<world, current, row, chunks, hashes, moves, seen>>

(* save writes what the cache holds now and clears dirty when it is        *)
(* written, also what became dirty meanwhile.                              *)
SaveBegins(r) ==
  /\ At(r, "save")
  /\ act' = IF dirty THEN [act EXCEPT ![r].snap = cache, ![r].pc = "saving"]
            ELSE [act EXCEPT ![r].pc = "returned"]
  /\ UNCHANGED <<world, current, tables, hashes, work, moves, ghosts>>

SaveEnds(r) ==
  /\ At(r, "saving")
  /\ saved' = act[r].snap /\ dirty' = FALSE
  /\ act' = [act EXCEPT ![r].pc = "returned", ![r].snap = Empty]
  /\ UNCHANGED <<world, current, tables, cache, work, moves, ghosts>>

(* The tool answers.  A rebuild nobody disturbed makes good what happened  *)
(* before it, but for the files it failed on.                              *)
Return(r) ==
  /\ At(r, "returned")
  /\ act' = [act EXCEPT ![r] = Idle]
  /\ seen' = IF act[r].kind = "rebuild" /\ act[r].clean
             THEN IF act[r].failed = {} THEN {} ELSE {"failed"}
             ELSE seen
  /\ UNCHANGED <<world, current, tables, hashes, work, moves, unembedded>>

-----------------------------------------------------------------------------
(* Somebody writes, deletes or restores a file of the branch checked out.  *)
Disturbed == [r \in Runs |-> [act[r] EXCEPT !.clean = FALSE]]

Edit(f, v) ==
  /\ Move /\ v # disk[f]
  /\ trees' = [trees EXCEPT ![head][f] = v]
  /\ newest' = IF v > newest THEN v ELSE newest
  /\ act' = Disturbed
  /\ seen' = seen
       \cup (IF \E r \in Runs : work[r][f].st \in {"read", "stored"} THEN {"editUnderway"} ELSE {})
       \cup (IF \E r \in Runs : At(r, "compare") THEN {"listingStale"} ELSE {})
       \cup (IF v \in 1..newest THEN {"restored"} ELSE {})
  /\ UNCHANGED <<head, current, tables, hashes, work, unembedded>>

Switch(b) ==
  /\ Move /\ b # head
  /\ head' = b
  /\ act' = Disturbed
  /\ seen' = seen \cup {"switch"}
  /\ UNCHANGED <<trees, newest, current, tables, hashes, work, unembedded>>

(* checkForBranchChange, every two seconds.                                *)
Poll ==
  /\ current # head /\ current' = head
  /\ UNCHANGED <<world, tables, hashes, act, work, moves, ghosts>>

(* The process ends; the next one loads the cache file, which a write may  *)
(* have left old, new, or unreadable, and reads the branch.                *)
Crash ==
  /\ Move
  /\ \E old \in {saved} \cup UNION {{act[r].snap, Empty} : r \in {q \in Runs : At(q, "saving")}} :
       cache' = old /\ saved' = old
  /\ dirty' = FALSE /\ current' = head
  /\ act' = [r \in Runs |-> Idle]
  /\ work' = [r \in Runs |-> [f \in Files |-> Untouched]]
  /\ seen' = seen \cup {"crash"}
             \cup (IF \E r \in Active : act[r].kind = "rebuild" THEN {"rebuildCrash"} ELSE {})
  /\ UNCHANGED <<trees, head, newest, tables, unembedded>>

Next ==
  \/ \E r \in Runs :
       \/ Refresh(r) \/ Rebuild(r) \/ Collect(r) \/ Compare(r)
       \/ Embed(r) \/ SaveBegins(r) \/ SaveEnds(r) \/ Return(r)
       \/ \E f \in Files : Process(r, f)
  \/ \E f \in Files, v \in 0..newest + (IF newest < MaxVersion THEN 1 ELSE 0) : Edit(f, v)
  \/ \E b \in Branches : Switch(b)
  \/ Poll \/ Crash

Spec == Init /\ [][Next]_vars

-----------------------------------------------------------------------------
TypeOK ==
  /\ trees \in [Branches -> [Files -> 0..MaxVersion]] /\ head \in Branches /\ current \in Branches
  /\ row \in [Files -> [branch : Branches, ver : 1..MaxVersion] \cup {NoRow}]
  /\ chunks \in [Files -> [1..MaxVersion -> Branches \cup {"none"}]]
  /\ vectors \subseteq Files \X (1..MaxVersion) /\ unembedded \subseteq Files \X (1..MaxVersion)
  /\ cache \in [Files -> 0..MaxVersion] /\ saved \in [Files -> 0..MaxVersion] /\ dirty \in BOOLEAN
  /\ \A r \in Runs :
       /\ act[r].pc \in {"idle", "collect", "compare", "process", "save", "saving", "returned"}
       /\ act[r].kind \in {"refresh", "rebuild"}
       /\ act[r].listed \subseteq Files /\ act[r].failed \subseteq Files
       /\ act[r].todo \subseteq Files \X (1..MaxVersion) /\ act[r].snap \in [Files -> 0..MaxVersion]
       /\ \A f \in Files : work[r][f].st \in {"none", "todo", "read", "stored", "done"}
  /\ newest \in 0..MaxVersion /\ moves \in 0..MaxMoves

Indexed(f) == row[f] = [branch |-> current, ver |-> disk[f]] /\ chunks[f][disk[f]] = current
Embedded(f) == <<f, disk[f]>> \in vectors \cup unembedded
(* What the index is not protected from: a file edited while it is         *)
(* processed, a branch switch, a rebuild that was overlapped or cut off, a *)
(* refresh cut off or a file that failed and an old content restored, runs *)
(* that overlap one of which compares a listing that is no longer true,    *)
(* or has a file fail.                                                     *)
Upset == {"editUnderway", "switch", "rebuildOverlap", "rebuildCrash"}
Disordered ==
  \/ seen \cap Upset # {}
  \/ "restored" \in seen /\ seen \cap {"crash", "failed"} # {}
  \/ "overlap" \in seen /\ seen \cap {"listingStale", "failed"} # {}

(* A file that a refresh skips is indexed.  One that the hashes in memory  *)
(* cover is indexed as it is on the disk, at every moment, whatever files  *)
(* are edited and however runs overlap, as long as nothing of what the     *)
(* index does not guard against has happened.                              *)
SkippedNow ==
  ~Disordered =>
    \A f \in Present : cache[f] = disk[f] =>
      /\ Indexed(f)
      /\ Embedded(f) \/ "overlap" \in seen \/ \E r \in Runs : <<f, disk[f]>> \in act[r].todo

(* What the cache file says holds across a crash at any moment: nothing    *)
(* that a restarted process skips lacks symbols, chunks or embeddings,     *)
(* unless runs overlapped as well, which save each other's half-done work, *)
(* or an old content came back before its successor was saved.             *)
SkippedAfterRestart ==
  seen \cap (Upset \cup {"overlap", "restored"}) = {} =>
    \A f \in Present : saved[f] = disk[f] =>
      (Indexed(f) /\ Embedded(f)) \/ \E r \in Active : act[r].kind = "rebuild"

(* Both: no refresh skips a file that is not indexed.                      *)
SkippedIsIndexed == SkippedNow /\ SkippedAfterRestart

(* Symbols and chunks of the current branch are those of the disk, but for *)
(* files that failed.                                                      *)
UpToDate(failed) ==
  /\ \A f \in Present \ failed : Indexed(f)
  /\ seen \cap {"crash", "failed"} # {} \/ \A f \in Files \ Present : row[f].branch # current

(* A refresh that nobody disturbed leaves the index equal to the disk,     *)
(* after any history that the cache survives; the files it failed on,      *)
(* though the call succeeds, are those the next refresh finds changed.     *)
RefreshCatchesUp ==
  \A r \in Runs :
    At(r, "returned") /\ act[r].kind = "refresh" /\ act[r].clean /\ ~Disordered =>
      UpToDate(act[r].failed) /\ act[r].failed \subseteq Changed(Present)

(* A rebuild that nobody disturbed does so after any history at all, and   *)
(* the cache and its file know every file but those it failed on.          *)
RebuildHeals ==
  \A r \in Runs :
    At(r, "returned") /\ act[r].kind = "rebuild" /\ act[r].clean =>
      /\ UpToDate(act[r].failed) /\ \A f \in Files \ Present : row[f].branch # current
      /\ cache = [f \in Files |-> IF f \in act[r].failed THEN 0 ELSE disk[f]] /\ saved = cache

=============================================================================
