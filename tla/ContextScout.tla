----------------------------- MODULE ContextScout -----------------------------
(***************************************************************************)
(* The context scout, workspace/src/context-scout and hooks/context-scout: *)
(* what search tools print is mined for patterns, which are kept for a     *)
(* while and the best of which are shown when a plan is read.  Each call   *)
(* of the hook is one operator, from the stored patterns to those stored   *)
(* next; the file is read and rewritten like that of SessionModes.         *)
(*                                                                         *)
(* Time goes in half-lives of the ranking, six hours each.  A severity is  *)
(* its rank, a confidence is in hundredths, a text is <<word, form>> where *)
(* the form tells apart what differs only in case or spaces, and "" is     *)
(* what is not known.                                                      *)
(***************************************************************************)
EXTENDS Integers, Sequences, FiniteSets, SequencesExt

medium == 1
high == 2
critical == 3

Candidate(pattern, severity, source, file, symbol, confidence, tags) ==
  [pattern |-> pattern, severity |-> severity, source |-> source, file |-> file,
   symbol |-> symbol, confidence |-> confidence, tags |-> tags]

(* A line of grep names a file, is a match in the file named last, or ends *)
(* the file's matches.                                                     *)
extractGrepCandidates(lines) ==
  LET After(state, line) ==
        CASE line.kind = "path" -> [state EXCEPT !.path = line.file]
          [] line.kind = "match" /\ state.path # "" ->
               [state EXCEPT !.found = Append(@, Candidate(line.text, high, "grep", state.path, "", 78,
                                                           {"content-match", "line-extract"}))]
          [] line.kind = "match" /\ state.path = "" -> state
          [] line.kind = "blank" -> state
          [] OTHER -> [state EXCEPT !.path = ""]
  IN FoldLeft(After, [path |-> "", found |-> <<>>], lines).found

extractGlobCandidates(lines) ==
  LET paths == SelectSeq(lines, LAMBDA line : line.kind = "path")
  IN [i \in DOMAIN paths |->
        Candidate(<<paths[i].file, "plain">>, medium, "glob", paths[i].file, "", 50, {"path-discovery"})]

extractAstGrepCandidates(lines) ==
  LET snippets == SelectSeq(lines, LAMBDA line : line.kind = "snippet")
  IN [i \in DOMAIN snippets |->
        Candidate(snippets[i].text, high, "ast_grep", snippets[i].file, "", 90, {"ast-match"})]

(* The JSON of the language server: its named objects, however deep.       *)
extractLspCandidates(lines) ==
  LET named == SelectSeq(lines, LAMBDA line : line.kind = "named")
  IN [i \in DOMAIN named |->
        Candidate(named[i].text, medium, "lsp", named[i].file, named[i].text[1], 62, {"symbol"})]

(* What one output says twice stands once.                                 *)
dedupeCandidates(found) ==
  FoldLeft(LAMBDA kept, c : IF Contains(kept, c) THEN kept ELSE Append(kept, c), <<>>, found)

extractPatternCandidates(tool, lines) ==
  dedupeCandidates(CASE tool = "grep" -> extractGrepCandidates(lines)
                     [] tool = "glob" -> extractGlobCandidates(lines)
                     [] tool \in {"ast_grep_search", "ast_grep_replace"} -> extractAstGrepCandidates(lines)
                     [] OTHER -> extractLspCandidates(lines))

(* The hook keeps what lies under the roots; every source but none at all  *)
(* has to say where its pattern was found.                                 *)
Admitted(candidates, trusted) == SelectSeq(candidates, LAMBDA c : c.file \in trusted)
-----------------------------------------------------------------------------
TimeToLive(severity) == 4 * severity

(* A pattern has the tool that found it in its id; the same tool gives it  *)
(* the same severity, confidence and tags each time.                       *)
upsertPatterns(store, candidates, now) ==
  LET IdOf(c) == <<c.pattern, c.file, c.symbol, c.source>>
      Upserted(patterns, c) ==
        LET seenAs == {i \in DOMAIN patterns : patterns[i].id = IdOf(c)}
            first == IF seenAs = {} THEN now ELSE patterns[CHOOSE i \in seenAs : TRUE].first
            record == [id |-> IdOf(c), pattern |-> c.pattern, severity |-> c.severity,
                       source |-> c.source, file |-> c.file, symbol |-> c.symbol,
                       confidence |-> c.confidence, tags |-> c.tags, first |-> first,
                       last |-> now, expires |-> now + TimeToLive(c.severity)]
        IN IF seenAs = {} THEN Append(patterns, record)
           ELSE [i \in DOMAIN patterns |-> IF i \in seenAs THEN record ELSE patterns[i]]
  IN FoldLeft(Upserted, store, candidates)

Live(record, now) == record.expires > now
pruneExpired(store, now) == SelectSeq(store, LAMBDA record : Live(record, now))

(* Array.sort keeps the order of what it does not tell apart.              *)
StableSort(list, Before(_, _)) ==
  LET order == SetToSortSeq(DOMAIN list, LAMBDA i, j :
                 Before(list[i], list[j]) \/ (~Before(list[j], list[i]) /\ i < j))
  IN [i \in DOMAIN list |-> list[order[i]]]
FirstOf(list, n) == SubSeq(list, 1, IF Len(list) < n THEN Len(list) ELSE n)

listPatterns(store, now, minSeverity) ==
  StableSort(SelectSeq(store, LAMBDA r : Live(r, now) /\ r.severity >= minSeverity),
             LAMBDA r, q : r.last > q.last)

toDedupeIdentity(record) == <<record.pattern[1], record.file, record.symbol>>

Larger(m, n) == IF m >= n THEN m ELSE n
OrElse(known, other) == IF known = "" THEN other ELSE known

mergePatternRecords(r, q) ==
  LET keepQ == q.confidence > r.confidence
  IN [r EXCEPT !.pattern = IF keepQ THEN q.pattern ELSE @,
               !.source = IF keepQ THEN OrElse(q.source, @) ELSE OrElse(@, q.source),
               !.severity = Larger(@, q.severity), !.confidence = Larger(@, q.confidence),
               !.tags = @ \cup q.tags, !.first = IF @ <= q.first THEN @ ELSE q.first,
               !.last = Larger(@, q.last), !.expires = Larger(@, q.expires)]

dedupePatternRecords(records) ==
  LET Merged(kept, r) ==
        LET same == {i \in DOMAIN kept : toDedupeIdentity(kept[i]) = toDedupeIdentity(r)}
        IN IF same = {} THEN Append(kept, r)
           ELSE [i \in DOMAIN kept |-> IF i \in same THEN mergePatternRecords(kept[i], r) ELSE kept[i]]
  IN FoldLeft(Merged, <<>>, records)

(* Half of it is severity, 35 % confidence and 15 % freshness, which is    *)
(* halved with each half-life; no live pattern is older than twelve.       *)
computePatternScore(record, now) ==
  (1000 * record.severity + 21 * record.confidence) * 2^12 + 900 * 2^(12 - Larger(0, now - record.last))

listRankedPatterns(store, now, minSeverity, limit) ==
  LET Better(r, q) ==
        LET s == computePatternScore(r, now)
            t == computePatternScore(q, now)
        IN \/ s > t
           \/ s = t /\ r.severity > q.severity
           \/ s = t /\ r.severity = q.severity /\ r.last > q.last
  IN FirstOf(StableSort(dedupePatternRecords(listPatterns(store, now, minSeverity)), Better), limit)

(* The lines that fit beside header and footer: one that does not fit ends *)
(* the list.  cost is what the line of a pattern takes of the budget.      *)
buildInjectionBlock(ranked, maxPatterns, maxTokens, cost) ==
  LET Shown(state, r) ==
        IF state.full \/ r.confidence < 50 THEN state
        ELSE IF state.tokens + cost[r.pattern] > maxTokens THEN [state EXCEPT !.full = TRUE]
        ELSE [tokens |-> state.tokens + cost[r.pattern], lines |-> Append(state.lines, r),
              full |-> Len(state.lines) + 1 >= maxPatterns]
  IN FoldLeft(Shown, [tokens |-> 0, lines |-> <<>>, full |-> FALSE], ranked).lines

(* The hook after a tool: what is stored, and what is shown.  Patterns of  *)
(* the last seven days are shown, so all that have not expired.            *)
AfterSearch(store, tool, lines, trusted, now) ==
  pruneExpired(upsertPatterns(store, Admitted(extractPatternCandidates(tool, lines), trusted), now), now)
AfterPlanRead(store, now) == pruneExpired(store, now)
Injected(store, maxPatterns, maxTokens, cost, now) ==
  buildInjectionBlock(listRankedPatterns(AfterPlanRead(store, now), now, medium, 4 * maxPatterns),
                      maxPatterns, maxTokens, cost)
-----------------------------------------------------------------------------
(* What the hook promises.                                                 *)

(* No two shown patterns are alike, and none is left out for a worse one   *)
(* as long as all lines fit: neither the expiry, nor the merging of what   *)
(* several tools found, nor the cut after four times as many hides one.    *)
ShowsTheBest(store, maxPatterns, now) ==
  LET shown == Injected(store, maxPatterns, maxPatterns, [p \in {r.pattern : r \in ToSet(store)} |-> 1], now)
      Like(r) == {i \in DOMAIN shown : toDedupeIdentity(shown[i]) = toDedupeIdentity(r)}
  IN /\ \A i, j \in DOMAIN shown : toDedupeIdentity(shown[i]) = toDedupeIdentity(shown[j]) => i = j
     /\ \A r \in ToSet(store) : Live(r, now) /\ Like(r) = {} =>
          /\ Len(shown) = maxPatterns
          /\ \A i \in DOMAIN shown : computePatternScore(shown[i], now) >= computePatternScore(r, now)
     /\ \A r \in ToSet(store), i \in DOMAIN shown : Live(r, now) /\ i \in Like(r) =>
          computePatternScore(shown[i], now) >= computePatternScore(r, now)

(* What is pruned would not have been shown any more, now or later.        *)
PruningIsUnseen(store, now, later) ==
  listRankedPatterns(pruneExpired(store, now), later, medium, Len(store))
    = listRankedPatterns(store, later, medium, Len(store))

(* Merging does not depend on the order in which the tools reported.       *)
MergesInAnyOrder(store) ==
  LET Merits(list) == {<<toDedupeIdentity(list[i]), list[i].severity, list[i].confidence, list[i].tags,
                         list[i].first, list[i].last, list[i].expires>> : i \in DOMAIN list}
  IN Merits(dedupePatternRecords(store)) = Merits(dedupePatternRecords(Reverse(store)))
=============================================================================
